--------------------------- MODULE BuildNexProofs ---------------------------
(***************************************************************************)
(* Proofs about Build and the NEX files it makes, for every folder, every  *)
(* set of programs, pages of any size, any number of banks and any number  *)
(* of edits: first the processes of a build and the modules they deliver,  *)
(* then what nextcreator.py makes of a configuration and what the machine  *)
(* finds when it loads the file.                                           *)
(***************************************************************************)
EXTENDS Build, WellFoundedInduction, SequenceTheorems, FiniteSetTheorems, TLAPS

-----------------------------------------------------------------------------
(* Induction and the loops over lines.                                     *)

\* A set that has 0 and the successor of each of its members has every
\* natural number.
LEMMA NatSetInduction ==
    ASSUME NEW S, 0 \in S, \A n \in Nat : n \in S => n + 1 \in S
    PROVE  Nat \subseteq S
<1> DEFINE T == Nat \ S
<1>1. SUFFICES ASSUME T # {} PROVE FALSE
  OBVIOUS
<1>2. PICK x \in T : \A y \in T : ~ (<<y, x>> \in OpToRel(<, Nat))
  BY <1>1, NatLessThanWellFounded, WFMin
<1>3. \A y \in T : ~ (y < x)
  BY <1>2 DEF OpToRel
<1>4. x # 0 /\ x - 1 \in Nat
  OBVIOUS
<1>5. x - 1 \notin T
  BY <1>3, <1>4
<1> QED BY <1>4, <1>5

\* '!module= asks for no NEX file, and no other directive takes that back.
ModuleAlone(s) == s.isModule => s.noNex

\* What the directives of a head without '!origin= can make of the settings.
LEMMA DirectiveSettings ==
    ASSUME NEW s \in Settings, NEW d \in Directives, d.op # "origin"
    PROVE  /\ Directive(s, d) \in Settings
           /\ s.isModule => Directive(s, d).isModule
           /\ d.op # "asm" => Directive(s, d).asm = s.asm
           /\ ModuleAlone(s) => ModuleAlone(Directive(s, d))
<1> USE PageAssumption DEF ModuleAlone
<1>1. CASE d \in [op : {"org", "pc"}, at : Address]
  <2>1. CASE d.op = "org"
    BY <1>1, <2>1 DEF Directive, Settings
  <2>2. CASE d.op = "pc"
    BY <1>1, <2>2 DEF Directive, Settings
  <2> QED BY <1>1, <2>1, <2>2
<1>2. CASE d \in [op : Switches]
  <2>1. d.op \in Switches
    BY <1>2
  <2>2. 3 * Page \in Address
    BY DEF Address
  <2>3. CASE d.op = "module"
    <3>1. Directive(s, d) = [s EXCEPT !.noemu = TRUE, !.noNex = TRUE, !.isModule = TRUE,
                                      !.pcadd = 3 * Page, !.org = 3 * Page]
      BY <2>3 DEF Directive
    <3>2. \A a \in Address : [s EXCEPT !.noemu = TRUE, !.noNex = TRUE, !.isModule = TRUE,
                                      !.pcadd = a, !.org = a] \in Settings
      BY DEF Settings
    <3>3. Directive(s, d).isModule /\ Directive(s, d).noNex /\ Directive(s, d).asm = s.asm
      BY <3>1 DEF Settings
    <3> QED BY <2>2, <3>1, <3>2, <3>3
  <2>4. CASE d.op = "noemu"
    BY <2>4 DEF Directive, Settings
  <2>5. CASE d.op = "asm"
    BY <2>5 DEF Directive, Settings
  <2>6. CASE d.op = "headerless"
    BY <2>6 DEF Directive, Settings
  <2>7. CASE d.op = "nextzxos"
    BY <2>7 DEF Directive, Settings
  <2>8. CASE d.op = "autostart"
    BY <2>8 DEF Directive, Settings
  <2>9. CASE d.op = "bin"
    BY <2>9 DEF Directive, Settings
  <2>10. CASE d.op = "nosys"
    BY <2>10 DEF Directive, Settings
  <2>11. CASE d.op = "nonex"
    BY <2>11 DEF Directive, Settings
  <2> QED BY <2>1, <2>3, <2>4, <2>5, <2>6, <2>7, <2>8, <2>9, <2>10, <2>11 DEF Switches
<1>3. CASE d \in [op : {"master", "origin"}, unit : Units]
  BY <1>3 DEF Directive, Settings
<1>4. CASE d \in [op : {"copy"}, kind : {"bin", "nex"}]
  BY <1>4 DEF Directive, Settings
<1>5. CASE d \in [op : {"bmp"}, file : Part]
  BY <1>5 DEF Directive, Settings
<1> QED BY <1>1, <1>2, <1>3, <1>4, <1>5 DEF Directives

\* f[k] are the settings after k lines of a head that is read from first on:
\* the function Read chooses.
Reading(f, first, head, n) ==
    f = [k \in 0..n |-> IF k = 0 THEN first ELSE Directive(f[k - 1], head[k])]

\* The loop over the lines of the head is defined: there is a settings record
\* after each line.
LEMMA ReadDefined ==
    ASSUME NEW first, NEW head
    PROVE  \A n \in Nat : \E f : Reading(f, first, head, n)
<1> USE DEF Reading
<1> DEFINE Loop(f, n) == Reading(f, first, head, n)
           S == {n \in Nat : \E f : Loop(f, n)}
<1>1. 0 \in S
  <2>1. Loop([k \in 0..0 |-> first], 0)
    OBVIOUS
  <2> QED BY <2>1
<1>2. ASSUME NEW n \in Nat, n \in S PROVE n + 1 \in S
  <2>1. PICK f : Loop(f, n)
    BY <1>2
  <2> DEFINE g == [k \in 0..(n + 1) |-> IF k = n + 1 THEN Directive(f[n], head[k]) ELSE f[k]]
  <2>2. ASSUME NEW k \in 0..(n + 1)
        PROVE  g[k] = IF k = 0 THEN first ELSE Directive(g[k - 1], head[k])
    <3>1. CASE k = n + 1
      <4>1. g[k] = Directive(f[n], head[k]) /\ g[k - 1] = f[n] /\ k # 0
        BY <3>1
      <4> QED BY <4>1
    <3>2. CASE k # n + 1 /\ k # 0
      <4>1. g[k] = f[k] /\ g[k - 1] = f[k - 1]
        BY <3>2
      <4>2. f[k] = Directive(f[k - 1], head[k])
        BY <2>1, <3>2
      <4> QED BY <3>2, <4>1, <4>2
    <3>3. CASE k = 0
      BY <2>1, <3>3
    <3> QED BY <3>1, <3>2, <3>3
  <2>3. Loop(g, n + 1)
    <3>1. g = [k \in 0..(n + 1) |-> g[k]]
      OBVIOUS
    <3> HIDE DEF g
    <3> QED BY <2>2, <3>1, Zenon
  <2>4. n + 1 \in Nat
    OBVIOUS
  <2> HIDE DEF g, Loop
  <2> QED BY <2>3, <2>4
<1>3. Nat \subseteq S
  <2> HIDE DEF S
  <2> QED BY <1>1, <1>2, NatSetInduction
<1> QED BY <1>3

\* Reading a head from settings of the right shape.
LEMMA ReadSettings ==
    ASSUME NEW s \in Settings, NEW head \in Seq(Directives),
           \A k \in DOMAIN head : head[k].op # "origin"
    PROVE  /\ Read(s, head) \in Settings
           /\ s.isModule => Read(s, head).isModule
           /\ (\A k \in DOMAIN head : head[k].op # "asm") => Read(s, head).asm = s.asm
           /\ ModuleAlone(s) => ModuleAlone(Read(s, head))
<1> DEFINE first == [s EXCEPT !.org = 4 * Page]
           N == Len(head)
           after == CHOOSE f : Reading(f, first, head, N)
           Good == {r \in Settings :
                      /\ s.isModule => r.isModule
                      /\ (\A k \in DOMAIN head : head[k].op # "asm") => r.asm = s.asm
                      /\ ModuleAlone(s) => ModuleAlone(r)}
           S == {n \in Nat : n <= N => after[n] \in Good}
<1>1. N \in Nat /\ DOMAIN head = 1..N
  OBVIOUS
<1>2. Reading(after, first, head, N)
  <2> HIDE DEF first
  <2>1. \E f : Reading(f, first, head, N)
    BY <1>1, ReadDefined
  <2> QED BY <2>1, Zenon
<1>3. Read(s, head) = after[N]
  BY DEF Read, Reading
<1> USE DEF Reading
<1> HIDE DEF after
<1>4. first \in Good
  <2>1. 4 * Page \in Address
    BY PageAssumption DEF Address
  <2>2. \A a \in Address : [s EXCEPT !.org = a] \in Settings
    BY DEF Settings
  <2>3. first.isModule = s.isModule /\ first.asm = s.asm /\ first.noNex = s.noNex
    BY DEF Settings
  <2> QED BY <2>1, <2>2, <2>3 DEF ModuleAlone
<1> HIDE DEF first
<1>5. 0 \in S
  BY <1>1, <1>2, <1>4
<1>6. ASSUME NEW n \in Nat, n \in S PROVE n + 1 \in S
  <2>1. SUFFICES ASSUME n + 1 <= N PROVE after[n + 1] \in Good
    OBVIOUS
  <2>2. after[n] \in Good
    BY <1>1, <1>6, <2>1
  <2>3. n + 1 \in DOMAIN head /\ head[n + 1] \in Directives
    BY <1>1, <2>1
  <2>4. after[n + 1] = Directive(after[n], head[n + 1])
    BY <1>1, <1>2, <2>1
  <2>5. \A r \in Good : Directive(r, head[n + 1]) \in Good
    <3>1. head[n + 1].op # "origin"
      BY <2>3
    <3>2. ASSUME NEW r \in Settings
          PROVE  LET t == Directive(r, head[n + 1]) IN
                 /\ t \in Settings
                 /\ r.isModule => t.isModule
                 /\ head[n + 1].op # "asm" => t.asm = r.asm
                 /\ ModuleAlone(r) => ModuleAlone(t)
      BY <2>3, <3>1, DirectiveSettings
    <3> QED BY <2>3, <3>2
  <2> QED BY <2>2, <2>4, <2>5
<1>7. N \in S
  <2>1. Nat \subseteq S
    <3> HIDE DEF S
    <3> QED BY <1>5, <1>6, NatSetInduction
  <2> QED BY <1>1, <2>1
<1> QED BY <1>3, <1>7

\* A set of natural numbers that is not empty has a least member.
LEMMA LeastMember ==
    ASSUME NEW K \in SUBSET Nat, K # {}
    PROVE  \E k \in K : \A j \in K : k <= j
<1>1. PICK k \in K : \A j \in K : ~ (<<j, k>> \in OpToRel(<, Nat))
  BY NatLessThanWellFounded, WFMin
<1>2. \A j \in K : ~ (j < k)
  BY <1>1 DEF OpToRel
<1> QED BY <1>2

-----------------------------------------------------------------------------
(* Shapes.                                                                 *)

\* The head that is read is the start of the source, line by line.
LEMMA HeadingFacts ==
    ASSUME Typed, NEW u \in Units
    PROVE  /\ Heading(u) \in Seq(Directives)
           /\ Redirects(u) \subseteq Nat
           /\ \A k \in DOMAIN Heading(u) : Heading(u)[k] = src[u].prog.head[k]
<1> DEFINE h == src[u].prog.head
           n == IF Len(h) < HeadLines THEN Len(h) ELSE HeadLines
<1>1. h \in Seq(Directives)
  BY DEF Typed, Program
<1>2. Heading(u) = SubSeq(h, 1, n)
  BY DEF Heading
<1>3. n \in Nat /\ n <= Len(h)
  BY <1>1, HeadLinesAssumption
<1>4. /\ SubSeq(h, 1, n) \in Seq(Directives)
      /\ DOMAIN SubSeq(h, 1, n) = 1..n
      /\ \A k \in 1..n : SubSeq(h, 1, n)[k] = h[k]
  <2> HIDE DEF h, n
  <2> QED BY <1>1, <1>3
<1> HIDE DEF n
<1> QED BY <1>2, <1>3, <1>4 DEF Redirects

\* A process starts with settings of the right shape.
LEMMA StartTyped ==
    ASSUME NEW u \in Units, NEW flag \in Flags
    PROVE  Start(u, flag) \in Jobs
<1>1. 4 * Page \in Address /\ 0 \in Address
  BY PageAssumption DEF Address
<1>2. Defaults(flag) \in Settings
  BY <1>1 DEF Defaults, Settings
<1> QED BY <1>2 DEF Start, Jobs, Steps

\* Settling keeps the shape and, with -m, the settings that decide what is built;
\* with -s the file itself is what is run.
LEMMA SettleSettings ==
    ASSUME NEW s \in Settings, NEW u \in Units, NEW flag
    PROVE  /\ Settle(s, u, flag) \in Settings
           /\ Settle(s, u, flag).asm = s.asm
           /\ flag = "m" => Settle(s, u, flag).isModule = s.isModule
           /\ flag = "s" => Settle(s, u, flag).master = u
           /\ ModuleAlone(s) => ModuleAlone(Settle(s, u, flag))
<1> DEFINE single == IF flag = "s" THEN [s EXCEPT !.isModule = FALSE, !.master = u] ELSE s
           copied(r) == [r EXCEPT !.makebin = r.nextzxos, !.copy = None]
<1>1. ASSUME NEW r \in Settings
      PROVE  LET t == [r EXCEPT !.isModule = FALSE, !.master = u] IN
             t \in Settings /\ t.asm = r.asm /\ t.master = u /\ ~t.isModule
  <2>1. [r EXCEPT !.isModule = FALSE] \in Settings
    BY DEF Settings
  <2>2. \A q \in Settings : LET t == [q EXCEPT !.master = u] IN
          t \in Settings /\ t.asm = q.asm /\ t.master = u /\ t.isModule = q.isModule
    BY DEF Settings
  <2>3. [r EXCEPT !.isModule = FALSE].asm = r.asm /\ ~[r EXCEPT !.isModule = FALSE].isModule
    BY DEF Settings
  <2> QED BY <2>1, <2>2, <2>3
<1>2. ASSUME NEW r \in Settings
      PROVE  /\ copied(r) \in Settings /\ copied(r).asm = r.asm
             /\ copied(r).isModule = r.isModule /\ copied(r).noNex = r.noNex
             /\ copied(r).master = r.master
  <2>1. LET t == [r EXCEPT !.makebin = r.nextzxos] IN
        /\ t \in Settings /\ t.asm = r.asm /\ t.isModule = r.isModule
        /\ t.noNex = r.noNex /\ t.master = r.master
    BY DEF Settings
  <2>2. \A q \in Settings : LET t == [q EXCEPT !.copy = None] IN
          /\ t \in Settings /\ t.asm = q.asm /\ t.isModule = q.isModule
          /\ t.noNex = q.noNex /\ t.master = q.master
    BY DEF Settings
  <2> QED BY <2>1, <2>2
<1>3. /\ single \in Settings /\ single.asm = s.asm
      /\ flag = "m" => single.isModule = s.isModule
      /\ flag = "s" => single.master = u
      /\ ModuleAlone(s) => ModuleAlone(single)
  BY <1>1 DEF ModuleAlone
<1>4. Settle(s, u, flag) = IF single.makebin THEN copied(single) ELSE single
  BY DEF Settle
<1> HIDE DEF single, copied
<1> QED BY <1>2, <1>3, <1>4 DEF ModuleAlone

\* What '!origin= leaves: settings read so far, and another source of the folder.
LEMMA OriginTyped ==
    ASSUME Typed, Origin
    PROVE  \E s \in Settings, v \in Units :
             /\ job' = [job EXCEPT !.set = s, !.input = v]
             /\ job.set.isModule => s.isModule
             /\ ModuleAlone(job.set) => ModuleAlone(s)
<1>1. job # None /\ job \in Jobs
  BY DEF Typed, Origin, At
<1>2. job.input \in Units /\ job.set \in Settings
  BY <1>1 DEF Jobs
<1> DEFINE K == Redirects(job.input)
           h == Heading(job.input)
           k == CHOOSE k \in K : \A j \in K : k <= j
           s == Read(job.set, SubSeq(h, 1, k - 1))
<1>3. h \in Seq(Directives) /\ K \subseteq Nat
  BY <1>2, HeadingFacts
<1>4. k \in K /\ \A j \in K : k <= j
  <2>1. \E i \in K : \A j \in K : i <= j
    <3> HIDE DEF K
    <3> QED BY <1>3, LeastMember DEF Origin, K
  <2> HIDE DEF K
  <2> QED BY <2>1
<1>5. k \in DOMAIN h /\ h[k].op = "origin" /\ h[k].unit \in Units
  <2>1. k \in DOMAIN h /\ h[k].op = "origin"
    BY <1>4 DEF Redirects
  <2>2. h[k] \in Directives
    BY <1>3, <2>1
  <2> QED BY <2>1, <2>2 DEF Directives, Switches
<1>6. job' = [job EXCEPT !.set = s, !.input = h[k].unit]
  BY <1>1, <1>2 DEF Origin, Jobs
<1>7. /\ s \in Settings /\ (job.set.isModule => s.isModule)
      /\ ModuleAlone(job.set) => ModuleAlone(s)
  <2> DEFINE q == SubSeq(h, 1, k - 1)
  <2>1. /\ q \in Seq(Directives)
        /\ DOMAIN q = 1..(k - 1)
        /\ \A j \in 1..(k - 1) : q[j] = h[j]
    <3> HIDE DEF h, k, K
    <3> QED BY <1>3, <1>5
  <2>2. \A j \in DOMAIN q : q[j].op # "origin"
    <3>1. SUFFICES ASSUME NEW j \in DOMAIN q, h[j].op = "origin" PROVE FALSE
      BY <2>1
    <3>2. j \in DOMAIN h /\ j < k
      <4> HIDE DEF h, k, K, q
      <4> QED BY <1>3, <1>5, <2>1, <3>1
    <3>3. j \in K
      BY <3>1, <3>2 DEF Redirects
    <3>4. k \in Nat /\ j \in Nat /\ k <= j
      <4> HIDE DEF k, K
      <4> QED BY <1>3, <1>4, <3>3
    <3> QED BY <3>2, <3>4
  <2> HIDE DEF q, h, k, K
  <2> QED BY <1>2, <2>1, <2>2, ReadSettings DEF q
<1> HIDE DEF s, h, k, K
<1> QED BY <1>5, <1>6, <1>7

\* What is read when no '!origin= is left.
LEMMA ParseTyped ==
    ASSUME Typed, ParseDirectives
    PROVE  \E s \in Settings, step \in {"run", "compile"} :
             /\ job' = [job EXCEPT !.set = s, !.at = step]
             /\ step = "run" <=> job.flag = "l"
             /\ job.flag = "m" /\ job.set.isModule => s.isModule
             /\ (\A k \in DOMAIN Heading(job.input) : Heading(job.input)[k].op # "asm")
                  => s.asm = job.set.asm
             /\ job.flag = "s" => s.master = job.unit
             /\ ModuleAlone(job.set) => ModuleAlone(s)
<1>1. job # None /\ job \in Jobs
  BY DEF Typed, ParseDirectives, At
<1>2. job.input \in Units /\ job.unit \in Units /\ job.set \in Settings
  BY <1>1 DEF Jobs
<1> DEFINE h == Heading(job.input)
           r == Read(job.set, h)
           s == Settle(r, job.unit, job.flag)
           step == IF job.flag = "l" THEN "run" ELSE "compile"
<1>3. h \in Seq(Directives)
  BY <1>2, HeadingFacts
<1>4. \A k \in DOMAIN h : h[k].op # "origin"
  BY DEF ParseDirectives, Redirects
<1>5. /\ r \in Settings
      /\ job.set.isModule => r.isModule
      /\ (\A k \in DOMAIN h : h[k].op # "asm") => r.asm = job.set.asm
      /\ ModuleAlone(job.set) => ModuleAlone(r)
  <2> HIDE DEF h
  <2> QED BY <1>2, <1>3, <1>4, ReadSettings
<1>6. /\ s \in Settings
      /\ s.asm = r.asm
      /\ job.flag = "m" => s.isModule = r.isModule
      /\ job.flag = "s" => s.master = job.unit
      /\ ModuleAlone(r) => ModuleAlone(s)
  <2> HIDE DEF r
  <2> QED BY <1>2, <1>5, SettleSettings
<1>7. job' = [job EXCEPT !.set = s, !.at = step]
  BY DEF ParseDirectives
<1> HIDE DEF s, r, h
<1> QED BY <1>5, <1>6, <1>7 DEF h

\* A job that goes on is a job.
LEMMA JobSteps ==
    ASSUME NEW j \in Jobs
    PROVE  /\ \A step \in Steps : [j EXCEPT !.at = step] \in Jobs
           /\ \A s \in Settings, step \in Steps : [j EXCEPT !.set = s, !.at = step] \in Jobs
           /\ \A s \in Settings, v \in Units : [j EXCEPT !.set = s, !.input = v] \in Jobs
           /\ \A step \in Steps : [j EXCEPT !.at = step, !.wrote = TRUE] \in Jobs
<1>1. \A i \in Jobs, step \in Steps : [i EXCEPT !.at = step] \in Jobs
  BY DEF Jobs
<1>2. \A i \in Jobs, s \in Settings : [i EXCEPT !.set = s] \in Jobs
  BY DEF Jobs
<1>3. \A i \in Jobs, v \in Units : [i EXCEPT !.input = v] \in Jobs
  BY DEF Jobs
<1>4. \A i \in Jobs : [i EXCEPT !.wrote = TRUE] \in Jobs
  BY DEF Jobs
<1>5. ASSUME NEW s \in Settings, NEW step \in Steps
      PROVE  [j EXCEPT !.set = s, !.at = step] \in Jobs
  <2>1. [j EXCEPT !.set = s] \in Jobs
    BY <1>2
  <2> QED BY <1>1, <2>1
<1>6. ASSUME NEW s \in Settings, NEW v \in Units
      PROVE  [j EXCEPT !.set = s, !.input = v] \in Jobs
  <2>1. [j EXCEPT !.set = s] \in Jobs
    BY <1>2
  <2> QED BY <1>3, <2>1
<1>7. ASSUME NEW step \in Steps
      PROVE  [j EXCEPT !.at = step, !.wrote = TRUE] \in Jobs
  <2>1. [j EXCEPT !.at = step] \in Jobs
    BY <1>1
  <2> QED BY <1>4, <2>1
<1> QED BY <1>1, <1>5, <1>6, <1>7

\* The binary of a compilation is one.
LEMMA CompiledTyped ==
    ASSUME Typed, job \in Jobs
    PROVE  Compiled \in Binaries
<1>1. job.input \in Units /\ job.set.org \in Address
  BY DEF Jobs, Settings
<1>2. src[job.input].ver \in 1..MaxVersion /\ src[job.input].prog.size \in Nat \ {0}
  BY <1>1 DEF Typed, Program
<1> QED BY <1>1, <1>2 DEF Compiled, Binaries

\* The steps of nextbuild.py.
JobStep == \/ Origin \/ ParseDirectives \/ CompileFails \/ Compile
           \/ ParseNEXCfgModule \/ ParseNEXCfgMissing \/ ParseNEXCfg
           \/ SkipNEXFile \/ CreateNEXFails \/ CreateNEXFile
           \/ CopyToDestination \/ CopyToDestinationFails \/ AnythingToRun \/ Launch

\* All steps, by the process that takes them.
LEMMA NextSplit ==
    ASSUME [Next]_vars
    PROVE  \/ \E u \in Units : Edit(u)
           \/ \E u \in Units : \E lines : RunNexCreator(u, lines)
           \/ \E u \in Units : BuildNext(u)
           \/ \E u \in Units, f \in Flags : RunNextBuild(u, f) /\ (f = "m" => u \in Modules)
           \/ \E u \in Units, f \in {"m", "s", "e"} : RunBuild(u, f)
           \/ JobStep
           \/ BuildCopy \/ StartEmulator \/ DeleteRelatedFiles
           \/ UNCHANGED vars
<1>1. Targets \subseteq Units /\ {"", "s", "l", "t", "m"} \subseteq Flags
  BY UnitsAssumption DEF Flags
<1> QED BY <1>1 DEF Next, JobStep

\* A step of nextbuild.py needs one that runs, and leaves the sources and build.py alone.
LEMMA JobStepFrame ==
    ASSUME JobStep
    PROVE  job # None /\ UNCHANGED <<src, outer>>
  BY DEF JobStep, Origin, ParseDirectives, CompileFails, Compile, ParseNEXCfgModule,
         ParseNEXCfgMissing, ParseNEXCfg, SkipNEXFile, CreateNEXFails, CreateNEXFile,
         CopyToDestination, CopyToDestinationFails, AnythingToRun, Launch, At

\* A step of nextbuild.py ends it or leaves it a job; the sources are not its to write.
LEMMA JobOutcome ==
    ASSUME Typed, JobStep
    PROVE  /\ job' \in Jobs \cup {None}
           /\ bin' \in [Units -> Binaries \cup {None}]
           /\ data' \in [Units -> Binaries \cup {None}]
<1>1. job \in Jobs
  BY JobStepFrame DEF Typed
<1>2. job.unit \in Units /\ bin \in [Units -> Binaries \cup {None}]
      /\ data \in [Units -> Binaries \cup {None}]
  BY <1>1 DEF Jobs, Typed
<1>3. CASE Origin
  <2>1. job' \in Jobs
    <3>1. PICK s \in Settings, u \in Units : job' = [job EXCEPT !.set = s, !.input = u]
      BY <1>3, OriginTyped
    <3> QED BY <1>1, <3>1, JobSteps
  <2> QED BY <1>2, <1>3, <2>1 DEF Origin, files
<1>4. CASE ParseDirectives
  <2>1. job' \in Jobs
    <3>1. PICK s \in Settings, step \in {"run", "compile"} :
            job' = [job EXCEPT !.set = s, !.at = step]
      BY <1>4, ParseTyped
    <3>2. step \in Steps
      BY DEF Steps
    <3> QED BY <1>1, <3>1, <3>2, JobSteps
  <2> QED BY <1>2, <1>4, <2>1 DEF ParseDirectives, files
<1>5. CASE CompileFails
  BY <1>2, <1>5 DEF CompileFails, Ended, files
<1>6. CASE Compile
  <2>1. job' \in Jobs \cup {None}
    BY <1>1, <1>6, JobSteps DEF Compile, Ended, Go, Steps
  <2>2. bin' \in [Units -> Binaries \cup {None}]
    <3>1. bin' = bin \/ bin' = [bin EXCEPT ![job.unit] = Compiled]
      BY <1>6 DEF Compile
    <3> QED BY <1>1, <1>2, <3>1, CompiledTyped
  <2> QED BY <1>2, <1>6, <2>1, <2>2 DEF Compile
<1>7. CASE ParseNEXCfgModule
  <2>1. job' \in Jobs
    BY <1>1, <1>7, JobSteps DEF ParseNEXCfgModule, Go, Steps
  <2>2. data' \in [Units -> Binaries \cup {None}]
    <3>1. bin[job.unit] \in Binaries \cup {None}
      BY <1>2
    <3>2. data' = data \/ data' = [data EXCEPT ![job.unit] = bin[job.unit]]
      BY <1>7 DEF ParseNEXCfgModule
    <3> QED BY <1>2, <3>1, <3>2
  <2> QED BY <1>2, <1>7, <2>1, <2>2 DEF ParseNEXCfgModule
<1>8. CASE ParseNEXCfgMissing
  BY <1>2, <1>8 DEF ParseNEXCfgMissing, Ended
<1>9. CASE ParseNEXCfg
  <2>1. job' \in Jobs
    BY <1>1, <1>9, JobSteps DEF ParseNEXCfg, Go, Steps
  <2> QED BY <1>2, <1>9, <2>1 DEF ParseNEXCfg
<1>10. CASE SkipNEXFile
  <2>1. job' \in Jobs
    BY <1>1, <1>10, JobSteps DEF SkipNEXFile, AfterNex, Go, Steps
  <2> QED BY <1>2, <1>10, <2>1 DEF SkipNEXFile, files
<1>11. CASE CreateNEXFails
  BY <1>2, <1>11 DEF CreateNEXFails, Ended, files
<1>12. CASE CreateNEXFile
  <2>1. job' \in Jobs
    BY <1>1, <1>12, JobSteps DEF CreateNEXFile, AfterNex, Steps
  <2> QED BY <1>2, <1>12, <2>1 DEF CreateNEXFile
<1>13. CASE CopyToDestination
  <2>1. job' \in Jobs
    BY <1>1, <1>13, JobSteps DEF CopyToDestination, Go, Steps
  <2> QED BY <1>2, <1>13, <2>1 DEF CopyToDestination
<1>14. CASE CopyToDestinationFails
  BY <1>2, <1>14 DEF CopyToDestinationFails, Ended
<1>15. CASE AnythingToRun
  BY <1>2, <1>15 DEF AnythingToRun, Ended, files
<1>16. CASE Launch
  BY <1>2, <1>16 DEF Launch, Ended, files
<1> QED BY <1>3, <1>4, <1>5, <1>6, <1>7, <1>8, <1>9, <1>10, <1>11, <1>12, <1>13,
           <1>14, <1>15, <1>16 DEF JobStep

\* build.py -e compiles nothing, and so starts no nextbuild.py with its flag;
\* build.py waits for every nextbuild.py it starts.
Phases ==
    outer # None => /\ outer.flag = "e" => outer.todo = {}
                    /\ outer.at # "compile" => job = None

\* The shapes are kept by every step.
LEMMA TypedStep ==
    ASSUME Typed, Phases, [Next]_vars
    PROVE  Typed'
<1>1. /\ src \in [Units -> [prog : Program, ver : 1..MaxVersion]]
      /\ bin \in [Units -> Binaries \cup {None}]
      /\ data \in [Units -> Binaries \cup {None}]
      /\ job \in Jobs \cup {None} /\ outer \in Outers \cup {None}
  BY DEF Typed
<1>2. ASSUME NEW u \in Units, Edit(u) PROVE Typed'
  <2>1. PICK p \in Programs[u] : src' = [src EXCEPT ![u] = [prog |-> p, ver |-> @.ver + 1]]
    BY <1>2 DEF Edit
  <2>2. p \in Program /\ src[u].ver + 1 \in 1..MaxVersion
    <3>1. p \in Program
      BY ProgramsAssumption
    <3>2. src[u].ver \in 1..MaxVersion /\ src[u].ver < MaxVersion
      BY <1>1, <1>2 DEF Edit
    <3> QED BY <3>1, <3>2, VersionAssumption
  <2>3. src' \in [Units -> [prog : Program, ver : 1..MaxVersion]]
    BY <1>1, <2>1, <2>2
  <2> QED BY <1>1, <1>2, <2>3 DEF Edit, files, Typed
<1>3. ASSUME NEW u \in Units, NEW lines, RunNexCreator(u, lines)
      PROVE  Typed'
  BY <1>1, <1>3 DEF RunNexCreator, Typed
<1>4. ASSUME NEW u \in Units, BuildNext(u) PROVE Typed'
  <2>1. outer \in Outers
    BY <1>1, <1>4 DEF BuildNext
  <2>2. outer' \in Outers
    <3>1. outer' = [outer EXCEPT !.todo = outer.todo \ {u}]
      BY <1>4 DEF BuildNext
    <3> QED BY <2>1, <3>1 DEF Outers
  <2>3. job' \in Jobs
    <3>1. outer.flag \in {"m", "s", "e"} /\ outer.flag # "e"
      BY <1>4, <2>1 DEF Outers, BuildNext, Phases
    <3>2. outer.flag \in Flags
      BY <3>1 DEF Flags
    <3> QED BY <1>4, <3>2, StartTyped DEF BuildNext
  <2> QED BY <1>1, <1>4, <2>2, <2>3 DEF BuildNext, files, Typed
<1>5. ASSUME NEW u \in Units, NEW f \in Flags, RunNextBuild(u, f) PROVE Typed'
  <2>1. job' \in Jobs
    BY <1>5, StartTyped DEF RunNextBuild
  <2> QED BY <1>1, <1>5, <2>1 DEF RunNextBuild, files, Typed
<1>6. ASSUME NEW u \in Units, NEW f \in {"m", "s", "e"}, RunBuild(u, f) PROVE Typed'
  <2>1. outer' \in Outers
    BY <1>6, UnitsAssumption DEF RunBuild, Outers
  <2> QED BY <1>1, <1>6, <2>1 DEF RunBuild, files, Typed
<1>7. CASE JobStep
  BY <1>1, <1>7, JobOutcome, JobStepFrame DEF Typed
<1>8. CASE BuildCopy
  <2>1. data' \in [Units -> Binaries \cup {None}]
    <3>1. \A names : CopyModules(names) => data' \in [Units -> Binaries \cup {None}]
      BY <1>1 DEF CopyModules
    <3>2. outer.flag \in {"m", "s", "e"}
      BY <1>1, <1>8 DEF BuildCopy, Outers
    <3>3. CASE outer.flag = "m"
      BY <1>8, <3>1, <3>3 DEF BuildCopy
    <3>4. CASE outer.flag = "s"
      BY <1>8, <3>1, <3>4 DEF BuildCopy
    <3>5. CASE outer.flag = "e"
      BY <1>1, <1>8, <3>5 DEF BuildCopy
    <3> QED BY <3>2, <3>3, <3>4, <3>5
  <2>2. outer' \in Outers
    BY <1>1, <1>8 DEF BuildCopy, Outers
  <2> QED BY <1>1, <1>8, <2>1, <2>2 DEF BuildCopy, Typed
<1>9. CASE StartEmulator
  <2>1. outer' \in Outers
    BY <1>1, <1>9 DEF StartEmulator, Outers
  <2> QED BY <1>1, <1>9, <2>1 DEF StartEmulator, files, Typed
<1>10. CASE DeleteRelatedFiles
  BY <1>1, <1>10 DEF DeleteRelatedFiles, Typed
<1>11. CASE UNCHANGED vars
  BY <1>11 DEF vars, Typed
<1> QED BY <1>2, <1>3, <1>4, <1>5, <1>6, <1>7, <1>8, <1>9, <1>10, <1>11, NextSplit

LEMMA PhasesStep ==
    ASSUME Typed, Phases, [Next]_vars
    PROVE  Phases'
<1>1. outer \in Outers \cup {None} /\ None \notin Outers
  BY NoneAssumption DEF Typed
<1>2. CASE UNCHANGED <<outer, job>>
  BY <1>2 DEF Phases
<1>3. ASSUME NEW u \in Units, BuildNext(u) PROVE Phases'
  <2>1. outer # None /\ outer \in Outers /\ outer.at = "compile"
    BY <1>1, <1>3 DEF BuildNext
  <2>2. /\ outer'.flag = outer.flag /\ outer'.at = "compile"
        /\ outer'.todo = outer.todo \ {u}
    BY <1>3, <2>1 DEF BuildNext, Outers
  <2> QED BY <2>1, <2>2 DEF Phases
<1>4. ASSUME NEW u \in Units, NEW f \in {"m", "s", "e"}, RunBuild(u, f)
      PROVE  Phases'
  BY <1>4 DEF RunBuild, Phases
<1>5. CASE BuildCopy \/ StartEmulator
  <2>1. outer # None /\ outer \in Outers
    BY <1>1, <1>5 DEF BuildCopy, StartEmulator
  <2>2. outer'.flag = outer.flag /\ outer'.todo = outer.todo
    BY <1>5, <2>1 DEF BuildCopy, StartEmulator, Outers
  <2>3. job' = None
    BY <1>5, <2>1 DEF BuildCopy, StartEmulator, Phases
  <2> QED BY <2>1, <2>2, <2>3 DEF Phases
<1>6. CASE DeleteRelatedFiles
  BY <1>6 DEF DeleteRelatedFiles, Phases
<1>7. ASSUME NEW u \in Units, NEW f \in Flags, RunNextBuild(u, f) PROVE Phases'
  BY <1>7 DEF RunNextBuild, Idle, Phases
<1>8. ASSUME NEW u \in Units, Edit(u) PROVE Phases'
  BY <1>2, <1>8 DEF Edit
<1>9. ASSUME NEW u \in Units, NEW lines, RunNexCreator(u, lines) PROVE Phases'
  BY <1>2, <1>9 DEF RunNexCreator
<1>10. CASE JobStep
  BY <1>10, JobStepFrame DEF Phases
<1>11. CASE UNCHANGED vars
  BY <1>2, <1>11 DEF vars
<1> QED BY <1>3, <1>4, <1>5, <1>6, <1>7, <1>8, <1>9, <1>10, <1>11, NextSplit

\* A process is told from none.
LEMMA JobsAreNotNone == None \notin Jobs /\ None \notin Outers /\ None \notin Binaries
  BY NoneAssumption

\* The shapes together with the one fact they rest on.
TypedInv == Typed /\ Phases

LEMMA TypedInit ==
    ASSUME Init
    PROVE  TypedInv
<1>1. PICK p \in [Units -> UNION {Programs[u] : u \in Units}] :
        /\ \A u \in Units : p[u] \in Programs[u]
        /\ src = [u \in Units |-> [prog |-> p[u], ver |-> 1]]
  BY DEF Init
<1>2. \A u \in Units : p[u] \in Program
  BY <1>1, ProgramsAssumption
<1>3. 1 \in 1..MaxVersion
  BY VersionAssumption
<1>4. src \in [Units -> [prog : Program, ver : 1..MaxVersion]]
  BY <1>1, <1>2, <1>3
<1> QED BY <1>4 DEF Init, TypedInv, Typed, Phases

LEMMA TypedAlways == Spec => []TypedInv
<1>1. TypedInv /\ [Next]_vars => TypedInv'
  BY TypedStep, PhasesStep DEF TypedInv
<1> QED BY <1>1, TypedInit, PTL DEF Spec

-----------------------------------------------------------------------------
(* A nextbuild.py -m has what it delivers; the exit status 0 comes last.   *)

FreshBinary == bin[job.unit] # None /\ bin[job.unit].ver = src[job.input].ver

\* What is there by the steps of nextbuild.py -m: the binary of this source once
\* it is compiled, the file in data/ once it is copied.  A build for NextZXOS
\* goes on without a binary and never reports success.
Delivery ==
    (job # None /\ job.flag = "m") =>
      /\ job.set.isModule
      /\ (job.at = "cfg" /\ ~job.set.nextzxos) => FreshBinary
      /\ ((job.at = "nex" /\ ~job.set.nextzxos) \/ job.at \in {"copy", "run"})
           => ModuleDelivered

LEMMA DeliveryStep ==
    ASSUME TypedInv, Typed', Delivery, [Next]_vars
    PROVE  Delivery'
<1>0. Typed /\ Phases
  BY DEF TypedInv
<1>1. job \in Jobs \cup {None} /\ job' \in Jobs \cup {None}
  BY <1>0 DEF Typed
<1>2. CASE job' = None
  BY <1>2 DEF Delivery
<1>3. CASE UNCHANGED <<job, bin, data, src>>
  BY <1>3 DEF Delivery, FreshBinary, ModuleDelivered
<1>4. ASSUME NEW u \in Units, NEW f \in Flags, job' = Start(u, f) PROVE Delivery'
  <2>1. job'.flag = f /\ job'.at = "parse" /\ job'.set = Defaults(f)
    BY <1>4 DEF Start
  <2>2. f = "m" => Defaults(f).isModule
    BY DEF Defaults
  <2> QED BY <2>1, <2>2 DEF Delivery
<1>5. ASSUME NEW u \in Units, BuildNext(u) PROVE Delivery'
  <2>1. outer \in Outers /\ job' = Start(u, outer.flag)
    BY <1>0, <1>5 DEF BuildNext, Typed
  <2>2. job'.flag = outer.flag /\ job'.at = "parse" /\ job'.set = Defaults(outer.flag)
    BY <2>1 DEF Start
  <2>3. outer.flag = "m" => Defaults(outer.flag).isModule
    BY DEF Defaults
  <2> QED BY <2>2, <2>3 DEF Delivery
<1>6. ASSUME NEW u \in Units, NEW f \in Flags, RunNextBuild(u, f) PROVE Delivery'
  BY <1>4, <1>6 DEF RunNextBuild
<1>7. ASSUME job = None, UNCHANGED job PROVE Delivery'
  BY <1>7 DEF Delivery
<1>8. CASE JobStep
  <2>1. job # None /\ job \in Jobs /\ UNCHANGED src
    BY <1>1, <1>8, JobStepFrame
  <2>2. job.unit \in Units /\ job.input \in Units /\ job.set \in Settings
    BY <2>1 DEF Jobs
  <2> SUFFICES ASSUME job' # None, job'.flag = "m" PROVE Delivery'
    BY DEF Delivery
  <2>3. CASE Origin
    <3>1. PICK s \in Settings, v \in Units : /\ job' = [job EXCEPT !.set = s, !.input = v]
                                             /\ job.set.isModule => s.isModule
      BY <1>0, <2>3, OriginTyped
    <3>2. /\ job'.set = s /\ job'.flag = job.flag /\ job'.at = job.at
      BY <2>1, <3>1 DEF Jobs
    <3>3. job.at = "parse"
      BY <2>3 DEF Origin, At
    <3> QED BY <2>1, <3>1, <3>2, <3>3 DEF Delivery
  <2>4. CASE ParseDirectives
    <3>1. PICK s \in Settings, step \in {"run", "compile"} :
            /\ job' = [job EXCEPT !.set = s, !.at = step]
            /\ step = "run" <=> job.flag = "l"
            /\ job.flag = "m" /\ job.set.isModule => s.isModule
      BY <1>0, <2>4, ParseTyped
    <3>2. job'.set = s /\ job'.flag = job.flag /\ job'.at = step
      BY <2>1, <3>1 DEF Jobs
    <3> QED BY <2>1, <3>1, <3>2 DEF Delivery
  <2>5. CASE CompileFails
    BY <2>5 DEF CompileFails, Ended
  <2>6. CASE Compile
    <3>1. job' # None => \E step \in {"cfg", "launch"} : job' = [job EXCEPT !.at = step]
      BY <2>6 DEF Compile, Ended, Go
    <3>2. PICK step \in {"cfg", "launch"} : job' = [job EXCEPT !.at = step]
      BY <3>1
    <3>3. /\ job'.set = job.set /\ job'.flag = job.flag /\ job'.at = step
          /\ job'.unit = job.unit /\ job'.input = job.input
      BY <2>1, <3>2 DEF Jobs
    <3>4. (step = "cfg" /\ ~job.set.nextzxos) => FreshBinary'
      <4>1. SUFFICES ASSUME step = "cfg", ~job.set.nextzxos PROVE FreshBinary'
        OBVIOUS
      <4>2. ~job.set.asm
        BY <2>6, <3>3, <4>1 DEF Compile, Ended
      <4>3. bin' = [bin EXCEPT ![job.unit] = Compiled]
        BY <2>6, <3>3, <4>2 DEF Compile, OtherOutput
      <4>4. bin'[job.unit] = Compiled
        BY <1>0, <2>2, <4>3 DEF Typed
      <4>5. Compiled # None /\ Compiled.ver = src[job.input].ver
        BY <1>0, <2>1, CompiledTyped, JobsAreNotNone DEF Compiled
      <4> QED BY <2>1, <3>3, <4>4, <4>5 DEF FreshBinary
    <3> QED BY <2>1, <3>3, <3>4 DEF Delivery
  <2>7. CASE ParseNEXCfgModule
    <3>1. job.at = "cfg" /\ job' = [job EXCEPT !.at = "nex"]
      BY <2>7 DEF ParseNEXCfgModule, At, Go
    <3>2. /\ job'.set = job.set /\ job'.flag = job.flag /\ job'.at = "nex"
          /\ job'.unit = job.unit /\ job'.input = job.input
      BY <2>1, <3>1 DEF Jobs
    <3>3. bin[job.unit] # None => data'[job.unit] = bin[job.unit]
      BY <1>0, <2>2, <2>7 DEF ParseNEXCfgModule, Typed
    <3> QED BY <2>1, <3>1, <3>2, <3>3 DEF Delivery, FreshBinary, ModuleDelivered
  <2>8. CASE ParseNEXCfgMissing
    BY <2>8 DEF ParseNEXCfgMissing, Ended
  <2>9. CASE ParseNEXCfg
    <3>1. job.at = "cfg" /\ job' = [job EXCEPT !.at = "nex"] /\ ~job.set.isModule
      BY <2>9 DEF ParseNEXCfg, At, Go
    <3>2. job'.flag = job.flag
      BY <2>1, <3>1 DEF Jobs
    <3> QED BY <2>1, <3>1, <3>2 DEF Delivery
  <2>10. CASE CreateNEXFails \/ CopyToDestinationFails
    BY <2>10 DEF CreateNEXFails, CopyToDestinationFails, Ended
  <2>11. CASE SkipNEXFile \/ CreateNEXFile
    <3>1. /\ job.at = "nex" /\ UNCHANGED data
          /\ \/ job' = [job EXCEPT !.at = AfterNex]
             \/ job' = [job EXCEPT !.at = AfterNex, !.wrote = TRUE]
      BY <2>11 DEF SkipNEXFile, CreateNEXFile, At, Go, files
    <3>2. /\ job'.set = job.set /\ job'.flag = job.flag /\ job'.at = AfterNex
          /\ job'.unit = job.unit /\ job'.input = job.input
      BY <2>1, <3>1 DEF Jobs
    <3>3. AfterNex = IF job.set.nextzxos THEN "launch" ELSE "copy"
      BY DEF AfterNex
    <3> QED BY <2>1, <3>1, <3>2, <3>3 DEF Delivery, ModuleDelivered
  <2>12. CASE CopyToDestination
    <3>1. job.at = "copy" /\ UNCHANGED data /\ job' = [job EXCEPT !.at = "run"]
      BY <2>12 DEF CopyToDestination, At, Go
    <3>2. /\ job'.set = job.set /\ job'.flag = job.flag /\ job'.at = "run"
          /\ job'.unit = job.unit /\ job'.input = job.input
      BY <2>1, <3>1 DEF Jobs
    <3> QED BY <2>1, <3>1, <3>2 DEF Delivery, ModuleDelivered
  <2>13. CASE AnythingToRun \/ Launch
    BY <2>13 DEF AnythingToRun, Launch, Ended
  <2> QED BY <1>8, <2>3, <2>4, <2>5, <2>6, <2>7, <2>8, <2>9, <2>10, <2>11, <2>12, <2>13
          DEF JobStep
<1>9. ASSUME NEW u \in Units, Edit(u) PROVE Delivery'
  BY <1>7, <1>9 DEF Edit, Idle
<1>10. ASSUME NEW u \in Units, NEW lines, RunNexCreator(u, lines) PROVE Delivery'
  BY <1>7, <1>10 DEF RunNexCreator, Idle
<1>11. ASSUME NEW u \in Units, NEW f \in {"m", "s", "e"}, RunBuild(u, f) PROVE Delivery'
  BY <1>7, <1>11 DEF RunBuild, Idle
<1>12. CASE BuildCopy
  BY <1>7, <1>12 DEF BuildCopy
<1>13. CASE StartEmulator
  BY <1>3, <1>13 DEF StartEmulator, files
<1>14. CASE UNCHANGED vars
  BY <1>3, <1>14 DEF vars
<1>15. CASE DeleteRelatedFiles
  BY <1>0, <1>7, <1>15 DEF DeleteRelatedFiles, Phases
<1> QED BY <1>5, <1>6, <1>8, <1>9, <1>10, <1>11, <1>12, <1>13, <1>14, <1>15, NextSplit

\* A clean exit that is not of a tape comes from the last step, after the copy.
LEMMA CleanExitStep ==
    ASSUME TypedInv, [Next]_vars, CleanExit, job.flag # "t"
    PROVE  AnythingToRun /\ job.at = "run"
<1>1. job # None /\ job' = None /\ done' = 0
  BY DEF CleanExit
<1>2. job \in Jobs /\ Typed
  BY <1>1 DEF TypedInv, Typed
<1>3. JobStep
  <2>1. ~Idle /\ job' # job
    BY <1>1 DEF Idle
  <2>2. ASSUME NEW u \in Units PROVE ~Edit(u) /\ ~BuildNext(u)
    BY <1>1, <2>1 DEF Edit, BuildNext
  <2>3. ASSUME NEW u \in Units, NEW lines PROVE ~RunNexCreator(u, lines)
    BY <2>1 DEF RunNexCreator
  <2>4. ASSUME NEW u \in Units, NEW f PROVE ~RunNextBuild(u, f) /\ ~RunBuild(u, f)
    BY <2>1 DEF RunNextBuild, RunBuild
  <2>5. ~BuildCopy /\ ~StartEmulator /\ ~DeleteRelatedFiles /\ ~UNCHANGED vars
    BY <2>1 DEF BuildCopy, StartEmulator, DeleteRelatedFiles, vars
  <2> QED BY <2>2, <2>3, <2>4, <2>5, NextSplit
<1>4. AnythingToRun \/ job' \in Jobs \/ done' # 0
  <2>1. CASE Origin
    <3>1. PICK s \in Settings, v \in Units : job' = [job EXCEPT !.set = s, !.input = v]
      BY <1>2, <2>1, OriginTyped
    <3> QED BY <1>2, <3>1, JobSteps
  <2>2. CASE ParseDirectives
    <3>1. PICK s \in Settings, step \in {"run", "compile"} :
            job' = [job EXCEPT !.set = s, !.at = step]
      BY <1>2, <2>2, ParseTyped
    <3>2. step \in Steps
      BY DEF Steps
    <3> QED BY <1>2, <3>1, <3>2, JobSteps
  <2>3. CASE CompileFails \/ ParseNEXCfgMissing \/ CreateNEXFails \/ CopyToDestinationFails
             \/ Launch
    BY <2>3 DEF CompileFails, ParseNEXCfgMissing, CreateNEXFails, CopyToDestinationFails,
                Launch, Ended
  <2>4. CASE Compile
    <3>1. done' = 1 \/ job' = [job EXCEPT !.at = "cfg"] \/ job' = [job EXCEPT !.at = "launch"]
      BY <2>4 DEF Compile, Ended, Go
    <3>2. [job EXCEPT !.at = "cfg"] \in Jobs /\ [job EXCEPT !.at = "launch"] \in Jobs
      BY <1>2, JobSteps DEF Steps
    <3> QED BY <3>1, <3>2
  <2>5. CASE ParseNEXCfgModule \/ ParseNEXCfg \/ CopyToDestination
    BY <1>2, <2>5, JobSteps DEF ParseNEXCfgModule, ParseNEXCfg, CopyToDestination, Go, Steps
  <2>6. CASE SkipNEXFile \/ CreateNEXFile
    BY <1>2, <2>6, JobSteps DEF SkipNEXFile, CreateNEXFile, AfterNex, Go, Steps
  <2> QED BY <1>3, <2>1, <2>2, <2>3, <2>4, <2>5, <2>6 DEF JobStep
<1> QED BY <1>1, <1>4, JobsAreNotNone DEF AnythingToRun, At

LEMMA DeliveryInit == Init => Delivery
  BY DEF Init, Delivery

-----------------------------------------------------------------------------
(* build.py -m brings every module it can to data/.                        *)

Built(u) == bin[u] # None /\ bin[u].ver = src[u].ver

\* The nextbuild.py of a module that is still to write its binary.
Working(u) == /\ job # None /\ job.at \in {"parse", "compile"}
              /\ job.unit = u /\ job.input = u /\ ~job.set.asm

\* While build.py -m runs, a module it has started is built or worked on, and
\* once it has copied, the module is in data/.  The sources do not change, and
\* a later nextbuild.py leaves the binary of another unit alone.
Round ==
    (outer # None /\ outer.flag = "m") =>
      /\ outer.at \in {"compile", "delete"}
      /\ job # None => /\ job.flag = "m"
                       /\ Buildable(job.unit) => job.input = job.unit
      /\ \A u \in Modules : Buildable(u) =>
           /\ (outer.at = "compile" /\ u \notin outer.todo) => Working(u) \/ Built(u)
           /\ outer.at = "delete" => InData(u)

\* What a unit is due depends on its source alone.
LEMMA SourceFrame ==
    ASSUME UNCHANGED src
    PROVE  \A u : Buildable(u)' <=> Buildable(u)
  BY DEF Buildable, Heading

\* A source that redirects cannot be built under its own name.
LEMMA RedirectNotBuildable ==
    ASSUME NEW u, Redirects(u) # {}
    PROVE  ~Buildable(u)
  BY DEF Redirects, Buildable

\* A step of nextbuild.py within build.py -m.
LEMMA RoundJobStep ==
    ASSUME TypedInv, Round, JobStep, outer # None, outer.flag = "m"
    PROVE  Round'
<1>1. job # None /\ job \in Jobs /\ UNCHANGED <<src, outer>> /\ Typed
  BY JobStepFrame DEF TypedInv, Typed
<1>2. job.unit \in Units /\ job.input \in Units /\ job.set \in Settings
  BY <1>1 DEF Jobs
<1>3. outer.at = "compile" /\ job.flag = "m"
        /\ (Buildable(job.unit) => job.input = job.unit)
  BY <1>1 DEF Round, TypedInv, Phases
<1>4. \A u : Buildable(u)' <=> Buildable(u)
  BY <1>1, SourceFrame
<1>5. /\ job' # None => /\ job'.flag = "m"
                        /\ Buildable(job'.unit) => job'.input = job'.unit
      /\ \A u \in Modules : Buildable(u) /\ (Working(u) \/ Built(u)) =>
                              (Working(u) \/ Built(u))'
  <2>1. CASE Origin
    <3>1. PICK s \in Settings, v \in Units : job' = [job EXCEPT !.set = s, !.input = v]
      BY <1>1, <2>1, OriginTyped
    <3>2. job'.unit = job.unit /\ job'.flag = "m" /\ UNCHANGED bin
      BY <1>1, <1>3, <2>1, <3>1 DEF Jobs, Origin, files
    <3>3. ~Buildable(job.unit)
      BY <1>3, <2>1, RedirectNotBuildable DEF Origin
    <3> QED BY <1>1, <3>2, <3>3 DEF Working, Built
  <2>2. CASE ParseDirectives
    <3>1. PICK s \in Settings, step \in {"run", "compile"} :
            /\ job' = [job EXCEPT !.set = s, !.at = step]
            /\ step = "run" <=> job.flag = "l"
            /\ (\A k \in DOMAIN Heading(job.input) : Heading(job.input)[k].op # "asm")
                  => s.asm = job.set.asm
      BY <1>1, <2>2, ParseTyped
    <3>2. /\ job'.unit = job.unit /\ job'.input = job.input /\ job'.flag = "m"
          /\ job'.at = "compile" /\ job'.set = s /\ job' # None /\ UNCHANGED bin
      <4>1. step = "compile" /\ UNCHANGED bin
        BY <1>3, <2>2, <3>1 DEF ParseDirectives, files
      <4>2. [job EXCEPT !.set = s, !.at = step] \in Jobs
        BY <1>1, <4>1, JobSteps DEF Steps
      <4>3. /\ job'.unit = job.unit /\ job'.input = job.input /\ job'.flag = job.flag
            /\ job'.at = step /\ job'.set = s
        BY <1>1, <3>1 DEF Jobs
      <4> QED BY <1>3, <3>1, <4>1, <4>2, <4>3, JobsAreNotNone
    <3>3. Buildable(job.input) => s.asm = job.set.asm
      BY <3>1 DEF Buildable
    <3> QED BY <1>1, <1>3, <3>2, <3>3 DEF Working, Built
  <2>3. CASE CompileFails
    <3>1. job' = None /\ UNCHANGED bin /\ ~Buildable(job.input)
      BY <2>3 DEF CompileFails, Ended, files, Buildable
    <3> QED BY <1>1, <3>1 DEF Working, Built
  <2>4. CASE Compile
    <3>1. job' # None => /\ job'.flag = "m" /\ job'.unit = job.unit
                         /\ job'.input = job.input
      BY <1>1, <1>3, <2>4 DEF Compile, Ended, Go, Jobs
    <3>2. bin' = IF job.set.asm THEN bin ELSE [bin EXCEPT ![job.unit] = Compiled]
      BY <1>3, <2>4 DEF Compile, OtherOutput
    <3>3. \A u \in Units : Buildable(u) /\ u = job.unit /\ ~job.set.asm =>
                             bin'[u] # None /\ bin'[u].ver = src[u].ver
      <4>1. Compiled # None /\ Compiled.ver = src[job.input].ver
        BY <1>1, CompiledTyped, JobsAreNotNone DEF Compiled
      <4> QED BY <1>1, <1>2, <1>3, <3>2, <4>1 DEF Typed
    <3>4. \A u \in Units : u # job.unit \/ job.set.asm => bin'[u] = bin[u]
      BY <1>1, <1>2, <3>2 DEF Typed
    <3>5. \A u \in Modules : Buildable(u) /\ (Working(u) \/ Built(u)) => Built(u)'
      BY <1>1, <3>3, <3>4, UnitsAssumption DEF Working, Built
    <3> QED BY <1>3, <3>1, <3>5
  <2>5. ASSUME job.at \notin {"parse", "compile"}, UNCHANGED bin,
               job' # None => \/ \E step : job' = [job EXCEPT !.at = step]
                              \/ \E step : job' = [job EXCEPT !.at = step, !.wrote = TRUE]
        PROVE  /\ job' # None => /\ job'.flag = "m"
                                 /\ Buildable(job'.unit) => job'.input = job'.unit
               /\ \A u \in Modules : Buildable(u) /\ (Working(u) \/ Built(u)) =>
                                       (Working(u) \/ Built(u))'
    <3>1. job' # None => /\ job'.flag = "m" /\ job'.unit = job.unit
                         /\ job'.input = job.input
      BY <1>1, <1>3, <2>5 DEF Jobs
    <3> QED BY <1>1, <1>3, <2>5, <3>1 DEF Working, Built
  <2>6. CASE ParseNEXCfgModule \/ ParseNEXCfgMissing \/ ParseNEXCfg
    BY <2>5, <2>6 DEF ParseNEXCfgModule, ParseNEXCfgMissing, ParseNEXCfg, At, Ended, Go
  <2>7. CASE SkipNEXFile \/ CreateNEXFails \/ CreateNEXFile
    BY <2>5, <2>7 DEF SkipNEXFile, CreateNEXFails, CreateNEXFile, At, Ended, Go, files
  <2>8. CASE CopyToDestination \/ CopyToDestinationFails
    BY <2>5, <2>8 DEF CopyToDestination, CopyToDestinationFails, At, Ended, Go
  <2>9. CASE AnythingToRun \/ Launch
    BY <2>5, <2>9 DEF AnythingToRun, Launch, At, Ended, Go, files
  <2> QED BY <2>1, <2>2, <2>3, <2>4, <2>6, <2>7, <2>8, <2>9 DEF JobStep
<1> QED BY <1>1, <1>3, <1>4, <1>5 DEF Round

LEMMA RoundStep ==
    ASSUME TypedInv, Round, [Next]_vars
    PROVE  Round'
<1>1. /\ outer \in Outers \cup {None} /\ Typed /\ Phases
      /\ None \notin Jobs /\ None \notin Outers
  BY JobsAreNotNone DEF TypedInv, Typed
<1>2. CASE outer' = None
  BY <1>2 DEF Round
<1>3. CASE UNCHANGED <<src, bin, data, job, outer>>
  BY <1>3, SourceFrame DEF Round, Working, Built, InData
<1>4. CASE JobStep
  <2>1. CASE outer # None /\ outer.flag = "m"
    BY <1>4, <2>1, RoundJobStep
  <2>2. CASE outer = None \/ outer.flag # "m"
    BY <1>4, <2>2, JobStepFrame DEF Round
  <2> QED BY <2>1, <2>2
<1>5. ASSUME NEW u \in Units, Edit(u) PROVE Round'
  BY <1>2, <1>5 DEF Edit, Idle
<1>6. ASSUME NEW u \in Units, NEW lines, RunNexCreator(u, lines) PROVE Round'
  BY <1>3, <1>6 DEF RunNexCreator
<1>7. ASSUME NEW u \in Units, NEW f \in Flags, RunNextBuild(u, f) PROVE Round'
  BY <1>2, <1>7 DEF RunNextBuild, Idle
<1>8. ASSUME NEW u \in Units, NEW f \in {"m", "s", "e"}, RunBuild(u, f) PROVE Round'
  <2>1. /\ outer'.flag = f /\ outer'.at = "compile" /\ job' = None
        /\ f = "m" => outer'.todo = Modules
    BY <1>8 DEF RunBuild, Idle
  <2> QED BY <2>1 DEF Round
<1>9. ASSUME NEW v \in Units, BuildNext(v) PROVE Round'
  <2>1. /\ outer # None /\ outer \in Outers /\ job = None /\ outer.at = "compile"
        /\ UNCHANGED <<src, bin, data>> /\ job' = Start(v, outer.flag)
    BY <1>1, <1>9 DEF BuildNext, files
  <2>2. outer'.flag = outer.flag /\ outer'.at = "compile" /\ outer'.todo = outer.todo \ {v}
    BY <1>9, <2>1 DEF BuildNext, Outers
  <2>3. SUFFICES ASSUME outer.flag = "m" PROVE Round'
    BY <2>2 DEF Round
  <2>4. /\ job'.unit = v /\ job'.input = v /\ job'.flag = "m" /\ job'.at = "parse"
        /\ job'.set = Defaults("m") /\ job' # None
    <3>1. Start(v, "m") \in Jobs
      BY StartTyped DEF Flags
    <3> QED BY <1>1, <2>1, <2>3, <3>1 DEF Start
  <2>5. Working(v)'
    BY <2>4 DEF Working, Defaults
  <2>6. \A u \in Modules : Buildable(u) /\ u \notin outer.todo => Built(u)'
    BY <2>1, <2>3 DEF Round, Working, Built
  <2> QED BY <2>1, <2>2, <2>4, <2>5, <2>6, SourceFrame DEF Round
<1>10. CASE BuildCopy
  <2>1. /\ outer # None /\ outer \in Outers /\ job = None /\ outer.at = "compile"
        /\ outer.todo = {} /\ UNCHANGED <<src, bin, job>>
    BY <1>1, <1>10 DEF BuildCopy
  <2>2. outer'.flag = outer.flag
    BY <1>10, <2>1 DEF BuildCopy, Outers
  <2>3. SUFFICES ASSUME outer.flag = "m" PROVE Round'
    BY <2>2 DEF Round
  <2>4. outer'.at = "delete" /\ CopyModules(Modules)
    BY <1>10, <2>1, <2>3 DEF BuildCopy, Outers
  <2>5. \A u \in Modules : Buildable(u) => Built(u)
    BY <2>1, <2>3 DEF Round, Working
  <2>6. \A u \in Modules : Buildable(u) => InData(u)'
    BY <2>1, <2>4, <2>5, UnitsAssumption DEF CopyModules, Built, InData
  <2> QED BY <2>1, <2>2, <2>4, <2>6, SourceFrame DEF Round
<1>11. CASE StartEmulator
  <2>1. /\ outer # None /\ outer \in Outers /\ outer.at = "emulate"
        /\ outer' = [outer EXCEPT !.at = "delete"]
    BY <1>1, <1>11 DEF StartEmulator
  <2>2. outer'.flag = outer.flag /\ outer.flag # "m"
    BY <2>1 DEF Round, Outers
  <2> QED BY <2>2 DEF Round
<1>12. CASE DeleteRelatedFiles
  BY <1>2, <1>12 DEF DeleteRelatedFiles
<1>13. CASE UNCHANGED vars
  BY <1>3, <1>13 DEF vars
<1> QED BY <1>4, <1>5, <1>6, <1>7, <1>8, <1>9, <1>10, <1>11, <1>12, <1>13, NextSplit

\* build.py -m leaves every module that can be built in data/, compiled from its
\* source as it is: it waits for each nextbuild.py, no other build comes between,
\* and what one module's build does or fails to do leaves the others' binaries.
THEOREM ModulesDelivered == Spec => ModulesUpToDate
<1>1. Init => Round
  BY DEF Init, Round
<1>2. TypedInv /\ Round /\ [Next]_vars => Round'
  BY RoundStep
<1>3. ASSUME TypedInv, Round, [Next]_vars, outer # None, outer' = None, outer.flag = "m"
      PROVE  \A u \in Modules : Buildable(u) => InData(u)
  <2>1. outer \in Outers /\ None \notin Outers
    BY <1>3, JobsAreNotNone DEF TypedInv, Typed
  <2>2. outer.at = "delete"
    <3>1. ASSUME NEW u \in Units, BuildNext(u) PROVE FALSE
      <4>1. outer' = [outer EXCEPT !.todo = @ \ {u}]
        BY <3>1 DEF BuildNext
      <4>2. outer' \in Outers
        BY <2>1, <4>1 DEF Outers
      <4> QED BY <1>3, <2>1, <4>2
    <3>2. ASSUME NEW u \in Units PROVE ~Edit(u)
      BY <1>3 DEF Edit, Idle
    <3>3. ASSUME NEW u \in Units, NEW lines PROVE ~RunNexCreator(u, lines)
      BY <1>3 DEF RunNexCreator, Idle
    <3>4. ASSUME NEW u \in Units, NEW f PROVE ~RunNextBuild(u, f) /\ ~RunBuild(u, f)
      BY <1>3 DEF RunNextBuild, RunBuild, Idle
    <3>5. ~JobStep /\ ~UNCHANGED vars
      BY <1>3, JobStepFrame DEF vars
    <3>6. CASE BuildCopy
      <4>1. outer' = [outer EXCEPT !.at = "delete"]
        BY <1>3, <3>6 DEF BuildCopy
      <4>2. outer' \in Outers
        BY <2>1, <4>1 DEF Outers
      <4> QED BY <1>3, <2>1, <4>2
    <3>7. CASE StartEmulator
      BY <1>3, <3>7 DEF StartEmulator, Round
    <3>8. CASE DeleteRelatedFiles
      BY <3>8 DEF DeleteRelatedFiles
    <3> QED BY <1>3, <3>1, <3>2, <3>3, <3>4, <3>5, <3>6, <3>7, <3>8, NextSplit
  <2> QED BY <1>3, <2>2 DEF Round
<1> QED BY <1>1, <1>2, <1>3, TypedAlways, PTL DEF Spec, ModulesUpToDate

-----------------------------------------------------------------------------
(* Loops over a sequence.  The loops of the model are folds; FoldStep is   *)
(* the body of each, g[s] the result of the steps in s, and h[k] that of   *)
(* the first k.                                                            *)

FoldStep(kind, env, acc, x) ==
    CASE kind = "cell" -> PutCell(acc, x)
      [] kind = "line" -> ParseLine(acc, x, env)
      [] kind = "trim" -> IF x.from > 0 THEN Store(acc, Trimmed(x.file), Cut(x)) ELSE acc
      [] kind = "load" -> Over(LoadSDBank(x), acc)

Folding(g, kind, env, base, seq) ==
    g = [s \in SUBSET DOMAIN seq |->
           IF s = {} THEN base ELSE FoldStep(kind, env, g[s \ {Max(s)}], seq[Max(s)])]

\* h is what a loop has made of its base after each step.
Run(h, kind, env, base, seq) ==
    /\ h[0] = base
    /\ \A k \in 1..Len(seq) : h[k] = FoldStep(kind, env, h[k - 1], seq[k])

\* The greatest number of a finite set.
LEMMA MaxIn ==
    ASSUME NEW n \in Nat, NEW s \in SUBSET (1..n), s # {}
    PROVE  Max(s) \in s /\ \A y \in s : Max(s) >= y
<1> DEFINE K == {k \in Nat : \E x \in s : x + k = n}
<1>1. \A x \in s : x \in Nat /\ x >= 1 /\ x <= n
  OBVIOUS
<1>2. K # {}
  <2>1. PICK x \in s : TRUE
    OBVIOUS
  <2>2. x \in Nat /\ n - x \in Nat /\ x + (n - x) = n
    BY <1>1
  <2> QED BY <2>2
<1>3. PICK k \in K : \A j \in K : k <= j
  <2> HIDE DEF K
  <2>1. K \in SUBSET Nat
    BY DEF K
  <2> QED BY <1>2, <2>1, LeastMember
<1>4. PICK x \in s : x + k = n
  BY <1>3
<1>5. ASSUME NEW y \in s PROVE x >= y
  <2>1. y \in Nat /\ x \in Nat /\ n - y \in Nat /\ y + (n - y) = n
    BY <1>1
  <2>2. n - y \in K
    BY <2>1
  <2>3. k <= n - y /\ k \in Nat
    BY <1>3, <2>2
  <2> QED BY <1>4, <2>1, <2>3
<1>6. \E m \in s : \A y \in s : m >= y
  BY <1>5
<1> QED BY <1>6 DEF Max

LEMMA MaxUpto == ASSUME NEW k \in Nat, k # 0 PROVE Max(1..k) = k /\ (1..k) \ {Max(1..k)} = 1..(k - 1)
<1>1. k \in 1..k /\ 1..k # {} /\ 1..k \in SUBSET (1..k)
  OBVIOUS
<1>2. Max(1..k) \in 1..k /\ \A y \in 1..k : Max(1..k) >= y
  <2> DEFINE s == 1..k
  <2>1. s \in SUBSET (1..k) /\ s # {}
    BY <1>1
  <2> HIDE DEF s
  <2>2. Max(s) \in s /\ \A y \in s : Max(s) >= y
    BY <2>1, MaxIn
  <2> QED BY <2>2 DEF s
<1>3. Max(1..k) = k
  BY <1>1, <1>2
<1>4. (1..k) \ {k} = 1..(k - 1)
  OBVIOUS
<1> QED BY <1>3, <1>4

\* Every loop over a finite sequence has a result.
LEMMA FoldingDefined ==
    ASSUME NEW kind, NEW env, NEW base, NEW seq, NEW n \in Nat, DOMAIN seq = 1..n
    PROVE  \E g : Folding(g, kind, env, base, seq)
<1> DEFINE S == DOMAIN seq
           Next1(h, s) == FoldStep(kind, env, h[s \ {Max(s)}], seq[Max(s)])
           Right(h, s) == h[s] = IF s = {} THEN base ELSE Next1(h, s)
           Upto(h, k) == \A s \in SUBSET S : Cardinality(s) <= k => Right(h, s)
           K == {k \in Nat : \E h : Upto(h, k)}
<1>0. IsFiniteSet(S)
  BY FS_Interval
<1>1. \A s \in SUBSET S : IsFiniteSet(s) /\ Cardinality(s) \in Nat
                          /\ Cardinality(s) <= Cardinality(S)
  BY <1>0, FS_Subset, FS_CardinalityType
<1>2. 0 \in K
  <2> DEFINE h == [s \in SUBSET S |-> base]
  <2>1. ASSUME NEW s \in SUBSET S, Cardinality(s) <= 0 PROVE Right(h, s)
    <3>1. s = {}
      BY <1>1, <2>1, FS_EmptySet
    <3> QED BY <3>1
  <2>2. Upto(h, 0)
    BY <2>1
  <2> HIDE DEF Upto, h
  <2> QED BY <2>2
<1>3. ASSUME NEW k \in Nat, k \in K PROVE k + 1 \in K
  <2>1. PICK h : Upto(h, k)
    BY <1>3
  <2> DEFINE h2 == [s \in SUBSET S |-> IF Cardinality(s) <= k THEN h[s] ELSE Next1(h, s)]
  <2>2. ASSUME NEW s \in SUBSET S, Cardinality(s) <= k + 1 PROVE Right(h2, s)
    <3>1. CASE s = {}
      <4>1. Cardinality(s) <= k
        BY <3>1, FS_EmptySet
      <4> QED BY <2>1, <3>1, <4>1
    <3>2. CASE s # {}
      <4> DEFINE c == Max(s)
                 t == s \ {c}
      <4>1. c \in s /\ t \in SUBSET S
        BY <3>2, MaxIn
      <4> HIDE DEF c
      <4>2. Cardinality(t) = Cardinality(s) - 1 /\ Cardinality(t) \in Nat
        BY <1>1, <4>1, FS_RemoveElement
      <4>3. Cardinality(t) <= k
        BY <1>1, <2>2, <4>2
      <4> HIDE DEF t
      <4>4. h2[t] = h[t]
        BY <4>1, <4>3
      <4>5. h2[s] = FoldStep(kind, env, h[t], seq[c])
        <5>1. CASE Cardinality(s) <= k
          BY <2>1, <3>2, <5>1 DEF t, c
        <5>2. CASE ~(Cardinality(s) <= k)
          BY <5>2 DEF t, c
        <5> QED BY <5>1, <5>2
      <4> HIDE DEF h2
      <4> QED BY <3>2, <4>4, <4>5 DEF t, c
    <3> QED BY <3>1, <3>2
  <2>3. Upto(h2, k + 1)
    BY <2>2
  <2> HIDE DEF Upto, h2
  <2> QED BY <2>3
<1>4. Nat \subseteq K
  <2> HIDE DEF K
  <2> QED BY <1>2, <1>3, NatSetInduction
<1>5. Cardinality(S) \in K
  BY <1>0, <1>4, FS_CardinalityType
<1>6. PICK h : Upto(h, Cardinality(S))
  BY <1>5
<1> DEFINE g == [s \in SUBSET S |-> h[s]]
<1>7. ASSUME NEW s \in SUBSET S
      PROVE  g[s] = IF s = {} THEN base ELSE FoldStep(kind, env, g[s \ {Max(s)}], seq[Max(s)])
  <2>1. Right(h, s)
    BY <1>1, <1>6
  <2>2. g[s] = h[s] /\ g[s \ {Max(s)}] = h[s \ {Max(s)}]
    OBVIOUS
  <2> HIDE DEF g
  <2> QED BY <2>1, <2>2
<1>8. g = [s \in SUBSET S |-> g[s]]
  OBVIOUS
<1> HIDE DEF g
<1>9. Folding(g, kind, env, base, seq)
  BY <1>7, <1>8, Zenon DEF Folding
<1> QED BY <1>9

\* The result of a loop is what its last step leaves.
LEMMA FoldingRuns ==
    ASSUME NEW kind, NEW env, NEW base, NEW seq, NEW n \in Nat, DOMAIN seq = 1..n, Len(seq) = n,
           NEW g, Folding(g, kind, env, base, seq)
    PROVE  \E h : Run(h, kind, env, base, seq) /\ g[DOMAIN seq] = h[n]
<1> DEFINE h == [k \in 0..n |-> g[1..k]]
<1>1. h[0] = base
  <2>1. 1..0 = {} /\ {} \in SUBSET DOMAIN seq
    OBVIOUS
  <2> QED BY <2>1 DEF Folding
<1>2. ASSUME NEW k \in 1..n PROVE h[k] = FoldStep(kind, env, h[k - 1], seq[k])
  <2>1. Max(1..k) = k /\ (1..k) \ {Max(1..k)} = 1..(k - 1)
    BY MaxUpto
  <2>2. 1..k \in SUBSET DOMAIN seq /\ 1..k # {}
    <3>1. k \in Nat /\ k <= n /\ 1 <= k
      OBVIOUS
    <3>2. \A j \in 1..k : j \in 1..n
      BY <3>1
    <3>3. 1 \in 1..k
      BY <3>1
    <3> QED BY <3>2, <3>3
  <2>3. g[1..k] = FoldStep(kind, env, g[1..(k - 1)], seq[k])
    <3> DEFINE s == 1..k
    <3>1. s \in SUBSET DOMAIN seq /\ s # {} /\ Max(s) = k /\ s \ {Max(s)} = 1..(k - 1)
      BY <2>1, <2>2
    <3> HIDE DEF s
    <3>2. g[s] = FoldStep(kind, env, g[s \ {Max(s)}], seq[Max(s)])
      BY <3>1 DEF Folding
    <3>3. g[s] = FoldStep(kind, env, g[1..(k - 1)], seq[k])
      BY <3>1, <3>2
    <3> QED BY <3>3 DEF s
  <2>4. k \in 0..n /\ k - 1 \in 0..n
    OBVIOUS
  <2>5. \A j \in 0..n : h[j] = g[1..j]
    OBVIOUS
  <2> HIDE DEF h
  <2> QED BY <2>3, <2>4, <2>5
<1>3. g[DOMAIN seq] = h[n]
  OBVIOUS
<1> HIDE DEF h
<1> QED BY <1>1, <1>2, <1>3 DEF Run

-----------------------------------------------------------------------------
(* Places in memory.                                                       *)

LEMMA BankFacts == Bank \in Nat \ {0} /\ Page \in Nat \ {0} /\ Bank = Page + Page
  BY PageAssumption DEF Bank

\* What division and remainder are.
LEMMA Division ==
    ASSUME NEW a \in Nat, NEW b \in Nat \ {0}
    PROVE  /\ a \div b \in Nat /\ a % b \in Nat /\ a % b < b
           /\ a = b * (a \div b) + (a % b)
  OBVIOUS

LEMMA DivisionIs ==
    ASSUME NEW b \in Nat \ {0}, NEW q \in Nat, NEW r \in Nat, r < b
    PROVE  (b * q + r) \div b = q /\ (b * q + r) % b = r
<1> DEFINE a == b * q + r
<1>1. a \in Nat
  OBVIOUS
<1>2. /\ a \div b \in Nat /\ a % b \in Nat /\ a % b < b
      /\ a = b * (a \div b) + (a % b)
  BY <1>1, Division
<1> DEFINE p == a \div b
           m == a % b
<1>3. b * q + r = b * p + m
  BY <1>2
<1>4. p \in Nat /\ m \in Nat /\ m < b
  BY <1>2
<1> HIDE DEF p, m, a
<1>5. b * (q - p) = m - r
  BY <1>3, <1>4
<1>6. q - p = 0
  <2>1. CASE q - p >= 1
    <3>1. b * (q - p) >= b
      BY <1>4, <2>1
    <3> QED BY <1>4, <1>5, <3>1
  <2>2. CASE q - p <= -1
    <3>1. b * (q - p) <= -b
      BY <1>4, <2>2
    <3> QED BY <1>4, <1>5, <3>1
  <2> QED BY <1>4, <2>1, <2>2
<1>7. q = p /\ m = r
  BY <1>4, <1>5, <1>6
<1> QED BY <1>7 DEF p, m, a


\* The remainder of the next number.
LEMMA NextRemainder ==
    ASSUME NEW a \in Nat, NEW b \in Nat \ {0}
    PROVE  /\ a % b \in Nat /\ ((a % b) + 1 < b \/ (a % b) + 1 = b)
           /\ (a % b) + 1 < b => (a + 1) % b = (a % b) + 1
           /\ (a % b) + 1 = b => (a + 1) % b = 0
<1> DEFINE q == a \div b
           r == a % b
<1>1. r \in Nat /\ q \in Nat /\ r < b /\ a = b * q + r
  BY Division
<1> HIDE DEF q, r
<1>2. r + 1 < b \/ r + 1 = b
  BY <1>1
<1>3. ASSUME r + 1 < b PROVE (a + 1) % b = r + 1
  <2>1. a + 1 = b * q + (r + 1) /\ r + 1 \in Nat
    BY <1>1
  <2> DEFINE t == r + 1
  <2>2. t \in Nat /\ t < b
    BY <1>3, <2>1
  <2> HIDE DEF t
  <2>3. (b * q + t) % b = t
    BY <1>1, <2>2, DivisionIs
  <2> QED BY <2>1, <2>3 DEF t
<1>4. ASSUME r + 1 = b PROVE (a + 1) % b = 0
  <2> DEFINE t == q + 1
  <2>1. t \in Nat /\ a + 1 = b * t + 0
    BY <1>1, <1>4
  <2> HIDE DEF t
  <2>2. (b * t + 0) % b = 0
    <3> DEFINE z == 0
    <3>1. z \in Nat /\ z < b
      OBVIOUS
    <3> HIDE DEF z
    <3>2. (b * t + z) % b = z
      BY <2>1, <3>1, DivisionIs
    <3> QED BY <3>2 DEF z
  <2> QED BY <2>1, <2>2
<1> QED BY <1>1, <1>2, <1>3, <1>4 DEF r

LEMMA Multiple ==
    ASSUME NEW t \in Nat, NEW b \in Nat \ {0}
    PROVE  t * b \in Nat /\ (t * b) % b = 0 /\ (t * b) \div b = t
<1> DEFINE z == 0
<1>1. z \in Nat /\ z < b
  OBVIOUS
<1>2. t * b \in Nat /\ t * b = b * t + z
  OBVIOUS
<1> HIDE DEF z
<1>3. (b * t + z) % b = z /\ (b * t + z) \div b = t
  BY <1>1, DivisionIs
<1> QED BY <1>2, <1>3 DEF z

\* The banks follow one another in the image as NextBank says, and the tables of
\* the image and of the loader are inverses.
LEMMA BankTables ==
    /\ \A b \in Nat : RealBank(b) \in Nat /\ NextBank(b) \in Nat /\ BankOrder(b) \in Nat
    /\ \A b \in Nat : RealBank(NextBank(b)) = RealBank(b) + 1
    /\ \A b \in Nat : BankOrder(RealBank(b)) = b /\ RealBank(BankOrder(b)) = b
    /\ \A b \in Nat : b < Banks <=> RealBank(b) < Banks
    /\ \A b \in Nat : b < Banks <=> BankOrder(b) < Banks
<1> USE BanksAssumption
<1>1. ASSUME NEW b \in Nat, b > 7
      PROVE  /\ RealBank(b) = b /\ BankOrder(b) = b /\ NextBank(b) = b + 1
             /\ RealBank(b + 1) = b + 1
  BY <1>1 DEF RealBank, BankOrder, NextBank
<1>2. /\ RealBank(0) = 2 /\ RealBank(1) = 3 /\ RealBank(2) = 1 /\ RealBank(3) = 4
      /\ RealBank(4) = 5 /\ RealBank(5) = 0 /\ RealBank(6) = 6 /\ RealBank(7) = 7
      /\ RealBank(8) = 8
  BY DEF RealBank
<1>3. /\ BankOrder(0) = 5 /\ BankOrder(1) = 2 /\ BankOrder(2) = 0 /\ BankOrder(3) = 1
      /\ BankOrder(4) = 3 /\ BankOrder(5) = 4 /\ BankOrder(6) = 6 /\ BankOrder(7) = 7
  BY DEF BankOrder
<1>4. /\ NextBank(0) = 1 /\ NextBank(1) = 3 /\ NextBank(2) = 0 /\ NextBank(3) = 4
      /\ NextBank(4) = 6 /\ NextBank(5) = 2 /\ NextBank(6) = 7 /\ NextBank(7) = 8
  BY DEF NextBank
<1>5. \A b \in Nat : b > 7 \/ b = 0 \/ b = 1 \/ b = 2 \/ b = 3 \/ b = 4 \/ b = 5 \/ b = 6 \/ b = 7
  OBVIOUS
<1>6. ASSUME NEW b \in Nat
      PROVE  /\ RealBank(b) \in Nat /\ NextBank(b) \in Nat /\ BankOrder(b) \in Nat
             /\ RealBank(NextBank(b)) = RealBank(b) + 1
             /\ BankOrder(RealBank(b)) = b /\ RealBank(BankOrder(b)) = b
             /\ b < Banks <=> RealBank(b) < Banks
             /\ b < Banks <=> BankOrder(b) < Banks
  <2>1. CASE b > 7
    BY <1>1, <2>1
  <2>2. CASE b = 0 \/ b = 1 \/ b = 2 \/ b = 3
    BY <1>2, <1>3, <1>4, <2>2
  <2>3. CASE b = 4 \/ b = 5 \/ b = 6 \/ b = 7
    BY <1>2, <1>3, <1>4, <2>3
  <2> QED BY <1>5, <2>1, <2>2, <2>3
<1> QED BY <1>6

-----------------------------------------------------------------------------
(* The state of nextcreator.py.                                            *)

Images == UNION {[D -> Cells] : D \in SUBSET Nat}
Shots == UNION {[D -> Names] : D \in SUBSET Kinds}
Flagged == SUBSET (0..(Banks - 1))

Creators == [bank : Nat, addr : Nat, big : Images, flags : Flagged, shots : Shots,
             screens : SUBSET Kinds, pc : Nat, sp : Nat \X Int, entry : Nat, broken : BOOLEAN]

\* Where the next cell of a file goes in the image.
Offset(n) == RealBank(n.bank) * Bank + (n.addr % Bank)

\* What cells of files do not change.
SameRest(n, m) == /\ m.shots = n.shots /\ m.screens = n.screens /\ m.pc = n.pc
                  /\ m.sp = n.sp /\ m.entry = n.entry /\ m.broken = n.broken

LEMMA FreshTyped == Fresh \in Creators
<1>1. <<>> \in [{} -> Cells] /\ <<>> \in [{} -> Names]
  OBVIOUS
<1>2. <<>> \in Images
  BY <1>1 DEF Images
<1>3. <<>> \in Shots
  BY <1>1 DEF Shots
<1>4. <<0, 0>> \in Nat \X Int
  OBVIOUS
<1> QED BY <1>2, <1>3, <1>4 DEF Fresh, Creators, Flagged

LEMMA StoreTyped ==
    /\ \A g \in Images : \A o \in Nat : \A c \in Cells : Store(g, o, c) \in Images
    /\ \A g \in Shots : \A k \in Kinds : \A f \in Names : Store(g, k, f) \in Shots
<1>1. ASSUME NEW g \in Images, NEW o \in Nat, NEW c \in Cells PROVE Store(g, o, c) \in Images
  <2>1. PICK D \in SUBSET Nat : g \in [D -> Cells]
    BY DEF Images
  <2>2. Store(g, o, c) \in [(D \cup {o}) -> Cells]
    BY <2>1 DEF Store, Over
  <2>3. D \cup {o} \in SUBSET Nat
    OBVIOUS
  <2> QED BY <2>2, <2>3 DEF Images
<1>2. ASSUME NEW g \in Shots, NEW o \in Kinds, NEW c \in Names PROVE Store(g, o, c) \in Shots
  <2>1. PICK D \in SUBSET Kinds : g \in [D -> Names]
    BY DEF Shots
  <2>2. Store(g, o, c) \in [(D \cup {o}) -> Names]
    BY <2>1 DEF Store, Over
  <2>3. D \cup {o} \in SUBSET Kinds
    OBVIOUS
  <2> QED BY <2>2, <2>3 DEF Shots
<1> QED BY <1>1, <1>2


\* The bank of an offset of the image.
BankAt(o) == BankOrder(o \div Bank)

LEMMA OffsetFacts ==
    ASSUME NEW n \in Creators
    PROVE  Offset(n) \in Nat /\ BankAt(Offset(n)) = n.bank
<1>1. n.bank \in Nat /\ n.addr \in Nat
  BY DEF Creators
<1>2. RealBank(n.bank) \in Nat /\ BankOrder(RealBank(n.bank)) = n.bank
  BY <1>1, BankTables
<1>3. n.addr % Bank \in Nat /\ n.addr % Bank < Bank
  BY <1>1, BankFacts, Division
<1> DEFINE q == RealBank(n.bank)
           r == n.addr % Bank
<1>4. Offset(n) = q * Bank + r
  BY DEF Offset
<1>5. q \in Nat /\ r \in Nat /\ r < Bank /\ BankOrder(q) = n.bank
  BY <1>2, <1>3
<1> HIDE DEF q, r
<1>6. Offset(n) = Bank * q + r
  BY <1>4, <1>5, BankFacts
<1>7. Offset(n) \div Bank = q
  BY <1>5, <1>6, BankFacts, DivisionIs
<1>8. Offset(n) \in Nat
  BY <1>5, <1>6, BankFacts
<1> QED BY <1>5, <1>7, <1>8 DEF BankAt

\* What a cell does to the state.
CellPut(n, m, c) ==
    /\ m \in Creators /\ SameRest(n, m)
    /\ m.big = Store(n.big, Offset(n), c)
    /\ m.flags = n.flags \cup ({n.bank} \cap 0..(Banks - 1))
    /\ Offset(m) = Offset(n) + 1

LEMMA PutCellStep ==
    ASSUME NEW n \in Creators, NEW c \in Cells
    PROVE  CellPut(n, PutCell(n, c), c)
<1> DEFINE big == Store(n.big, Offset(n), c)
           flags == n.flags \cup ({n.bank} \cap 0..(Banks - 1))
           r == n.addr % Bank
           q == n.addr \div Bank
           put == [n EXCEPT !.big = big, !.flags = flags, !.addr = n.addr + 1]
<1>1. n.bank \in Nat /\ n.addr \in Nat /\ n.big \in Images /\ n.flags \in Flagged
  BY DEF Creators
<1>2. big \in Images
  BY <1>1, OffsetFacts, StoreTyped
<1>3. flags \in Flagged
  BY <1>1 DEF Flagged
<1>4. /\ r \in Nat /\ q \in Nat /\ (r + 1 < Bank \/ r + 1 = Bank)
      /\ r + 1 < Bank => (n.addr + 1) % Bank = r + 1
      /\ r + 1 = Bank => (n.addr + 1) % Bank = 0
  BY <1>1, BankFacts, Division, NextRemainder
<1>5. PutCell(n, c) = IF put.addr % Bank = 0 THEN Advance([put EXCEPT !.addr = @ - 1]) ELSE put
  BY DEF PutCell, Offset
<1>6. Offset(n) = RealBank(n.bank) * Bank + r /\ RealBank(n.bank) \in Nat
  BY <1>1, BankTables DEF Offset
<1> DEFINE Moved(m, a, b) == /\ m \in Creators /\ SameRest(n, m) /\ m.big = big /\ m.flags = flags
                             /\ m.addr = a /\ m.bank = b
<1> HIDE DEF big, flags
<1>7. ASSUME NEW a \in Nat, NEW b \in Nat
      PROVE  Moved([n EXCEPT !.big = big, !.flags = flags, !.addr = a, !.bank = b], a, b)
  <2>1. [n EXCEPT !.big = big, !.flags = flags] \in Creators
    BY <1>2, <1>3 DEF Creators
  <2> DEFINE o == [n EXCEPT !.big = big, !.flags = flags]
  <2>2. SameRest(n, o) /\ o.big = big /\ o.flags = flags
    BY DEF Creators, SameRest
  <2>3. [n EXCEPT !.big = big, !.flags = flags, !.addr = a, !.bank = b]
          = [o EXCEPT !.addr = a, !.bank = b]
    BY DEF Creators
  <2> HIDE DEF o
  <2>4. [o EXCEPT !.addr = a, !.bank = b] \in Creators
    BY <2>1 DEF Creators, o
  <2>5. \A k \in Creators : LET m == [k EXCEPT !.addr = a, !.bank = b] IN
             /\ SameRest(k, m) /\ m.big = k.big /\ m.flags = k.flags
             /\ m.addr = a /\ m.bank = b
    BY DEF Creators, SameRest
  <2> QED BY <2>1, <2>2, <2>3, <2>4, <2>5 DEF o, SameRest
<1>8. CASE r + 1 < Bank
  <2> DEFINE m == [n EXCEPT !.big = big, !.flags = flags, !.addr = n.addr + 1, !.bank = n.bank]
  <2>1. m \in Creators /\ SameRest(n, m) /\ m.big = big /\ m.flags = flags
             /\ m.addr = n.addr + 1 /\ m.bank = n.bank
    <3> DEFINE a == n.addr + 1
               b == n.bank
    <3>1. a \in Nat /\ b \in Nat
      BY <1>1
    <3> HIDE DEF a, b
    <3>2. LET o == [n EXCEPT !.big = big, !.flags = flags, !.addr = a, !.bank = b] IN
             /\ o \in Creators /\ SameRest(n, o) /\ o.big = big /\ o.flags = flags
             /\ o.addr = a /\ o.bank = b
      BY <1>7, <3>1
    <3> QED BY <3>2 DEF a, b
  <2>2. put = m
    BY DEF Creators
  <2> HIDE DEF m
  <2>3. (n.addr + 1) % Bank = r + 1 /\ r + 1 # 0
    <3> HIDE DEF r
    <3> QED BY <1>4, <1>8
  <2>4. PutCell(n, c) = m
    BY <1>5, <2>1, <2>2, <2>3
  <2>5. Offset(m) = RealBank(n.bank) * Bank + (r + 1)
    BY <2>1, <2>3 DEF Offset
  <2>6. Offset(m) = Offset(n) + 1
    <3> DEFINE t == RealBank(n.bank) * Bank
    <3>1. t \in Nat
      BY <1>6, BankFacts
    <3>2. Offset(n) = t + r /\ Offset(m) = t + (r + 1) /\ r \in Nat
      BY <1>4, <1>6, <2>5
    <3> HIDE DEF t, r
    <3> QED BY <3>1, <3>2
  <2> QED BY <2>1, <2>4, <2>6 DEF CellPut, big, flags
<1>9. CASE r + 1 = Bank
  <2> DEFINE a == ((q + 1) % 4) * Bank
             b == NextBank(n.bank)
             m == [n EXCEPT !.big = big, !.flags = flags, !.addr = a, !.bank = b]
  <2>1. a \in Nat /\ a % Bank = 0
    <3>1. (q + 1) % 4 \in Nat
      BY <1>4
    <3> QED BY <3>1, BankFacts, Multiple
  <2>2. b \in Nat /\ RealBank(b) = RealBank(n.bank) + 1
    BY <1>1, BankTables
  <2>3. put.addr % Bank = 0
    <3>1. put.addr = n.addr + 1
      BY DEF Creators
    <3> QED BY <1>4, <1>9, <3>1
  <2>4. PutCell(n, c) = m
    <3> DEFINE last == [put EXCEPT !.addr = @ - 1]
    <3>1. last = [n EXCEPT !.big = big, !.flags = flags, !.addr = n.addr]
      <4> DEFINE up == n.addr + 1
      <4>1. up - 1 = n.addr
        BY <1>1
      <4> HIDE DEF up
      <4>2. [[n EXCEPT !.big = big, !.flags = flags, !.addr = up] EXCEPT !.addr = @ - 1]
              = [n EXCEPT !.big = big, !.flags = flags, !.addr = up - 1]
        BY DEF Creators
      <4> QED BY <4>1, <4>2 DEF up
    <3>2. last.addr = n.addr /\ last.bank = n.bank
      BY <3>1 DEF Creators
    <3>3. Advance(last) = [last EXCEPT !.addr = a, !.bank = b]
      <4> HIDE DEF last
      <4> QED BY <3>2 DEF Advance
    <3>4. [last EXCEPT !.addr = a, !.bank = b] = m
      <4> HIDE DEF last, a, b, big, flags
      <4>1. [[n EXCEPT !.big = big, !.flags = flags, !.addr = n.addr]
                EXCEPT !.addr = a, !.bank = b]
              = [n EXCEPT !.big = big, !.flags = flags, !.addr = a, !.bank = b]
        BY DEF Creators
      <4> QED BY <3>1, <4>1, Zenon
    <3> HIDE DEF m, a, b
    <3> QED BY <1>5, <2>3, <3>3, <3>4
  <2>5. m \in Creators /\ SameRest(n, m) /\ m.big = big /\ m.flags = flags
             /\ m.addr = a /\ m.bank = b
    <3>1. a \in Nat /\ b \in Nat
      BY <2>1, <2>2
    <3>2. Moved(m, a, b)
      <4> HIDE DEF a, b, big, flags, Moved
      <4> QED BY <1>7, <3>1
    <3> HIDE DEF m, a, b
    <3> QED BY <3>2
  <2> HIDE DEF m
  <2>6. Offset(m) = RealBank(b) * Bank + 0
    BY <2>1, <2>5 DEF Offset
  <2>7. Offset(m) = Offset(n) + 1
    <3> DEFINE t == RealBank(n.bank)
    <3>1. Offset(m) = (t + 1) * Bank + 0 /\ Offset(n) = t * Bank + r /\ t \in Nat /\ r \in Nat
      BY <1>4, <1>6, <2>2, <2>6
    <3> HIDE DEF t, r
    <3>2. (t + 1) * Bank = t * Bank + Bank /\ t * Bank \in Nat
      BY <3>1, BankFacts
    <3> DEFINE tb == t * Bank
               tc == (t + 1) * Bank
    <3>3. Offset(m) = tc + 0 /\ Offset(n) = tb + r /\ tc = tb + Bank /\ tb \in Nat
      BY <3>1, <3>2
    <3> HIDE DEF tb, tc
    <3> QED BY <1>9, <3>1, <3>3, BankFacts DEF r
  <2> QED BY <2>4, <2>5, <2>7 DEF CellPut, big, flags
<1> QED BY <1>4, <1>8, <1>9


LEMMA CellRun ==
    ASSUME NEW base, NEW seq, NEW n \in Nat, DOMAIN seq = 1..n, Len(seq) = n
    PROVE  \E h : Run(h, "cell", 0, base, seq) /\ FoldLeft(PutCell, base, seq) = h[n]
<1> DEFINE Body(g) == g = [s \in SUBSET DOMAIN seq |->
                IF s = {} THEN base ELSE PutCell(g[s \ {Max(s)}], seq[Max(s)])]
           f == CHOOSE g : Body(g)
<1>1. FoldLeft(PutCell, base, seq) = f[DOMAIN seq]
  BY DEF FoldLeft, MapThenFoldSet
<1>2. \A g : Body(g) <=> Folding(g, "cell", 0, base, seq)
  BY DEF Folding, FoldStep
<1>3. Folding(f, "cell", 0, base, seq)
  <2>1. \E g : Folding(g, "cell", 0, base, seq)
    BY FoldingDefined
  <2>2. \E g : Body(g)
    BY <1>2, <2>1
  <2>3. Body(f)
    <3> HIDE DEF Body
    <3> QED BY <2>2
  <2> QED BY <1>2, <2>3
<1> HIDE DEF f
<1> QED BY <1>1, <1>3, FoldingRuns

\* n with the cells of a file laid at its offset.
Laid(n, m, cells, k) ==
    /\ m \in Creators /\ SameRest(n, m) /\ Offset(m) = Offset(n) + k
    /\ \A o \in Nat : o \in DOMAIN m.big <=>
                        (o \in DOMAIN n.big \/ (Offset(n) <= o /\ o < Offset(n) + k))
    /\ \A j \in 1..k : m.big[Offset(n) + j - 1] = cells[j]
    /\ \A o \in DOMAIN n.big : (o < Offset(n) \/ o >= Offset(n) + k) => m.big[o] = n.big[o]
    /\ n.flags \subseteq m.flags
    /\ \A j \in 1..k : BankAt(Offset(n) + j - 1) < Banks => BankAt(Offset(n) + j - 1) \in m.flags

LEMMA ImageDomain ==
    ASSUME NEW n \in Creators
    PROVE  /\ DOMAIN n.big \in SUBSET Nat
           /\ \A o \in DOMAIN n.big : n.big[o] \in Cells
<1>1. PICK D \in SUBSET Nat : n.big \in [D -> Cells]
  BY DEF Creators, Images
<1> QED BY <1>1

LEMMA LaidStep ==
    ASSUME NEW n \in Creators, NEW m, NEW cells \in Seq(Cells), NEW k \in Nat,
           k < Len(cells), Laid(n, m, cells, k), NEW p, CellPut(m, p, cells[k + 1])
    PROVE  Laid(n, p, cells, k + 1)
<1> DEFINE a == Offset(n)
           b == Offset(n) + k
           c == cells[k + 1]
<1>1. /\ a \in Nat /\ b \in Nat /\ b = a + k /\ Offset(m) = b /\ m \in Creators
      /\ p \in Creators /\ SameRest(m, p) /\ SameRest(n, m)
      /\ p.big = Store(m.big, b, c) /\ Offset(p) = b + 1
  BY OffsetFacts DEF Laid, CellPut
<1>2. DOMAIN m.big \in SUBSET Nat
  BY <1>1, ImageDomain
<1>3. /\ DOMAIN p.big = DOMAIN m.big \cup {b} /\ p.big[b] = c
      /\ \A o \in DOMAIN m.big : o # b => p.big[o] = m.big[o]
  BY <1>1 DEF Store, Over
<1>4. /\ \A o \in Nat : o \in DOMAIN m.big <=> (o \in DOMAIN n.big \/ (a <= o /\ o < b))
      /\ \A j \in 1..k : m.big[a + j - 1] = cells[j]
      /\ \A o \in DOMAIN n.big : (o < a \/ o >= b) => m.big[o] = n.big[o]
      /\ n.flags \subseteq m.flags
      /\ \A j \in 1..k : BankAt(a + j - 1) < Banks => BankAt(a + j - 1) \in m.flags
  BY DEF Laid
<1>5. p.flags = m.flags \cup ({m.bank} \cap 0..(Banks - 1)) /\ BankAt(b) = m.bank /\ m.bank \in Nat
  <2>1. BankAt(Offset(m)) = m.bank /\ m.bank \in Nat
    BY <1>1, OffsetFacts DEF Creators
  <2> QED BY <1>1, <2>1 DEF CellPut
<1>6. SameRest(n, p)
  BY <1>1 DEF SameRest
<1>7. Offset(p) = a + (k + 1)
  BY <1>1
<1>8. DOMAIN n.big \in SUBSET Nat
  BY ImageDomain
<1> HIDE DEF a, b, c
<1>9. \A o \in Nat : o \in DOMAIN p.big <=> (o \in DOMAIN n.big \/ (a <= o /\ o < a + (k + 1)))
  <2> SUFFICES ASSUME NEW o \in Nat
               PROVE  o \in DOMAIN p.big <=> (o \in DOMAIN n.big \/ (a <= o /\ o < a + (k + 1)))
    OBVIOUS
  <2>1. (a <= o /\ o < a + (k + 1)) <=> ((a <= o /\ o < b) \/ o = b)
    BY <1>1
  <2>2. o \in DOMAIN p.big <=> (o \in DOMAIN m.big \/ o = b)
    BY <1>3
  <2> QED BY <1>4, <2>1, <2>2
<1>10. \A j \in 1..(k + 1) : p.big[a + j - 1] = cells[j]
  <2> SUFFICES ASSUME NEW j \in 1..(k + 1) PROVE p.big[a + j - 1] = cells[j]
    OBVIOUS
  <2>1. CASE j = k + 1
    <3>1. a + j - 1 = b
      BY <1>1, <2>1
    <3> QED BY <1>3, <2>1, <3>1 DEF c
  <2>2. CASE j # k + 1
    <3>1. j \in 1..k /\ a + j - 1 \in Nat /\ a <= a + j - 1 /\ a + j - 1 < b
      BY <1>1, <2>2
    <3> QED BY <1>3, <1>4, <3>1
  <2> QED BY <2>1, <2>2
<1>11. \A o \in DOMAIN n.big : (o < a \/ o >= a + (k + 1)) => p.big[o] = n.big[o]
  <2> SUFFICES ASSUME NEW o \in DOMAIN n.big, o < a \/ o >= a + (k + 1) PROVE p.big[o] = n.big[o]
    OBVIOUS
  <2>1. o \in Nat /\ o # b /\ (o < a \/ o >= b)
    BY <1>1, <1>8
  <2> QED BY <1>3, <1>4, <2>1
<1>12. n.flags \subseteq p.flags
  BY <1>4, <1>5
<1>13. \A j \in 1..(k + 1) : BankAt(a + j - 1) < Banks => BankAt(a + j - 1) \in p.flags
  <2> SUFFICES ASSUME NEW j \in 1..(k + 1), BankAt(a + j - 1) < Banks
               PROVE  BankAt(a + j - 1) \in p.flags
    OBVIOUS
  <2>1. CASE j = k + 1
    <3>1. a + j - 1 = b
      BY <1>1, <2>1
    <3>2. m.bank < Banks
      BY <1>5, <3>1
    <3>3. m.bank \in 0..(Banks - 1)
      BY <1>5, <3>2, BanksAssumption
    <3> QED BY <1>5, <3>1, <3>3
  <2>2. CASE j # k + 1
    <3>1. j \in 1..k
      BY <2>2
    <3> QED BY <1>4, <1>5, <3>1
  <2> QED BY <2>1, <2>2
<1> QED BY <1>1, <1>6, <1>7, <1>9, <1>10, <1>11, <1>12, <1>13 DEF Laid, a

LEMMA CellsLaid ==
    ASSUME NEW n \in Creators, NEW cells \in Seq(Cells)
    PROVE  Laid(n, FoldLeft(PutCell, n, cells), cells, Len(cells))
<1> DEFINE N == Len(cells)
<1>1. N \in Nat /\ DOMAIN cells = 1..N /\ Len(cells) = N
  OBVIOUS
<1>2. PICK h : Run(h, "cell", 0, n, cells) /\ FoldLeft(PutCell, n, cells) = h[N]
  <2> HIDE DEF N
  <2> QED BY <1>1, CellRun
<1> DEFINE K == {k \in Nat : k <= N => Laid(n, h[k], cells, k)}
<1>3. 0 \in K
  <2>1. h[0] = n
    BY <1>2 DEF Run
  <2>2. Offset(n) \in Nat
    BY OffsetFacts
  <2> DEFINE z == 0
  <2>3. z \in Nat /\ 1..z = {} /\ Offset(n) = Offset(n) + z
    BY <2>2
  <2>4. \A o \in Nat : ~(Offset(n) <= o /\ o < Offset(n) + z)
    BY <2>2
  <2> HIDE DEF z
  <2>5. Laid(n, n, cells, z)
    BY <2>3, <2>4 DEF Laid, SameRest
  <2> QED BY <2>1, <2>5 DEF z
<1>4. ASSUME NEW k \in Nat, k \in K PROVE k + 1 \in K
  <2>1. SUFFICES ASSUME k + 1 <= N PROVE Laid(n, h[k + 1], cells, k + 1)
    OBVIOUS
  <2>2. k < N /\ k + 1 \in 1..N /\ (k + 1) - 1 = k
    BY <1>1, <2>1
  <2>3. Laid(n, h[k], cells, k)
    BY <1>1, <1>4, <2>1
  <2>4. h[k + 1] = PutCell(h[k], cells[k + 1])
    BY <1>2, <2>2 DEF Run, FoldStep
  <2>5. CellPut(h[k], PutCell(h[k], cells[k + 1]), cells[k + 1])
    <3>1. h[k] \in Creators /\ cells[k + 1] \in Cells
      BY <1>1, <2>2, <2>3 DEF Laid
    <3> QED BY <3>1, PutCellStep
  <2> QED BY <1>1, <2>2, <2>3, <2>4, <2>5, LaidStep
<1>5. N \in K
  <2>1. Nat \subseteq K
    <3> HIDE DEF K
    <3> QED BY <1>3, <1>4, NatSetInduction
  <2> QED BY <1>1, <2>1
<1> QED BY <1>1, <1>2, <1>5


-----------------------------------------------------------------------------
(* Lines of a configuration.                                               *)

\* A folder: what nextcreator.py can open, and what is in it.
Folder(files_) == \A name \in DOMAIN files_ : files_[name] \in Seq(Cells)

\* m is n after a file of these cells: the address moves on to the next window.
Filed(n, m, cells) ==
    /\ m \in Creators
    /\ \E p : /\ Laid(n, p, cells, Len(cells))
              /\ m.big = p.big /\ m.flags = p.flags /\ SameRest(p, m)

LEMMA AddFileFacts ==
    ASSUME NEW n \in Creators, NEW disk, Folder(disk), NEW name
    PROVE  /\ AddFile(n, name, disk) \in Creators
           /\ name \in DOMAIN disk => Filed(n, AddFile(n, name, disk), disk[name])
           /\ name \notin DOMAIN disk => AddFile(n, name, disk).broken
<1>1. CASE name \notin DOMAIN disk
  <2>1. AddFile(n, name, disk) = [n EXCEPT !.broken = TRUE]
    BY <1>1 DEF AddFile
  <2>2. [n EXCEPT !.broken = TRUE] \in Creators /\ [n EXCEPT !.broken = TRUE].broken
    BY DEF Creators
  <2> QED BY <1>1, <2>1, <2>2
<1>2. CASE name \in DOMAIN disk
  <2> DEFINE cells == disk[name]
             p == FoldLeft(PutCell, n, cells)
             N == Len(cells)
  <2>1. cells \in Seq(Cells)
    BY <1>2 DEF Folder
  <2>2. AddFile(n, name, disk) = IF p.addr % Bank = 0 \/ cells = <<>> THEN p ELSE Advance(p)
    BY <1>2 DEF AddFile
  <2> HIDE DEF cells
  <2>3. Laid(n, p, cells, N)
    BY <2>1, CellsLaid
  <2> HIDE DEF p
  <2>4. p \in Creators
    BY <2>3 DEF Laid
  <2> DEFINE a == ((p.addr \div Bank + 1) % 4) * Bank
             b == NextBank(p.bank)
  <2>5. a \in Nat /\ b \in Nat
    <3>1. p.addr \in Nat /\ p.bank \in Nat
      BY <2>4 DEF Creators
    <3> DEFINE q == p.addr \div Bank
    <3>2. q \in Nat
      BY <3>1, BankFacts, Division
    <3> HIDE DEF q
    <3> DEFINE t == (q + 1) % 4
    <3>3. t \in Nat
      BY <3>2
    <3> HIDE DEF t
    <3>4. t * Bank \in Nat
      BY <3>3, BankFacts
    <3> QED BY <3>1, <3>4, BankTables DEF t, q
  <2>6. Advance(p) = [p EXCEPT !.addr = a, !.bank = b]
    BY DEF Advance
  <2> HIDE DEF a, b
  <2>7. LET m == [p EXCEPT !.addr = a, !.bank = b] IN
        m \in Creators /\ m.big = p.big /\ m.flags = p.flags /\ SameRest(p, m)
    BY <2>4, <2>5 DEF Creators, SameRest
  <2>8. SameRest(p, p)
    BY DEF SameRest
  <2>9. Filed(n, p, cells) /\ Filed(n, Advance(p), cells)
    BY <2>3, <2>4, <2>6, <2>7, <2>8 DEF Filed
  <2>10. p \in Creators /\ Advance(p) \in Creators
    BY <2>9 DEF Filed
  <2> QED BY <1>2, <2>2, <2>9, <2>10 DEF cells
<1> QED BY <1>1, <1>2

\* What a file leaves alone.
LEMMA FiledFacts ==
    ASSUME NEW n \in Creators, NEW m, NEW cells \in Seq(Cells), Filed(n, m, cells)
    PROVE  /\ m \in Creators /\ SameRest(n, m) /\ n.flags \subseteq m.flags
           /\ \A o \in Nat : o \in DOMAIN m.big <=>
                 (o \in DOMAIN n.big \/ (Offset(n) <= o /\ o < Offset(n) + Len(cells)))
           /\ \A j \in 1..Len(cells) : m.big[Offset(n) + j - 1] = cells[j]
           /\ \A o \in DOMAIN n.big :
                (o < Offset(n) \/ o >= Offset(n) + Len(cells)) => m.big[o] = n.big[o]
           /\ \A j \in 1..Len(cells) :
                BankAt(Offset(n) + j - 1) < Banks => BankAt(Offset(n) + j - 1) \in m.flags
<1>1. PICK p : /\ Laid(n, p, cells, Len(cells))
               /\ m.big = p.big /\ m.flags = p.flags /\ SameRest(p, m)
  BY DEF Filed
<1>2. SameRest(n, p)
  BY <1>1 DEF Laid
<1>3. SameRest(n, m)
  BY <1>1, <1>2 DEF SameRest
<1>4. m \in Creators
  BY DEF Filed
<1> QED BY <1>1, <1>3, <1>4 DEF Laid

\* The place a file goes to by !MMU or by a bank and an address.
LEMMA PlaceTyped ==
    ASSUME NEW n \in Creators, NEW b \in Nat, NEW a \in Nat
    PROVE  LET m == [n EXCEPT !.bank = b, !.addr = a] IN
           /\ m \in Creators /\ SameRest(n, m) /\ m.big = n.big /\ m.flags = n.flags
           /\ m.bank = b /\ m.addr = a
  BY DEF Creators, SameRest

LEMMA MMUPlace ==
    ASSUME NEW page \in Nat, NEW addr \in Nat
    PROVE  page \div 2 \in Nat /\ addr + (page % 2) * Page \in Nat
<1>1. page \div 2 \in Nat /\ page % 2 \in Nat
  BY Division
<1> DEFINE t == page % 2
<1>2. t \in Nat
  BY <1>1
<1> HIDE DEF t
<1>3. t * Page \in Nat
  BY <1>2, BankFacts
<1> QED BY <1>1, <1>3 DEF t

LEMMA ShotTyped ==
    ASSUME NEW n \in Creators, NEW kind \in Kinds, NEW buffer \in Kinds, NEW name \in Names, NEW disk
    PROVE  Shot(n, kind, buffer, name, disk) \in Creators
<1>1. Store(n.shots, buffer, name) \in Shots
  BY StoreTyped DEF Creators
<1> DEFINE g == Store(n.shots, buffer, name)
<1> HIDE DEF g
<1>2. [n EXCEPT !.shots = g, !.screens = @ \cup {kind}] \in Creators
  BY <1>1 DEF Creators, g
<1>3. Shot(n, kind, buffer, name, disk) = n
      \/ Shot(n, kind, buffer, name, disk) = [n EXCEPT !.shots = g, !.screens = @ \cup {kind}]
  BY DEF Shot, g
<1> QED BY <1>2, <1>3

\* Once an exception has ended the program nothing more happens.
LEMMA BrokenStays ==
    ASSUME NEW n \in Creators, NEW line, NEW disk, n.broken
    PROVE  ParseLine(n, line, disk) = n
<1>1. n.broken = TRUE
  BY DEF Creators
<1> QED BY <1>1 DEF ParseLine

LEMMA LineTyped ==
    ASSUME NEW n \in Creators, NEW line \in CfgLines, NEW disk, Folder(disk)
    PROVE  ParseLine(n, line, disk) \in Creators
<1>1. CASE n.broken
  BY <1>1, BrokenStays
<1>2. CASE ~n.broken /\ line \in [op : {"file"}, file : Names, bank : Nat, addr : Nat]
  <2> DEFINE m == [n EXCEPT !.bank = line.bank, !.addr = line.addr]
  <2>1. m \in Creators
    BY <1>2, PlaceTyped
  <2>2. ParseLine(n, line, disk) = AddFile(m, line.file, disk)
    BY <1>2 DEF ParseLine
  <2> HIDE DEF m
  <2> QED BY <2>1, <2>2, AddFileFacts
<1>3. CASE ~n.broken /\ line \in [op : {"more"} \cup Kinds, file : Names]
  <2>1. CASE line.op = "more"
    <3>1. ParseLine(n, line, disk) = AddFile(n, line.file, disk)
      BY <1>3, <2>1 DEF ParseLine
    <3> QED BY <3>1, AddFileFacts
  <2>2. CASE line.op = "bmp"
    <3>1. ParseLine(n, line, disk) = LoadBmp(n, line.file, disk)
      BY <1>3, <2>2 DEF ParseLine
    <3>2. [n EXCEPT !.broken = TRUE] \in Creators
      BY DEF Creators
    <3>3. Shot(n, "bmp", "bmp", line.file, disk) \in Creators
      BY <1>3, ShotTyped DEF Kinds
    <3> QED BY <3>1, <3>2, <3>3 DEF LoadBmp
  <2>3. CASE line.op = "scr"
    <3>1. ParseLine(n, line, disk) = LoadScr(n, line.file, disk)
      BY <1>3, <2>3 DEF ParseLine
    <3> QED BY <1>3, <3>1, ShotTyped DEF Kinds, LoadScr
  <2>4. CASE line.op = "slr"
    <3>1. ParseLine(n, line, disk) = LoadSlr(n, line.file, disk)
      BY <1>3, <2>4 DEF ParseLine
    <3> DEFINE m == Shot(n, "slr", "scr", line.file, disk)
    <3>2. m \in Creators
      BY <1>3, ShotTyped DEF Kinds
    <3>3. LoadSlr(n, line.file, disk) = Shot(m, "slr", "shr", line.file, disk)
      BY DEF LoadSlr
    <3> HIDE DEF m
    <3>4. Shot(m, "slr", "shr", line.file, disk) \in Creators
      BY <1>3, <3>2, ShotTyped DEF Kinds
    <3> QED BY <3>1, <3>3, <3>4
  <2>5. CASE line.op = "shr"
    <3>1. ParseLine(n, line, disk) = LoadShr(n, line.file, disk)
      BY <1>3, <2>5 DEF ParseLine
    <3> DEFINE m == Shot(n, "shr", "shr", line.file, disk)
    <3>2. m \in Creators
      BY <1>3, ShotTyped DEF Kinds
    <3>3. LoadShr(n, line.file, disk) = [m EXCEPT !.screens = @ \cup {"shr"}]
      BY DEF LoadShr
    <3> HIDE DEF m
    <3>4. [m EXCEPT !.screens = @ \cup {"shr"}] \in Creators
      BY <3>2 DEF Creators, Kinds
    <3> QED BY <3>1, <3>3, <3>4
  <2>6. CASE line.op = "shc"
    <3>1. ParseLine(n, line, disk) = LoadShc(n, line.file, disk)
      BY <1>3, <2>6 DEF ParseLine
    <3> QED BY <1>3, <3>1, ShotTyped DEF Kinds, LoadShc
  <2> QED BY <1>3, <2>1, <2>2, <2>3, <2>4, <2>5, <2>6 DEF Kinds
<1>4. CASE ~n.broken /\ line \in [op : {"mmu"}, file : Names, page : Nat, addr : Nat]
  <2> DEFINE b == line.page \div 2
             a == line.addr + (line.page % 2) * Page
             m == [n EXCEPT !.bank = b, !.addr = a]
  <2>1. b \in Nat /\ a \in Nat
    BY <1>4, MMUPlace
  <2>2. ParseLine(n, line, disk) = AddFile(m, line.file, disk)
    BY <1>4 DEF ParseLine, LoadMMU
  <2> HIDE DEF b, a
  <2>3. m \in Creators
    BY <2>1, PlaceTyped
  <2> HIDE DEF m
  <2> QED BY <2>2, <2>3, AddFileFacts
<1>5. CASE ~n.broken /\ line \in [op : {"pcsp"}, pc : Nat, sp : Nat \X Int]
  <2>1. ParseLine(n, line, disk) = [n EXCEPT !.pc = line.pc, !.sp = line.sp]
    BY <1>5 DEF ParseLine, SetPCSP
  <2>2. line.pc \in Nat /\ line.sp \in Nat \X Int
    BY <1>5
  <2> DEFINE a == line.pc
             b == line.sp
  <2>3. a \in Nat /\ b \in Nat \X Int
    BY <2>2
  <2> HIDE DEF a, b
  <2>4. [n EXCEPT !.pc = a, !.sp = b] \in Creators
    <3>1. [n EXCEPT !.pc = a] \in Creators
      BY <2>3 DEF Creators
    <3>2. \A m \in Creators : [m EXCEPT !.sp = b] \in Creators
      BY <2>3 DEF Creators
    <3> QED BY <3>1, <3>2
  <2> QED BY <2>1, <2>4 DEF a, b
<1>6. CASE ~n.broken /\ line \in [op : {"bank"}, bank : Nat]
  <2>1. ParseLine(n, line, disk) = [n EXCEPT !.entry = line.bank]
    BY <1>6 DEF ParseLine, SetEntryBank
  <2> QED BY <1>6, <2>1 DEF Creators
<1> QED BY <1>1, <1>2, <1>3, <1>4, <1>5, <1>6 DEF CfgLines

LEMMA LineRun ==
    ASSUME NEW disk, NEW seq, NEW n \in Nat, DOMAIN seq = 1..n, Len(seq) = n
    PROVE  \E h : Run(h, "line", disk, Fresh, seq) /\ ParseFile(seq, disk) = h[n]
<1> DEFINE Body(g) == g = [s \in SUBSET DOMAIN seq |->
                IF s = {} THEN Fresh ELSE ParseLine(g[s \ {Max(s)}], seq[Max(s)], disk)]
           f == CHOOSE g : Body(g)
<1>1. ParseFile(seq, disk) = f[DOMAIN seq]
  BY DEF ParseFile, FoldLeft, MapThenFoldSet
<1>2. \A g : Body(g) <=> Folding(g, "line", disk, Fresh, seq)
  BY DEF Folding, FoldStep
<1>3. Folding(f, "line", disk, Fresh, seq)
  <2>1. \E g : Folding(g, "line", disk, Fresh, seq)
    BY FoldingDefined
  <2>2. \E g : Body(g)
    BY <1>2, <2>1
  <2>3. Body(f)
    <3> HIDE DEF Body
    <3> QED BY <2>2
  <2> QED BY <1>2, <2>3
<1> HIDE DEF f
<1> QED BY <1>1, <1>3, FoldingRuns

\* The states nextcreator.py goes through, line by line.
Parsing(h, lines, disk) ==
    /\ h[0] = Fresh /\ ParseFile(lines, disk) = h[Len(lines)]
    /\ \A k \in 0..Len(lines) : h[k] \in Creators
    /\ \A k \in 1..Len(lines) : h[k] = ParseLine(h[k - 1], lines[k], disk)

LEMMA ParseRun ==
    ASSUME NEW lines \in Seq(CfgLines), NEW disk, Folder(disk)
    PROVE  \E h : Parsing(h, lines, disk)
<1> DEFINE N == Len(lines)
<1>1. N \in Nat /\ DOMAIN lines = 1..N /\ Len(lines) = N
  OBVIOUS
<1>2. PICK h : Run(h, "line", disk, Fresh, lines) /\ ParseFile(lines, disk) = h[N]
  <2> HIDE DEF N
  <2> QED BY <1>1, LineRun
<1>3. /\ h[0] = Fresh
      /\ \A k \in 1..N : h[k] = ParseLine(h[k - 1], lines[k], disk)
  BY <1>2 DEF Run, FoldStep
<1> DEFINE K == {k \in Nat : k <= N => h[k] \in Creators}
<1>4. 0 \in K
  BY <1>3, FreshTyped
<1>5. ASSUME NEW k \in Nat, k \in K PROVE k + 1 \in K
  <2>1. SUFFICES ASSUME k + 1 <= N PROVE h[k + 1] \in Creators
    OBVIOUS
  <2>2. k + 1 \in 1..N /\ (k + 1) - 1 = k /\ k <= N
    BY <1>1, <2>1
  <2>3. h[k] \in Creators /\ lines[k + 1] \in CfgLines
    BY <1>1, <1>5, <2>2
  <2>4. h[k + 1] = ParseLine(h[k], lines[k + 1], disk)
    BY <1>3, <2>2
  <2> QED BY <2>3, <2>4, LineTyped
<1>6. Nat \subseteq K
  <2> HIDE DEF K
  <2> QED BY <1>4, <1>5, NatSetInduction
<1>7. \A k \in 0..N : h[k] \in Creators
  BY <1>1, <1>6
<1> QED BY <1>2, <1>3, <1>7 DEF Parsing

-----------------------------------------------------------------------------
(* The NEX file written and the machine that loads it.                     *)

Kept1(f, seq, S, k) == IF seq[k] \in S THEN Append(f[k - 1], seq[k]) ELSE f[k - 1]
Keeping(f, seq, S, n) == f = [k \in 0..n |-> IF k = 0 THEN <<>> ELSE Kept1(f, seq, S, k)]

LEMMA KeepDefined ==
    ASSUME NEW seq, NEW S
    PROVE  \A n \in Nat : \E f : Keeping(f, seq, S, n)
<1> USE DEF Keeping
<1> DEFINE Loop(f, n) == Keeping(f, seq, S, n)
           K == {n \in Nat : \E f : Loop(f, n)}
<1>1. 0 \in K
  <2>1. Loop([k \in 0..0 |-> <<>>], 0)
    OBVIOUS
  <2> QED BY <2>1
<1>2. ASSUME NEW n \in Nat, n \in K PROVE n + 1 \in K
  <2>1. PICK f : Loop(f, n)
    BY <1>2
  <2> DEFINE g == [k \in 0..(n + 1) |-> IF k = n + 1 THEN Kept1(f, seq, S, k) ELSE f[k]]
  <2>2. ASSUME NEW k \in 0..(n + 1)
        PROVE  g[k] = IF k = 0 THEN <<>> ELSE Kept1(g, seq, S, k)
    <3>1. CASE k = n + 1
      <4>1. g[k] = Kept1(f, seq, S, k) /\ g[k - 1] = f[k - 1] /\ k # 0
        BY <3>1
      <4> HIDE DEF g
      <4> QED BY <4>1 DEF Kept1
    <3>2. CASE k # n + 1 /\ k # 0
      <4>1. g[k] = f[k] /\ g[k - 1] = f[k - 1]
        BY <3>2
      <4>2. f[k] = Kept1(f, seq, S, k)
        BY <2>1, <3>2
      <4> HIDE DEF g
      <4> QED BY <3>2, <4>1, <4>2 DEF Kept1
    <3>3. CASE k = 0
      BY <2>1, <3>3
    <3> QED BY <3>1, <3>2, <3>3
  <2>3. Loop(g, n + 1)
    <3>1. g = [k \in 0..(n + 1) |-> g[k]]
      OBVIOUS
    <3> HIDE DEF g
    <3> QED BY <2>2, <3>1, Zenon
  <2>4. n + 1 \in Nat
    OBVIOUS
  <2> HIDE DEF g, Loop
  <2> QED BY <2>3, <2>4
<1>3. Nat \subseteq K
  <2> HIDE DEF K
  <2> QED BY <1>1, <1>2, NatSetInduction
<1> QED BY <1>3

\* What is kept after each member.
KeptBy(f, seq, S, n) ==
    /\ f[0] = <<>>
    /\ \A k \in 1..n : f[k] = IF seq[k] \in S THEN Append(f[k - 1], seq[k]) ELSE f[k - 1]

LEMMA KeepRun ==
    ASSUME NEW seq, NEW S, NEW n \in Nat, Len(seq) = n
    PROVE  \E f : KeptBy(f, seq, S, n) /\ Keep(seq, S) = f[n]
<1> DEFINE f == CHOOSE g : Keeping(g, seq, S, Len(seq))
<1>1. Keep(seq, S) = f[Len(seq)]
  BY DEF Keep, Keeping, Kept1
<1>2. Keeping(f, seq, S, Len(seq))
  <2>1. \E g : Keeping(g, seq, S, n)
    BY KeepDefined
  <2>2. \E g : Keeping(g, seq, S, Len(seq))
    BY <2>1
  <2> QED BY <2>2, Zenon
<1> HIDE DEF f
<1>3. \A k \in 0..n : f[k] = IF k = 0 THEN <<>>
                             ELSE IF seq[k] \in S THEN Append(f[k - 1], seq[k]) ELSE f[k - 1]
  BY <1>2 DEF Keeping, Kept1
<1>4. KeptBy(f, seq, S, n)
  BY <1>3 DEF KeptBy
<1> QED BY <1>1, <1>4


\* The machine fills the banks in the order the image has them.
LEMMA LoadOrderIs ==
    /\ Len(LoadOrder) = Banks /\ DOMAIN LoadOrder = 1..Banks
    /\ \A k \in 1..Banks : LoadOrder[k] = BankOrder(k - 1)
<1> DEFINE low == <<5, 2, 0, 1, 3, 4, 6, 7>>
           high == [k \in 1..(Banks - 8) |-> k + 7]
<1>1. /\ low \in Seq(Nat) /\ Len(low) = 8
      /\ low[1] = 5 /\ low[2] = 2 /\ low[3] = 0 /\ low[4] = 1
      /\ low[5] = 3 /\ low[6] = 4 /\ low[7] = 6 /\ low[8] = 7
  OBVIOUS
<1>2. high \in Seq(Nat) /\ Len(high) = Banks - 8 /\ \A k \in 1..(Banks - 8) : high[k] = k + 7
  <2> DEFINE m == Banks - 8
  <2>1. m \in Nat
    BY BanksAssumption
  <2> HIDE DEF m
  <2>2. [k \in 1..m |-> k + 7] \in Seq(Nat) /\ Len([k \in 1..m |-> k + 7]) = m
    BY <2>1
  <2> QED BY <2>2 DEF m
<1>3. LoadOrder = low \o high
  BY DEF LoadOrder
<1> HIDE DEF low, high
<1>4. /\ Len(low \o high) = 8 + (Banks - 8) /\ DOMAIN (low \o high) = 1..(8 + (Banks - 8))
      /\ \A k \in 1..(8 + (Banks - 8)) : (low \o high)[k] = IF k <= 8 THEN low[k] ELSE high[k - 8]
  <2> DEFINE m == Banks - 8
  <2>1. m \in Nat /\ Len(high) = m
    BY <1>2, BanksAssumption
  <2>2. /\ Len(low \o high) = Len(low) + Len(high)
        /\ \A k \in 1..(Len(low) + Len(high)) :
             (low \o high)[k] = IF k <= Len(low) THEN low[k] ELSE high[k - Len(low)]
    BY <1>1, <1>2, ConcatProperties
  <2>3. low \o high \in Seq(Nat)
    BY <1>1, <1>2, ConcatProperties
  <2>4. DOMAIN (low \o high) = 1..Len(low \o high)
    BY <2>3
  <2> QED BY <1>1, <2>1, <2>2, <2>4
<1>5. 8 + (Banks - 8) = Banks
  BY BanksAssumption
<1>6. ASSUME NEW k \in 1..Banks PROVE (low \o high)[k] = BankOrder(k - 1)
  <2>1. CASE k > 8
    <3>1. k - 8 \in 1..(Banks - 8) /\ (k - 8) + 7 = k - 1 /\ k - 1 > 7 /\ ~(k <= 8)
      BY <2>1, BanksAssumption
    <3>2. (low \o high)[k] = high[k - 8]
      BY <1>4, <1>5, <3>1
    <3>3. high[k - 8] = k - 1
      BY <1>2, <3>1
    <3> QED BY <3>1, <3>2, <3>3 DEF BankOrder
  <2>2. CASE k <= 8
    <3>1. (low \o high)[k] = low[k]
      BY <1>4, <1>5, <2>2
    <3>2. k = 1 \/ k = 2 \/ k = 3 \/ k = 4 \/ k = 5 \/ k = 6 \/ k = 7 \/ k = 8
      BY <2>2, BanksAssumption
    <3>3. /\ BankOrder(0) = 5 /\ BankOrder(1) = 2 /\ BankOrder(2) = 0 /\ BankOrder(3) = 1
          /\ BankOrder(4) = 3 /\ BankOrder(5) = 4 /\ BankOrder(6) = 6 /\ BankOrder(7) = 7
      BY DEF BankOrder
    <3>4. /\ 1 - 1 = 0 /\ 2 - 1 = 1 /\ 3 - 1 = 2 /\ 4 - 1 = 3
          /\ 5 - 1 = 4 /\ 6 - 1 = 5 /\ 7 - 1 = 6 /\ 8 - 1 = 7
      OBVIOUS
    <3>5. low[k] = BankOrder(k - 1)
      BY <1>1, <3>2, <3>3, <3>4, Zenon
    <3> QED BY <3>1, <3>5
  <2>3. k > 8 \/ k <= 8
    BY BanksAssumption
  <2> QED BY <2>1, <2>2, <2>3, Zenon
<1> QED BY <1>3, <1>4, <1>5, <1>6

\* p are the places of the flagged banks among the first k of the image, q the
\* banks, in the same order and each once.
Matched(p, q, flags, k) ==
    /\ p \in Seq(Nat) /\ q \in Seq(Nat) /\ Len(q) = Len(p)
    /\ \A i \in 1..Len(p) : p[i] < k /\ q[i] = BankOrder(p[i])
    /\ \A b \in flags : RealBank(b) < k => \E i \in 1..Len(p) : q[i] = b
    /\ Len(p) = Cardinality({b \in flags : RealBank(b) < k})

LEMMA MatchedStart == ASSUME NEW flags \in Flagged PROVE Matched(<<>>, <<>>, flags, 0)
<1>1. \A b \in flags : b \in Nat
  BY BanksAssumption DEF Flagged
<1>2. \A b \in flags : ~(RealBank(b) < 0)
  BY <1>1, BankTables
<1>3. {b \in flags : RealBank(b) < 0} = {}
  BY <1>2
<1>4. Cardinality({b \in flags : RealBank(b) < 0}) = 0
  BY <1>3, FS_EmptySet
<1> DEFINE e == <<>>
<1>5. e \in Seq(Nat) /\ Len(e) = 0 /\ 1..0 = {}
  OBVIOUS
<1> HIDE DEF e
<1>6. Matched(e, e, flags, 0)
  BY <1>2, <1>4, <1>5 DEF Matched
<1> QED BY <1>6 DEF e

LEMMA MatchedStep ==
    ASSUME NEW flags \in Flagged, NEW p, NEW q, NEW k \in Nat, Matched(p, q, flags, k)
    PROVE  /\ BankOrder(k) \in flags =>
                Matched(Append(p, k), Append(q, BankOrder(k)), flags, k + 1)
           /\ BankOrder(k) \notin flags => Matched(p, q, flags, k + 1)
<1> DEFINE c == BankOrder(k)
           C(j) == {b \in flags : RealBank(b) < j}
<1>1. flags \in SUBSET Nat /\ IsFiniteSet(flags)
  <2>1. IsFiniteSet(0..(Banks - 1))
    BY BanksAssumption, FS_Interval
  <2>2. IsFiniteSet(flags)
    BY <2>1, FS_Subset DEF Flagged
  <2>3. \A b \in 0..(Banks - 1) : b \in Nat
    BY BanksAssumption
  <2> QED BY <2>2, <2>3 DEF Flagged
<1>2. c \in Nat /\ RealBank(c) = k /\ (\A b \in Nat : RealBank(b) \in Nat /\ (RealBank(b) = k => b = c))
  BY BankTables
<1>3. /\ p \in Seq(Nat) /\ q \in Seq(Nat) /\ Len(q) = Len(p)
      /\ \A i \in 1..Len(p) : p[i] < k /\ q[i] = BankOrder(p[i])
      /\ \A b \in flags : RealBank(b) < k => \E i \in 1..Len(p) : q[i] = b
      /\ Len(p) = Cardinality(C(k))
  BY DEF Matched
<1>4. \A b \in flags : RealBank(b) < k + 1 <=> (RealBank(b) < k \/ b = c)
  <2> SUFFICES ASSUME NEW b \in flags PROVE RealBank(b) < k + 1 <=> (RealBank(b) < k \/ b = c)
    OBVIOUS
  <2>1. b \in Nat /\ RealBank(b) \in Nat /\ (RealBank(b) = k <=> b = c)
    BY <1>1, <1>2
  <2> QED BY <2>1
<1> HIDE DEF c
<1>5. CASE c \in flags
  <2> DEFINE p2 == Append(p, k)
             q2 == Append(q, c)
             L == Len(p)
  <2>1. /\ p2 \in Seq(Nat) /\ q2 \in Seq(Nat) /\ Len(p2) = L + 1 /\ Len(q2) = L + 1 /\ L \in Nat
        /\ \A i \in 1..L : p2[i] = p[i] /\ q2[i] = q[i]
        /\ p2[L + 1] = k /\ q2[L + 1] = c
    <3>1. /\ p2 \in Seq(Nat) /\ Len(p2) = Len(p) + 1 /\ p2[Len(p) + 1] = k
          /\ \A i \in 1..Len(p) : p2[i] = p[i]
      <4>1. p \in Seq(Nat) /\ k \in Nat
        BY <1>3
      <4> QED BY <4>1, AppendProperties
    <3>2. /\ q2 \in Seq(Nat) /\ Len(q2) = Len(q) + 1 /\ q2[Len(q) + 1] = c
          /\ \A i \in 1..Len(q) : q2[i] = q[i]
      <4>1. q \in Seq(Nat) /\ c \in Nat
        BY <1>2, <1>3
      <4> QED BY <4>1, AppendProperties
    <3>3. Len(p) \in Nat
      BY <1>3
    <3> HIDE DEF p2, q2
    <3> QED BY <1>3, <3>1, <3>2, <3>3
  <2>2. C(k + 1) = C(k) \cup {c} /\ c \notin C(k) /\ IsFiniteSet(C(k))
    <3>1. IsFiniteSet(C(k))
      BY <1>1, FS_Subset
    <3>2. ~(RealBank(c) < k)
      BY <1>2
    <3> QED BY <1>4, <1>5, <3>1, <3>2
  <2>3. Cardinality(C(k + 1)) = L + 1
    <3> HIDE DEF C, L
    <3>1. Cardinality(C(k) \cup {c}) = Cardinality(C(k)) + 1
      BY <2>2, FS_AddElement
    <3> QED BY <1>3, <2>2, <3>1 DEF L
  <2> HIDE DEF p2, q2
  <2>4. \A i \in 1..(L + 1) : p2[i] < k + 1 /\ q2[i] = BankOrder(p2[i])
    <3> SUFFICES ASSUME NEW i \in 1..(L + 1) PROVE p2[i] < k + 1 /\ q2[i] = BankOrder(p2[i])
      OBVIOUS
    <3>1. CASE i = L + 1
      BY <2>1, <3>1 DEF c
    <3>2. CASE i # L + 1
      <4>1. i \in 1..L
        BY <2>1, <3>2
      <4>2. p[i] \in Nat /\ p[i] < k /\ q[i] = BankOrder(p[i])
        BY <1>3, <4>1
      <4>3. p2[i] = p[i] /\ q2[i] = q[i]
        BY <2>1, <4>1
      <4> DEFINE x == p[i]
      <4> HIDE DEF L, x
      <4>4. x \in Nat /\ x < k => x < k + 1
        OBVIOUS
      <4>5. x < k + 1 /\ p2[i] = x /\ q2[i] = BankOrder(x)
        BY <4>2, <4>3, <4>4 DEF x
      <4> QED BY <4>5
    <3> QED BY <3>1, <3>2
  <2>5. \A b \in flags : RealBank(b) < k + 1 => \E i \in 1..(L + 1) : q2[i] = b
    <3> SUFFICES ASSUME NEW b \in flags, RealBank(b) < k + 1 PROVE \E i \in 1..(L + 1) : q2[i] = b
      OBVIOUS
    <3>1. CASE b = c
      <4>1. L + 1 \in 1..(L + 1)
        BY <2>1
      <4> QED BY <2>1, <3>1, <4>1
    <3>2. CASE RealBank(b) < k
      <4>1. PICK i \in 1..L : q[i] = b
        BY <1>3, <3>2
      <4>2. q2[i] = b
        BY <2>1, <4>1
      <4>3. L \in Nat
        BY <2>1
      <4> HIDE DEF L
      <4>4. i \in 1..(L + 1)
        BY <4>1, <4>3
      <4> QED BY <4>2, <4>4
    <3> QED BY <1>4, <3>1, <3>2
  <2>6. Matched(p2, q2, flags, k + 1)
    <3> HIDE DEF L
    <3> QED BY <2>1, <2>3, <2>4, <2>5 DEF Matched
  <2> QED BY <1>5, <2>6 DEF p2, q2, c
<1>6. CASE c \notin flags
  <2>1. C(k + 1) = C(k)
    BY <1>4, <1>6
  <2>2. ASSUME NEW i \in 1..Len(p) PROVE p[i] < k + 1 /\ q[i] = BankOrder(p[i])
    <3>1. p[i] \in Nat /\ p[i] < k /\ q[i] = BankOrder(p[i])
      BY <1>3
    <3> DEFINE x == p[i]
    <3> HIDE DEF x
    <3>2. x \in Nat /\ x < k => x < k + 1
      OBVIOUS
    <3> QED BY <3>1, <3>2 DEF x
  <2>3. \A b \in flags : RealBank(b) < k + 1 => \E i \in 1..Len(p) : q[i] = b
    BY <1>3, <1>4, <1>6
  <2>4. Matched(p, q, flags, k + 1)
    BY <1>3, <2>1, <2>2, <2>3 DEF Matched
  <2> QED BY <1>6, <2>4 DEF c
<1> QED BY <1>5, <1>6


\* The blocks of the file and the banks the machine fills with them.
InFile(flags) == Keep([k \in 1..Banks |-> k - 1], {i \in 0..(Banks - 1) : BankOrder(i) \in flags})
Filled(flags) == Keep(LoadOrder, flags)

LEMMA FileMatches ==
    ASSUME NEW flags \in Flagged
    PROVE  Matched(InFile(flags), Filled(flags), flags, Banks)
<1> DEFINE seq == [k \in 1..Banks |-> k - 1]
           S == {i \in 0..(Banks - 1) : BankOrder(i) \in flags}
<1>1. Banks \in Nat
  BY BanksAssumption
<1>2. Len(seq) = Banks /\ \A k \in 1..Banks : seq[k] = k - 1
  BY <1>1
<1>3. PICK f : KeptBy(f, seq, S, Banks) /\ Keep(seq, S) = f[Banks]
  <2> HIDE DEF seq, S
  <2> QED BY <1>1, <1>2, KeepRun
<1>4. PICK g : KeptBy(g, LoadOrder, flags, Banks) /\ Keep(LoadOrder, flags) = g[Banks]
  BY <1>1, LoadOrderIs, KeepRun
<1> DEFINE K == {k \in Nat : k <= Banks => Matched(f[k], g[k], flags, k)}
<1>5. 0 \in K
  BY <1>3, <1>4, MatchedStart DEF KeptBy
<1>6. ASSUME NEW k \in Nat, k \in K PROVE k + 1 \in K
  <2>1. SUFFICES ASSUME k + 1 <= Banks PROVE Matched(f[k + 1], g[k + 1], flags, k + 1)
    OBVIOUS
  <2>2. k + 1 \in 1..Banks /\ (k + 1) - 1 = k /\ k \in 0..(Banks - 1) /\ k <= Banks
    BY <1>1, <2>1
  <2>3. seq[k + 1] = k /\ LoadOrder[k + 1] = BankOrder(k)
    BY <1>2, <2>2, LoadOrderIs
  <2>4. k \in S <=> BankOrder(k) \in flags
    BY <2>2
  <2> HIDE DEF seq, S
  <2>5. f[k + 1] = IF seq[k + 1] \in S THEN Append(f[k], seq[k + 1]) ELSE f[k]
    BY <1>3, <2>2 DEF KeptBy
  <2>6. g[k + 1] = IF LoadOrder[k + 1] \in flags THEN Append(g[k], LoadOrder[k + 1]) ELSE g[k]
    BY <1>4, <2>2 DEF KeptBy
  <2>7. Matched(f[k], g[k], flags, k)
    BY <1>6, <2>2
  <2>8. /\ BankOrder(k) \in flags =>
             Matched(Append(f[k], k), Append(g[k], BankOrder(k)), flags, k + 1)
        /\ BankOrder(k) \notin flags => Matched(f[k], g[k], flags, k + 1)
    BY <2>7, MatchedStep
  <2> QED BY <2>3, <2>4, <2>5, <2>6, <2>8
<1>7. Banks \in K
  <2>1. Nat \subseteq K
    <3> HIDE DEF K
    <3> QED BY <1>5, <1>6, NatSetInduction
  <2> QED BY <1>1, <2>1
<1>8. Matched(f[Banks], g[Banks], flags, Banks)
  BY <1>1, <1>7
<1> QED BY <1>3, <1>4, <1>8 DEF InFile, Filled

BlockCells == [0..(Bank - 1) -> {Blank} \cup Cells]

LEMMA BlockTyped ==
    ASSUME NEW n \in Creators, NEW i \in Nat
    PROVE  /\ Block(n, i) \in BlockCells
           /\ \A c \in 0..(Bank - 1) : Block(n, i)[c] =
                IF i * Bank + c \in DOMAIN n.big THEN n.big[i * Bank + c] ELSE Blank
<1> DEFINE at(c) == i * Bank + c
           B == 0..(Bank - 1)
<1>1. \A o \in DOMAIN n.big : n.big[o] \in Cells
  BY ImageDomain
<1>2. Block(n, i) = [c \in B |-> IF at(c) \in DOMAIN n.big THEN n.big[at(c)] ELSE Blank]
  BY DEF Block
<1> HIDE DEF at, B
<1>3. Block(n, i) \in [B -> {Blank} \cup Cells]
  BY <1>1, <1>2
<1>4. \A c \in B : Block(n, i)[c] = IF at(c) \in DOMAIN n.big THEN n.big[at(c)] ELSE Blank
  BY <1>2
<1> QED BY <1>3, <1>4 DEF at, B, BlockCells

\* The file has the shape of one, a block for every bank flagged, and the
\* machine that loads it has in each of these banks what the image has there.
LEMMA Written ==
    ASSUME NEW n \in Creators
    PROVE  /\ GenerateFile(n) \in Nexes
           /\ GenerateFile(n).flags = n.flags /\ GenerateFile(n).pc = n.pc
           /\ Len(GenerateFile(n).blocks) = Cardinality(n.flags)
           /\ \A b \in n.flags : Loaded(GenerateFile(n))[b] = Block(n, RealBank(b))
<1> DEFINE p == InFile(n.flags)
           q == Filled(n.flags)
           blocks == [k \in DOMAIN p |-> Block(n, p[k])]
           screens == {<<kind, IF kind \in DOMAIN n.shots THEN n.shots[kind] ELSE Blank>> :
                         kind \in n.screens}
           x == [flags |-> n.flags, blocks |-> blocks, screens |-> screens,
                 pc |-> n.pc, sp |-> n.sp, entry |-> n.entry]
<1>0. n.flags \in Flagged /\ n.shots \in Shots /\ n.screens \in SUBSET Kinds
      /\ n.pc \in Nat /\ n.sp \in Nat \X Int /\ n.entry \in Nat
  BY DEF Creators
<1>1. GenerateFile(n) = x
  BY DEF GenerateFile, InFile
<1>2. Matched(p, q, n.flags, Banks)
  BY <1>0, FileMatches
<1> HIDE DEF p, q
<1>3. /\ p \in Seq(Nat) /\ q \in Seq(Nat) /\ Len(q) = Len(p)
      /\ \A i \in 1..Len(p) : q[i] = BankOrder(p[i])
      /\ \A b \in n.flags : RealBank(b) < Banks => \E i \in 1..Len(p) : q[i] = b
      /\ Len(p) = Cardinality({b \in n.flags : RealBank(b) < Banks})
  BY <1>2 DEF Matched
<1>4. \A b \in n.flags : b \in Nat /\ RealBank(b) < Banks
  <2>1. \A b \in 0..(Banks - 1) : b \in Nat /\ b < Banks
    BY BanksAssumption
  <2> QED BY <1>0, <2>1, BankTables DEF Flagged
<1>5. Len(p) = Cardinality(n.flags)
  <2>1. {b \in n.flags : RealBank(b) < Banks} = n.flags
    BY <1>4
  <2> QED BY <1>3, <2>1
<1>6. DOMAIN p = 1..Len(p) /\ DOMAIN q = 1..Len(p) /\ Len(p) \in Nat
      /\ \A i \in 1..Len(p) : p[i] \in Nat
  <2>1. \A r \in Seq(Nat) : DOMAIN r = 1..Len(r) /\ Len(r) \in Nat /\ \A i \in 1..Len(r) : r[i] \in Nat
    OBVIOUS
  <2>2. DOMAIN q = 1..Len(q) /\ Len(q) = Len(p)
    BY <1>3, <2>1
  <2> QED BY <1>3, <2>1, <2>2
<1>7. blocks \in Seq(BlockCells) /\ Len(blocks) = Len(p)
      /\ \A i \in 1..Len(p) : blocks[i] = Block(n, p[i])
  <2>1. \A i \in 1..Len(p) : Block(n, p[i]) \in BlockCells
    BY <1>6, BlockTyped
  <2> DEFINE L == Len(p)
  <2>2. blocks = [k \in 1..L |-> Block(n, p[k])] /\ L \in Nat
    BY <1>6
  <2> HIDE DEF blocks, L
  <2> QED BY <2>1, <2>2 DEF L
<1>8. screens \in SUBSET (Kinds \X ({Blank} \cup Names))
  <2>1. \A k \in DOMAIN n.shots : n.shots[k] \in Names
    <3>1. PICK D \in SUBSET Kinds : n.shots \in [D -> Names]
      BY <1>0 DEF Shots
    <3> QED BY <3>1
  <2> QED BY <1>0, <2>1
<1> HIDE DEF blocks, screens
<1>9. x \in Nexes
  BY <1>0, <1>7, <1>8 DEF Nexes, Flagged, BlockCells
<1>10. ASSUME NEW b \in n.flags PROVE Loaded(x)[b] = Block(n, RealBank(b))
  <2> DEFINE k == CHOOSE k \in DOMAIN q : q[k] = b
  <2>1. k \in 1..Len(p) /\ q[k] = b
    <3>1. \E i \in 1..Len(p) : q[i] = b
      BY <1>3, <1>4
    <3>2. \E i \in DOMAIN q : q[i] = b
      BY <1>6, <3>1
    <3>3. k \in DOMAIN q /\ q[k] = b
      BY <3>2
    <3> QED BY <1>6, <3>3
  <2>2. Loaded(x)[b] = IF k <= Len(blocks) THEN blocks[k] ELSE Blank
    BY DEF Loaded, Filled, q
  <2> HIDE DEF k
  <2>3. k <= Len(blocks)
    BY <1>6, <1>7, <2>1
  <2>4. Loaded(x)[b] = Block(n, p[k])
    BY <1>7, <2>1, <2>2, <2>3
  <2>5. p[k] = RealBank(b)
    <3>1. b = BankOrder(p[k]) /\ p[k] \in Nat
      BY <1>3, <1>6, <2>1
    <3> QED BY <3>1, BankTables
  <2> QED BY <2>4, <2>5
<1>11. x.flags = n.flags /\ x.pc = n.pc /\ x.blocks = blocks
  OBVIOUS
<1> HIDE DEF x
<1> QED BY <1>1, <1>5, <1>7, <1>9, <1>10, <1>11


\* What is kept is in the set.
LEMMA KeepMembers ==
    ASSUME NEW seq, NEW S, NEW n \in Nat, Len(seq) = n
    PROVE  Keep(seq, S) \in Seq(S)
<1>1. PICK f : KeptBy(f, seq, S, n) /\ Keep(seq, S) = f[n]
  BY KeepRun
<1> DEFINE K == {k \in Nat : k <= n => f[k] \in Seq(S)}
<1>2. 0 \in K
  <2>1. f[0] = <<>>
    BY <1>1 DEF KeptBy
  <2>2. <<>> \in Seq(S)
    OBVIOUS
  <2> QED BY <2>1, <2>2
<1>3. ASSUME NEW k \in Nat, k \in K PROVE k + 1 \in K
  <2>1. SUFFICES ASSUME k + 1 <= n PROVE f[k + 1] \in Seq(S)
    OBVIOUS
  <2>2. k + 1 \in 1..n /\ (k + 1) - 1 = k /\ k <= n
    BY <2>1
  <2>3. f[k] \in Seq(S)
    BY <1>3, <2>2
  <2>4. f[k + 1] = IF seq[k + 1] \in S THEN Append(f[k], seq[k + 1]) ELSE f[k]
    BY <1>1, <2>2 DEF KeptBy
  <2> QED BY <2>3, <2>4, AppendProperties
<1>4. n \in K
  <2>1. Nat \subseteq K
    <3> HIDE DEF K
    <3> QED BY <1>2, <1>3, NatSetInduction
  <2> QED BY <2>1
<1> QED BY <1>1, <1>4

-----------------------------------------------------------------------------
(* Files of the folder and lines written by nextbuild.py.                  *)

CopiesOf(t) == \A x \in DOMAIN t : x \in {"tr"} \X STRING /\ t[x] \in Copies

LEMMA DiskTyped ==
    ASSUME Typed, CopiesOf(trims)
    PROVE  Folder(OnDisk)
<1> SUFFICES ASSUME NEW name \in DOMAIN OnDisk PROVE OnDisk[name] \in Seq(Cells)
  BY DEF Folder
<1> DEFINE bins == {<<"bin", u>> : u \in {v \in Units : bin[v] # None}}
           whole == Parts[trims[name].file]
<1>1. name \in DOMAIN Parts \/ name \in DOMAIN trims \/ name \in bins
  BY DEF OnDisk
<1>2. OnDisk[name] = CASE name[1] = "part" -> Parts[name]
                       [] name[1] = "bin"  -> Code(bin[name[2]])
                       [] name[1] = "tr"   -> SubSeq(whole, trims[name].from + 1, Len(whole))
  BY DEF OnDisk
<1>3. \A c \in STRING \X Nat : c \in Cells
  BY DEF Cells
<1>4. CASE name \in DOMAIN Parts
  <2>1. name \in Part /\ Parts[name] \in Seq(STRING \X Nat)
    BY <1>4, PartsAssumption
  <2>2. name[1] = "part"
    BY <2>1 DEF Part
  <2>3. OnDisk[name] = Parts[name]
    BY <1>2, <2>2
  <2>4. Parts[name] \in Seq(Cells)
    BY <1>3, <2>1
  <2> QED BY <2>3, <2>4
<1>5. CASE name \in bins
  <2>1. PICK u \in Units : name = <<"bin", u>> /\ bin[u] # None
    BY <1>5
  <2>2. name[1] = "bin" /\ name[2] = u
    BY <2>1
  <2>3. OnDisk[name] = Code(bin[u])
    BY <1>2, <2>2
  <2>4. bin[u] \in Binaries
    BY <2>1 DEF Typed
  <2> DEFINE b == bin[u]
  <2>5. b.unit \in Units /\ b.ver \in Nat /\ b.size \in Nat
    BY <2>4, VersionAssumption DEF Binaries
  <2>6. \A n \in 1..b.size : <<b.unit, b.ver, n>> \in Cells
    BY <2>5 DEF Cells
  <2>7. Code(b) \in Seq(Cells)
    <3> DEFINE c(n) == <<b.unit, b.ver, n>>
               N == b.size
    <3>1. N \in Nat /\ \A n \in 1..N : c(n) \in Cells
      BY <2>5, <2>6
    <3>2. Code(b) = [n \in 1..N |-> c(n)]
      BY DEF Code
    <3> HIDE DEF c, N
    <3> QED BY <3>1, <3>2
  <2> QED BY <2>3, <2>7
<1>6. CASE name \in DOMAIN trims
  <2>1. name \in {"tr"} \X STRING /\ trims[name] \in Copies
    BY <1>6 DEF CopiesOf
  <2>2. name[1] = "tr"
    BY <2>1
  <2>3. OnDisk[name] = SubSeq(whole, trims[name].from + 1, Len(whole))
    BY <1>2, <2>2
  <2>10. trims[name].file \in DOMAIN Parts /\ trims[name].from \in Nat
    BY <2>1 DEF Copies
  <2>4. whole \in Seq(STRING \X Nat)
    BY <2>10, PartsAssumption
  <2> HIDE DEF whole
  <2> DEFINE m == trims[name].from + 1
             n == Len(whole)
  <2>5. m \in Int /\ n \in Int /\ \A i \in m..n : whole[i] \in Cells
    <3>1. m \in Nat /\ m >= 1 /\ n \in Nat
      BY <2>4, <2>10
    <3>2. \A i \in m..n : i \in 1..n
      <4> HIDE DEF m, n
      <4> QED BY <3>1
    <3>3. \A i \in 1..n : whole[i] \in STRING \X Nat
      BY <2>4
    <3> HIDE DEF m, n
    <3> QED BY <1>3, <3>1, <3>2, <3>3
  <2> HIDE DEF m, n
  <2>6. SubSeq(whole, m, n) \in Seq(Cells)
    BY <2>5, SubSeqProperties
  <2> QED BY <2>3, <2>6 DEF m, n
<1> QED BY <1>1, <1>4, <1>5, <1>6

\* The four windows of the processor.
LEMMA WindowOf ==
    ASSUME NEW org \in Address
    PROVE  /\ org \div Bank \in {0, 1, 2, 3} /\ org % Bank \in Nat /\ org % Bank < Bank
           /\ org = Bank * (org \div Bank) + (org % Bank)
           /\ RamBank(org) \in Nat /\ RamBank(org) < 8
<1>1. org \in Nat /\ org < 8 * Page
  BY DEF Address
<1>2. 8 * Page = Bank * 4
  BY BankFacts
<1> DEFINE q == org \div Bank
           r == org % Bank
<1>3. q \in Nat /\ r \in Nat /\ r < Bank /\ org = Bank * q + r
  BY <1>1, BankFacts, Division
<1> HIDE DEF q, r
<1>4. q < 4
  <2>1. SUFFICES ASSUME q >= 4 PROVE FALSE
    BY <1>3
  <2>2. Bank * q >= Bank * 4
    BY <1>3, <2>1, BankFacts
  <2> QED BY <1>1, <1>2, <1>3, <2>2, BankFacts
<1>5. q = 0 \/ q = 1 \/ q = 2 \/ q = 3
  BY <1>3, <1>4
<1>6. RamBank(org) \in {5, 2, 0, 7}
  BY <1>5 DEF RamBank, q
<1> QED BY <1>3, <1>5, <1>6 DEF q, r


\* The program is the last line of a configuration.
BinLine(s, u) == [op |-> "file", file |-> <<"bin", u>>, bank |-> RamBank(s.org), addr |-> s.org % Bank]

LEMMA LoadLineTyped ==
    ASSUME NEW l \in LoadLines
    PROVE  LoadLine(l) \in [op : {"mmu"}, file : Names, page : Nat, addr : Nat]
<1>1. l.file \in Part /\ l.addr \in Nat /\ l.page \in Nat
  BY DEF LoadLines
<1>2. l.addr % Page \in Nat
  BY <1>1, BankFacts, Division
<1>3. l.file \in Names /\ Trimmed(l.file) \in Names
  <2>1. l.file \in {"part"} \X STRING \X STRING
    BY <1>1 DEF Part
  <2>2. l.file[2] \in STRING
    BY <2>1
  <2> QED BY <1>1, <2>2 DEF Names, Trimmed
<1> DEFINE f == IF l.from > 0 THEN Trimmed(l.file) ELSE l.file
<1>4. f \in Names
  BY <1>3
<1>5. LoadLine(l) = [op |-> "mmu", page |-> l.page, addr |-> l.addr % Page, file |-> f]
  BY DEF LoadLine
<1> HIDE DEF f
<1> QED BY <1>1, <1>2, <1>4, <1>5

LEMMA CfgTyped ==
    ASSUME Typed, NEW s \in Settings, NEW u \in Units, NEW input \in Units
    PROVE  \E q \in Seq(CfgLines) : /\ NexCfg(s, u, input) = q \o <<BinLine(s, u)>>
                                    /\ BinLine(s, u) \in CfgLines
                                    /\ NexCfg(s, u, input) \in Seq(CfgLines)
<1> DEFINE loads == src[input].prog.loads
           A == IF s.noSys THEN <<>> ELSE <<SysVarsLine>>
           B == IF s.bmp = None THEN <<>> ELSE <<[op |-> "bmp", file |-> s.bmp]>>
           L == [k \in DOMAIN loads |-> LoadLine(loads[k])]
           pcsp == IF s.pcadd = 0 THEN [op |-> "pcsp", pc |-> 0, sp |-> <<0, 0>>]
                        ELSE [op |-> "pcsp", pc |-> s.org, sp |-> <<s.org, -2>>]
           q == A \o B \o L \o <<pcsp>>
           last == BinLine(s, u)
<1>0. s.org \in Address /\ s.org \in Nat /\ (s.bmp = None \/ s.bmp \in Part)
  BY DEF Settings, Address
<1>1. A \in Seq(CfgLines)
  <2>1. (7 * Page) \div 8 \in Nat
    <3> DEFINE t == 7 * Page
    <3>1. t \in Nat
      BY BankFacts
    <3> HIDE DEF t
    <3>2. t \div 8 \in Nat
      BY <3>1
    <3> QED BY <3>2 DEF t
  <2>2. SysVars \in Names
    BY PartsAssumption DEF Names
  <2>3. SysVarsLine \in CfgLines
    BY <2>1, <2>2 DEF SysVarsLine, CfgLines
  <2> QED BY <2>3
<1>2. B \in Seq(CfgLines)
  <2>1. s.bmp # None => s.bmp \in Names
    BY <1>0 DEF Names
  <2>2. s.bmp # None => [op |-> "bmp", file |-> s.bmp] \in CfgLines
    BY <2>1 DEF CfgLines, Kinds
  <2> QED BY <2>2
<1>3. L \in Seq(CfgLines)
  <2>1. loads \in Seq(LoadLines)
    BY DEF Typed, Program
  <2> DEFINE N == Len(loads)
  <2>2. N \in Nat /\ DOMAIN loads = 1..N /\ \A k \in 1..N : loads[k] \in LoadLines
    <3> HIDE DEF loads
    <3> QED BY <2>1
  <2> HIDE DEF loads, N
  <2>3. \A k \in 1..N : LoadLine(loads[k]) \in CfgLines
    BY <2>2, LoadLineTyped DEF CfgLines
  <2>4. L = [k \in 1..N |-> LoadLine(loads[k])]
    BY <2>2
  <2> HIDE DEF L
  <2> QED BY <2>2, <2>3, <2>4
<1>4. pcsp \in CfgLines
  <2>1. <<0, 0>> \in Nat \X Int /\ <<s.org, -2>> \in Nat \X Int
    BY <1>0
  <2> QED BY <1>0, <2>1 DEF CfgLines
<1>5. last \in CfgLines
  <2>1. <<"bin", u>> \in Names
    BY DEF Names
  <2>2. RamBank(s.org) \in Nat /\ s.org % Bank \in Nat
    BY <1>0, WindowOf
  <2> QED BY <2>1, <2>2 DEF BinLine, CfgLines
<1>6. NexCfg(s, u, input) = q \o <<last>>
  BY DEF NexCfg, BinLine
<1> HIDE DEF A, B, L, pcsp, last
<1>7. q \in Seq(CfgLines)
  <2>1. <<pcsp>> \in Seq(CfgLines)
    BY <1>4
  <2>2. A \o B \in Seq(CfgLines)
    BY <1>1, <1>2, ConcatProperties
  <2>3. A \o B \o L \in Seq(CfgLines)
    BY <1>3, <2>2, ConcatProperties
  <2> QED BY <2>1, <2>3, ConcatProperties
<1> HIDE DEF q
<1>8. <<last>> \in Seq(CfgLines)
  BY <1>5
<1>9. q \o <<last>> \in Seq(CfgLines)
  BY <1>7, <1>8, ConcatProperties
<1> QED BY <1>5, <1>6, <1>7, <1>9 DEF last

Trims(base, seq) ==
    FoldLeft(LAMBDA t, l : IF l.from > 0 THEN Store(t, Trimmed(l.file), Cut(l)) ELSE t, base, seq)

LEMMA TrimRun ==
    ASSUME NEW base, NEW seq, NEW n \in Nat, DOMAIN seq = 1..n, Len(seq) = n
    PROVE  \E h : Run(h, "trim", 0, base, seq) /\ Trims(base, seq) = h[n]
<1> DEFINE F(t, l) == IF l.from > 0 THEN Store(t, Trimmed(l.file), Cut(l)) ELSE t
           Body(g) == g = [s \in SUBSET DOMAIN seq |->
                IF s = {} THEN base ELSE F(g[s \ {Max(s)}], seq[Max(s)])]
           f == CHOOSE g : Body(g)
<1>1. Trims(base, seq) = f[DOMAIN seq]
  BY DEF Trims, FoldLeft, MapThenFoldSet
<1>2. \A g : Body(g) <=> Folding(g, "trim", 0, base, seq)
  BY DEF Folding, FoldStep
<1>3. Folding(f, "trim", 0, base, seq)
  <2>1. \E g : Folding(g, "trim", 0, base, seq)
    BY FoldingDefined
  <2>2. \E g : Body(g)
    BY <1>2, <2>1
  <2>3. Body(f)
    <3> HIDE DEF Body
    <3> QED BY <2>2
  <2> QED BY <1>2, <2>3
<1> HIDE DEF f
<1> QED BY <1>1, <1>3, FoldingRuns

\* Copies are made of parts that are there.
LEMMA TrimsTyped ==
    ASSUME Typed, CopiesOf(trims), NEW input \in Units, NEW k \in Nat,
           k >= 1, k <= Len(src[input].prog.loads) + 1,
           \A j \in 1..(k - 1) : src[input].prog.loads[j].file \in DOMAIN Parts
    PROVE  CopiesOf(TrimsBefore(input, k))
<1> DEFINE loads == src[input].prog.loads
           seq == SubSeq(loads, 1, k - 1)
           n == k - 1
<1>1. loads \in Seq(LoadLines)
  BY DEF Typed, Program
<1>2. /\ seq \in Seq(LoadLines) /\ Len(seq) = n /\ n \in Nat /\ DOMAIN seq = 1..n
      /\ \A j \in 1..n : seq[j] = loads[j] /\ loads[j] \in LoadLines
  <2> HIDE DEF loads
  <2>1. n \in Nat /\ n <= Len(loads)
    BY <1>1 DEF loads
  <2>2. \A j \in 1..n : loads[j] \in LoadLines
    BY <1>1, <2>1
  <2> HIDE DEF n
  <2>3. SubSeq(loads, 1, n) \in Seq(LoadLines) /\ Len(SubSeq(loads, 1, n)) = n
        /\ \A j \in 1..n : SubSeq(loads, 1, n)[j] = loads[j]
    BY <1>1, <2>1
  <2> QED BY <2>1, <2>2, <2>3 DEF n
<1>3. TrimsBefore(input, k) = Trims(trims, seq)
  BY DEF TrimsBefore, Trims
<1>4. \A j \in 1..n : loads[j].file \in DOMAIN Parts
  OBVIOUS
<1> HIDE DEF seq, loads, n
<1>5. PICK h : /\ Run(h, "trim", 0, trims, seq)
               /\ TrimsBefore(input, k) = h[n]
  <2>1. \E h : Run(h, "trim", 0, trims, seq) /\ Trims(trims, seq) = h[n]
    BY <1>2, TrimRun
  <2> QED BY <1>3, <2>1
<1> DEFINE K == {j \in Nat : j <= n => CopiesOf(h[j])}
<1>6. 0 \in K
  BY <1>5 DEF Run
<1>7. ASSUME NEW j \in Nat, j \in K PROVE j + 1 \in K
  <2>1. SUFFICES ASSUME j + 1 <= n PROVE CopiesOf(h[j + 1])
    OBVIOUS
  <2>2. j + 1 \in 1..n /\ (j + 1) - 1 = j /\ j <= n
    BY <1>2, <2>1
  <2> DEFINE t == h[j]
             l == seq[j + 1]
  <2>3. CopiesOf(t)
    BY <1>7, <2>2
  <2>4. h[j + 1] = IF l.from > 0 THEN Store(t, Trimmed(l.file), Cut(l)) ELSE t
    BY <1>2, <1>5, <2>2 DEF Run, FoldStep
  <2>5. l \in LoadLines /\ l.file \in DOMAIN Parts
    BY <1>2, <1>4, <2>2
  <2> HIDE DEF t, l
  <2>6. l.from > 0 => CopiesOf(Store(t, Trimmed(l.file), Cut(l)))
    <3> DEFINE c == Trimmed(l.file)
               v == Cut(l)
    <3>1. l.file \in {"part"} \X STRING \X STRING /\ l.from \in Nat
      BY <2>5 DEF LoadLines, Part
    <3>2. c \in {"tr"} \X STRING
      <4>1. l.file[2] \in STRING
        BY <3>1
      <4> QED BY <4>1 DEF Trimmed
    <3>3. l.from > 0 => v \in Copies
      BY <2>5, <3>1 DEF Cut, Copies
    <3> HIDE DEF c, v
    <3> SUFFICES ASSUME l.from > 0, NEW x \in DOMAIN Store(t, c, v)
                 PROVE  x \in {"tr"} \X STRING /\ Store(t, c, v)[x] \in Copies
      BY DEF CopiesOf, c, v
    <3>4. x = c \/ x \in DOMAIN t
      BY DEF Store, Over
    <3>5. CASE x = c
      <4>1. Store(t, c, v)[x] = v
        BY <3>5 DEF Store, Over
      <4> QED BY <3>2, <3>3, <3>5, <4>1
    <3>6. CASE x \in DOMAIN t /\ x # c
      <4>1. Store(t, c, v)[x] = t[x]
        BY <3>6 DEF Store, Over
      <4> QED BY <2>3, <3>6, <4>1 DEF CopiesOf
    <3> QED BY <3>4, <3>5, <3>6
  <2> QED BY <2>3, <2>4, <2>6
<1>8. n \in K
  <2>1. Nat \subseteq K
    <3> HIDE DEF K
    <3> QED BY <1>6, <1>7, NatSetInduction
  <2> QED BY <1>2, <2>1
<1> QED BY <1>2, <1>5, <1>8


-----------------------------------------------------------------------------
(* Every file keeps its shape.                                             *)

\* What nextcreator.py makes of lines.
LEMMA PackedTyped ==
    ASSUME Typed, FilesTyped, NEW lines \in Seq(CfgLines)
    PROVE  LET n == ParseFile(lines, OnDisk)
               x == GenerateFile(n) IN
           /\ n \in Creators /\ x \in Nexes /\ x # None
           /\ x.flags \subseteq 0..(Banks - 1) /\ Len(x.blocks) = Cardinality(x.flags)
<1>1. Folder(OnDisk)
  <2>1. CopiesOf(trims)
    BY DEF FilesTyped, CopiesOf
  <2> QED BY <2>1, DiskTyped
<1> DEFINE N == Len(lines)
<1>2. N \in Nat
  OBVIOUS
<1>3. PICK h : Parsing(h, lines, OnDisk)
  BY <1>1, ParseRun
<1>4. ParseFile(lines, OnDisk) \in Creators
  <2>1. N \in 0..N
    BY <1>2
  <2> QED BY <1>3, <2>1 DEF Parsing
<1> DEFINE n == ParseFile(lines, OnDisk)
           x == GenerateFile(n)
<1> HIDE DEF n
<1>5. /\ x \in Nexes /\ x.flags = n.flags /\ Len(x.blocks) = Cardinality(n.flags)
  BY <1>4, Written DEF n
<1>6. n.flags \subseteq 0..(Banks - 1)
  BY <1>4 DEF n, Creators, Flagged
<1> HIDE DEF x
<1> QED BY <1>4, <1>5, <1>6, NoneAssumption DEF n, x

LEMMA PackedKept ==
    ASSUME FilesTyped, BlocksFlagged, NEW u \in Units, NEW x \in Nexes,
           x.flags \subseteq 0..(Banks - 1), Len(x.blocks) = Cardinality(x.flags),
           nex' = [nex EXCEPT ![u] = x]
    PROVE  nex' \in [Units -> {None} \cup Nexes] /\ BlocksFlagged'
<1>1. nex \in [Units -> {None} \cup Nexes]
  BY DEF FilesTyped
<1>2. nex'[u] = x /\ \A v \in Units : v # u => nex'[v] = nex[v]
  BY <1>1
<1>3. BlocksFlagged'
  BY <1>2 DEF BlocksFlagged
<1> QED BY <1>1, <1>3

\* The part of FilesTyped that is not about NEX files.
Others == /\ cfg \in [Units -> {None} \cup Seq(CfgLines)]
          /\ dest \in {None} \cup Binaries \cup Nexes
          /\ CopiesOf(trims)
          /\ done \in {None, -1, 0, 1} /\ emu \in Units \cup {None}

LEMMA FilesSplit == FilesTyped <=> Others /\ nex \in [Units -> {None} \cup Nexes]
  BY DEF FilesTyped, Others, CopiesOf

LEMMA TrimsStep ==
    ASSUME Typed, CopiesOf(trims), ParseNEXCfgMissing \/ ParseNEXCfg
    PROVE  CopiesOf(trims')
<1>1. job # None /\ job \in Jobs
  BY DEF Typed, ParseNEXCfgMissing, ParseNEXCfg, At
<1>2. job.input \in Units
  BY <1>1 DEF Jobs
<1> DEFINE input == job.input
           loads == src[input].prog.loads
           M == Missing(input)
<1>3. loads \in Seq(LoadLines)
  BY <1>2 DEF Typed, Program
<1>4. M = {k \in DOMAIN loads : loads[k].file \notin DOMAIN Parts}
  BY DEF Missing
<1> HIDE DEF loads, M, input
<1>5. DOMAIN loads = 1..Len(loads) /\ Len(loads) \in Nat
  BY <1>3
<1>6. CASE ParseNEXCfgMissing
  <2> DEFINE k == CHOOSE k \in M : \A j \in M : k <= j
  <2>1. M # {} /\ trims' = TrimsBefore(input, k)
    BY <1>6 DEF ParseNEXCfgMissing, M, input
  <2>2. k \in M /\ \A j \in M : k <= j
    <3>1. M \in SUBSET Nat
      BY <1>4, <1>5
    <3>2. \E m \in M : \A j \in M : m <= j
      BY <2>1, <3>1, LeastMember
    <3> QED BY <3>2
  <2> HIDE DEF k
  <2>3. k \in Nat /\ k >= 1 /\ k <= Len(loads) + 1
    BY <1>4, <1>5, <2>2
  <2>4. \A j \in 1..(k - 1) : loads[j].file \in DOMAIN Parts
    <3> SUFFICES ASSUME NEW j \in 1..(k - 1), loads[j].file \notin DOMAIN Parts PROVE FALSE
      OBVIOUS
    <3>1. k \in 1..Len(loads)
      BY <1>4, <1>5, <2>2
    <3>2. j \in 1..Len(loads) /\ j < k
      BY <1>5, <3>1
    <3>3. j \in M
      BY <1>4, <1>5, <3>2
    <3>4. k <= j
      BY <2>2, <3>3
    <3> QED BY <2>3, <3>2, <3>4
  <2> QED BY <1>2, <2>1, <2>3, <2>4, TrimsTyped DEF input, loads
<1>7. CASE ParseNEXCfg
  <2> DEFINE k == Len(loads) + 1
  <2>1. M = {} /\ trims' = TrimsBefore(input, k)
    BY <1>7 DEF ParseNEXCfg, M, input, loads
  <2>2. k \in Nat /\ k >= 1 /\ k <= Len(loads) + 1 /\ k - 1 = Len(loads)
    BY <1>5
  <2>3. \A j \in 1..(k - 1) : loads[j].file \in DOMAIN Parts
    BY <1>4, <1>5, <2>1, <2>2
  <2> HIDE DEF k
  <2> QED BY <1>2, <2>1, <2>2, <2>3, TrimsTyped DEF input, loads
<1> QED BY <1>6, <1>7

LEMMA OthersStep ==
    ASSUME TypedInv, FilesTyped, [Next]_vars
    PROVE  Others'
<1>0. Typed /\ Others /\ bin \in [Units -> Binaries \cup {None}]
      /\ nex \in [Units -> {None} \cup Nexes]
  BY FilesSplit DEF TypedInv, Typed
<1> USE <1>0
<1>1. CASE UNCHANGED <<cfg, dest, trims, done, emu>>
  BY <1>1 DEF Others
<1>2. ASSUME UNCHANGED <<cfg, dest, trims>>, done' \in {done, None, -1, 0, 1},
             emu' \in Units \cup {None}
      PROVE  Others'
  BY <1>2 DEF Others
<1>3. ASSUME NEW u \in Units, Edit(u) PROVE Others'
  BY <1>1, <1>3 DEF Edit, files
<1>4. ASSUME NEW u \in Units, NEW lines, RunNexCreator(u, lines) PROVE Others'
  BY <1>1, <1>4 DEF RunNexCreator
<1>5. ASSUME NEW u \in Units, BuildNext(u) PROVE Others'
  BY <1>2, <1>5 DEF BuildNext, files
<1>6. ASSUME NEW u \in Units, NEW f \in Flags, RunNextBuild(u, f) PROVE Others'
  BY <1>2, <1>6 DEF RunNextBuild, files
<1>7. ASSUME NEW u \in Units, NEW f \in {"m", "s", "e"}, RunBuild(u, f) PROVE Others'
  BY <1>2, <1>7 DEF RunBuild, files
<1>8. CASE JobStep
  <2>1. job # None /\ job \in Jobs
    BY <1>8, JobStepFrame DEF Typed
  <2>2. job.unit \in Units /\ job.input \in Units /\ job.set \in Settings
    BY <2>1 DEF Jobs
  <2>3. emu \in Units \cup {None}
    BY DEF Others
  <2>4. CASE Origin \/ ParseDirectives
    BY <1>1, <2>4 DEF Origin, ParseDirectives, files
  <2>5. CASE CompileFails \/ Compile \/ ParseNEXCfgModule
    BY <1>2, <2>3, <2>5 DEF CompileFails, Compile, ParseNEXCfgModule, Ended, Go, files
  <2>6. CASE ParseNEXCfgMissing
    <3>1. CopiesOf(trims')
      BY <2>6, TrimsStep DEF Others
    <3> QED BY <2>6, <3>1 DEF ParseNEXCfgMissing, Ended, Others, CopiesOf
  <2>7. CASE ParseNEXCfg
    <3>1. CopiesOf(trims')
      BY <2>7, TrimsStep DEF Others
    <3>2. NexCfg(job.set, job.unit, job.input) \in Seq(CfgLines)
      BY <2>2, CfgTyped
    <3>3. cfg' \in [Units -> {None} \cup Seq(CfgLines)]
      BY <2>7, <3>2 DEF ParseNEXCfg, Others
    <3> QED BY <2>7, <3>1, <3>3 DEF ParseNEXCfg, Go, Others, CopiesOf
  <2>8. CASE SkipNEXFile \/ CreateNEXFails \/ CreateNEXFile
    BY <1>2, <2>3, <2>8 DEF SkipNEXFile, CreateNEXFails, CreateNEXFile, Ended, Go, files
  <2>9. CASE CopyToDestination \/ CopyToDestinationFails
    <3>1. Copied \in {bin[job.unit], nex[job.unit]}
      BY DEF Copied
    <3>2. dest' \in {dest, bin[job.unit], nex[job.unit]}
      BY <2>9, <3>1 DEF CopyToDestination, CopyToDestinationFails
    <3>3. dest' \in {None} \cup Binaries \cup Nexes
      BY <2>2, <3>2 DEF Others
    <3> QED BY <2>9, <3>3 DEF CopyToDestination, CopyToDestinationFails, Ended, Go, Others
  <2>10. CASE AnythingToRun
    <3>1. emu' \in Units \cup {None}
      BY <2>2, <2>3, <2>10 DEF AnythingToRun, Settings
    <3> QED BY <1>2, <2>10, <3>1 DEF AnythingToRun, Ended, files
  <2>11. CASE Launch
    <3>1. emu' \in Units \cup {None}
      BY <2>2, <2>3, <2>11 DEF Launch
    <3> QED BY <1>2, <2>11, <3>1 DEF Launch, Ended, files
  <2> QED BY <1>8, <2>4, <2>5, <2>6, <2>7, <2>8, <2>9, <2>10, <2>11 DEF JobStep
<1>9. CASE BuildCopy
  BY <1>1, <1>9 DEF BuildCopy
<1>10. CASE StartEmulator
  <2>1. outer \in Outers
    BY <1>10 DEF StartEmulator, Typed
  <2>2. outer.unit \in Units
    BY <2>1 DEF Outers
  <2> DEFINE h == src[outer.unit].prog.head
             S == [op : {"master"}, unit : Units]
             m == Keep(h, S)
  <2>3. Masters(outer.unit) = m
    BY DEF Masters
  <2>4. m \in Seq(S)
    <3>1. h \in Seq(Directives)
      BY <2>2 DEF Typed, Program
    <3> HIDE DEF h, S
    <3>2. Len(h) \in Nat
      BY <3>1
    <3> QED BY <3>2, KeepMembers
  <2>5. m # <<>> => m[1].unit \in Units
    <3> HIDE DEF m
    <3>1. m # <<>> => m[1] \in S
      <4> HIDE DEF S
      <4> QED BY <2>4
    <3> QED BY <3>1
  <2>6. emu' = IF m = <<>> THEN outer.unit ELSE m[1].unit
    BY <1>10, <2>3 DEF StartEmulator
  <2> HIDE DEF m
  <2>7. emu' \in Units \cup {None}
    BY <2>2, <2>5, <2>6
  <2> QED BY <1>2, <1>10, <2>7 DEF StartEmulator, files
<1>11. CASE DeleteRelatedFiles
  <2>1. cfg' \in [Units -> {None} \cup Seq(CfgLines)]
    BY <1>11 DEF DeleteRelatedFiles, Others
  <2> QED BY <1>11, <2>1 DEF DeleteRelatedFiles, Others
<1>12. CASE UNCHANGED vars
  BY <1>1, <1>12 DEF vars
<1> QED BY <1>3, <1>4, <1>5, <1>6, <1>7, <1>8, <1>9, <1>10, <1>11, <1>12, NextSplit


\* Two steps write a NEX file.
LEMMA NexWriters ==
    ASSUME [Next]_vars
    PROVE  \/ UNCHANGED nex
           \/ CreateNEXFile
           \/ \E u \in Units : \E lines \in HandWritten[u] : RunNexCreator(u, lines)
<1>1. \A u, f : RunNextBuild(u, f) \/ RunBuild(u, f) \/ Edit(u) \/ BuildNext(u) => UNCHANGED nex
  BY DEF RunNextBuild, RunBuild, Edit, BuildNext, files
<1>2. Origin \/ ParseDirectives \/ CompileFails \/ Compile \/ ParseNEXCfgModule
        \/ ParseNEXCfgMissing \/ ParseNEXCfg \/ SkipNEXFile \/ CreateNEXFails
        => UNCHANGED nex
  BY DEF Origin, ParseDirectives, CompileFails, Compile, ParseNEXCfgModule,
         ParseNEXCfgMissing, ParseNEXCfg, SkipNEXFile, CreateNEXFails, files
<1>3. CopyToDestination \/ CopyToDestinationFails \/ AnythingToRun \/ Launch \/ BuildCopy \/ StartEmulator
        \/ DeleteRelatedFiles \/ UNCHANGED vars => UNCHANGED nex
  BY DEF CopyToDestination, CopyToDestinationFails, AnythingToRun, Launch, BuildCopy, StartEmulator,
         DeleteRelatedFiles, files, vars
<1>4. CASE UNCHANGED vars
  BY <1>3, <1>4
<1>5. CASE Next
  <2>1. \/ \E u \in Units : \E lines \in HandWritten[u] : RunNexCreator(u, lines)
        \/ \E u : Edit(u) \/ BuildNext(u)
        \/ \E u, f : RunNextBuild(u, f) \/ RunBuild(u, f)
        \/ Origin \/ ParseDirectives \/ CompileFails \/ Compile \/ ParseNEXCfgModule
        \/ ParseNEXCfgMissing \/ ParseNEXCfg \/ SkipNEXFile \/ CreateNEXFails
        \/ CreateNEXFile \/ CopyToDestination \/ CopyToDestinationFails \/ AnythingToRun \/ Launch \/ BuildCopy
        \/ StartEmulator \/ DeleteRelatedFiles
    BY <1>5 DEF Next
  <2> QED BY <1>1, <1>2, <1>3, <2>1
<1> QED BY <1>4, <1>5

LEMMA NexStep ==
    ASSUME TypedInv, FilesTyped, BlocksFlagged, [Next]_vars
    PROVE  nex' \in [Units -> {None} \cup Nexes] /\ BlocksFlagged'
<1>0. Typed /\ nex \in [Units -> {None} \cup Nexes]
  BY FilesSplit DEF TypedInv
<1>1. CASE UNCHANGED nex
  BY <1>0, <1>1 DEF BlocksFlagged
<1>2. CASE CreateNEXFile
  <2>1. job # None /\ job \in Jobs
    BY <1>0, <1>2 DEF Typed, CreateNEXFile, At
  <2>2. job.unit \in Units
    BY <2>1 DEF Jobs
  <2> DEFINE lines == cfg[job.unit]
             n == ParseFile(lines, OnDisk)
             x == GenerateFile(n)
  <2>3. lines \in Seq(CfgLines)
    BY <1>2, <2>2 DEF CreateNEXFile, FilesTyped
  <2>4. nex' = [nex EXCEPT ![job.unit] = x]
    BY <1>2 DEF CreateNEXFile
  <2>5. x \in Nexes /\ x.flags \subseteq 0..(Banks - 1) /\ Len(x.blocks) = Cardinality(x.flags)
    BY <1>0, <2>3, PackedTyped
  <2> HIDE DEF x
  <2> QED BY <2>2, <2>4, <2>5, PackedKept
<1>3. ASSUME NEW u \in Units, NEW lines \in HandWritten[u], RunNexCreator(u, lines)
      PROVE  nex' \in [Units -> {None} \cup Nexes] /\ BlocksFlagged'
  <2> DEFINE n == ParseFile(lines, OnDisk)
             x == GenerateFile(n)
  <2>1. lines \in Seq(CfgLines)
    BY HandWrittenAssumption
  <2>2. nex' = [nex EXCEPT ![u] = x]
    BY <1>3 DEF RunNexCreator
  <2>3. x \in Nexes /\ x.flags \subseteq 0..(Banks - 1) /\ Len(x.blocks) = Cardinality(x.flags)
    BY <1>0, <2>1, PackedTyped
  <2> HIDE DEF x
  <2> QED BY <2>2, <2>3, PackedKept
<1> QED BY <1>1, <1>2, <1>3, NexWriters

\* The inductive invariant of the shapes.
AllTyped == TypedInv /\ FilesTyped /\ BlocksFlagged

LEMMA AllTypedInit == Init => AllTyped
<1> SUFFICES ASSUME Init PROVE AllTyped
  OBVIOUS
<1>1. CopiesOf(trims)
  BY DEF Init, CopiesOf
<1>2. Others /\ nex \in [Units -> {None} \cup Nexes] /\ BlocksFlagged
  BY <1>1 DEF Init, Others, BlocksFlagged
<1> QED BY <1>2, TypedInit, FilesSplit DEF AllTyped

LEMMA AllTypedStep == AllTyped /\ [Next]_vars => AllTyped'
<1> SUFFICES ASSUME AllTyped, [Next]_vars PROVE AllTyped'
  OBVIOUS
<1>1. TypedInv /\ FilesTyped /\ BlocksFlagged
  BY DEF AllTyped
<1>2. TypedInv'
  BY <1>1, TypedStep, PhasesStep DEF TypedInv
<1>3. Others' /\ nex' \in [Units -> {None} \cup Nexes] /\ BlocksFlagged'
  BY <1>1, OthersStep, NexStep
<1>4. FilesTyped'
  BY <1>3 DEF FilesTyped, Others, CopiesOf
<1> QED BY <1>2, <1>3, <1>4 DEF AllTyped

LEMMA AllTypedAlways == Spec => []AllTyped
  BY AllTypedInit, AllTypedStep, PTL DEF Spec

\* Sources, binaries, configurations, NEX files, copies and the two processes keep
\* the shapes nextbuild.py, build.py and nextcreator.py give them, and a NEX file
\* has a block for every bank its header flags: no line of a configuration, wherever
\* it loads a file to and whatever it follows, flags a bank without its block.
THEOREM TypeCorrect == Spec => []TypeOK
<1>1. AllTyped => TypeOK
  BY DEF AllTyped, TypeOK, TypedInv
<1> QED BY <1>1, AllTypedAlways, PTL


-----------------------------------------------------------------------------
(* What the machine has where.                                             *)

\* The place in the image of a cell of an 8K page.
PlaceOf(page, c) == RealBank(page \div 2) * Bank + ((page % 2) * Page + c)

LEMMA InPageIs ==
    ASSUME NEW n \in Creators, NEW page \in Nat, NEW c \in Nat, c < Page,
           page \div 2 \in n.flags
    PROVE  InPage(GenerateFile(n), page, c) =
             IF PlaceOf(page, c) \in DOMAIN n.big THEN n.big[PlaceOf(page, c)] ELSE Blank
<1> DEFINE b == page \div 2
           t == page % 2
           x == GenerateFile(n)
           r == t * Page + c
<1>1. b \in Nat /\ t \in Nat /\ t < 2
  BY Division
<1>2. r \in 0..(Bank - 1)
  <2> HIDE DEF t
  <2>1. t = 0 \/ t = 1
    BY <1>1
  <2>2. CASE t = 0
    <3>1. r = c
      BY <2>2, BankFacts
    <3> HIDE DEF r
    <3> QED BY <3>1, BankFacts
  <2>3. CASE t = 1
    <3>1. r = Page + c
      BY <2>3, BankFacts
    <3> HIDE DEF r
    <3> QED BY <3>1, BankFacts
  <2> QED BY <2>1, <2>2, <2>3
<1>3. x.flags = n.flags /\ Loaded(x)[b] = Block(n, RealBank(b))
  BY Written
<1>4. InPage(x, page, c) = Loaded(x)[b][r]
  BY <1>3 DEF InPage
<1>5. RealBank(b) \in Nat
  BY <1>1, BankTables
<1> HIDE DEF b, t, x, r
<1>6. Block(n, RealBank(b))[r] =
        IF RealBank(b) * Bank + r \in DOMAIN n.big THEN n.big[RealBank(b) * Bank + r] ELSE Blank
  BY <1>2, <1>5, BlockTyped
<1>7. PlaceOf(page, c) = RealBank(b) * Bank + r
  BY DEF PlaceOf, b, t, r
<1> QED BY <1>3, <1>4, <1>6, <1>7 DEF x

\* An address from 16384 up is in the page of its bank.
LEMMA SeenIs ==
    ASSUME NEW n \in Creators, NEW org \in Address, org >= 2 * Page, RamBank(org) \in n.flags
    PROVE  LET o == RealBank(RamBank(org)) * Bank + (org % Bank) IN
           Seen(GenerateFile(n), org) = IF o \in DOMAIN n.big THEN n.big[o] ELSE Blank
<1> DEFINE q == org \div Bank
           r == org % Bank
           t == r \div Page
           c == org % Page
           b == RamBank(org)
           page == 2 * <<5, 2, 0>>[q] + t
<1>1. org \in Nat
  BY DEF Address
<1>2. q \in {0, 1, 2, 3} /\ r \in Nat /\ r < Bank /\ org = Bank * q + r /\ b \in Nat
  BY WindowOf
<1>3. q = 1 \/ q = 2 \/ q = 3
  <2>1. SUFFICES ASSUME q = 0 PROVE FALSE
    BY <1>2
  <2> HIDE DEF q, r
  <2>2. Bank * q = 0
    BY <2>1, BankFacts
  <2> QED BY <1>2, <2>2, BankFacts
<1>4. <<5, 2, 0>>[q] = b
  BY <1>3 DEF RamBank
<1>5. t \in Nat /\ t < 2 /\ r = Page * t + (r % Page) /\ r % Page \in Nat /\ r % Page < Page
  <2> HIDE DEF r
  <2>1. t \in Nat /\ r = Page * t + (r % Page) /\ r % Page \in Nat /\ r % Page < Page
    BY <1>2, BankFacts, Division
  <2> DEFINE m == r % Page
  <2> HIDE DEF t, m
  <2>2. t < 2
    <3>1. SUFFICES ASSUME t >= 2 PROVE FALSE
      BY <2>1
    <3>2. Page * t >= Page * 2
      BY <2>1, <3>1, BankFacts
    <3>3. r = Page * t + m /\ m \in Nat
      BY <2>1 DEF m
    <3> DEFINE pt == Page * t
    <3>4. pt >= Page * 2 /\ r = pt + m
      BY <3>2, <3>3
    <3> HIDE DEF pt
    <3>5. pt \in Nat
      BY <2>1, BankFacts DEF pt
    <3> QED BY <1>2, <3>3, <3>4, <3>5, BankFacts
  <2> QED BY <2>1, <2>2
<1>6. c = r % Page
  <2> DEFINE m == r % Page
             k == q + q + t
  <2>1. m \in Nat /\ m < Page /\ k \in Nat
    BY <1>3, <1>5
  <2>2. org = Page * k + m
    <3>1. Bank * q = Page * (q + q)
      <4> HIDE DEF q
      <4> QED BY <1>3, BankFacts
    <3>2. Page * k = Page * (q + q) + Page * t
      <4>1. q + q \in Nat /\ t \in Nat
        BY <1>3, <1>5
      <4> DEFINE d == q + q
      <4> HIDE DEF d, t
      <4>2. Page * (d + t) = Page * d + Page * t
        BY <4>1, BankFacts DEF d
      <4> QED BY <4>2 DEF d
    <3>3. Page * t \in Nat /\ Page * (q + q) \in Nat
      <4>1. q + q \in Nat /\ t \in Nat
        BY <1>3, <1>5
      <4> HIDE DEF q, t
      <4> QED BY <4>1, BankFacts
    <3> DEFINE x == Page * (q + q)
               y == Page * t
    <3>4. org = x + r /\ r = y + m /\ Page * k = x + y /\ x \in Nat /\ y \in Nat
      BY <1>2, <1>5, <3>1, <3>2, <3>3
    <3> HIDE DEF x, y, m, k, r
    <3> QED BY <2>1, <3>4
  <2> HIDE DEF m, k
  <2>3. (Page * k + m) % Page = m
    BY <2>1, BankFacts, DivisionIs
  <2> QED BY <2>2, <2>3 DEF m
<1>7. page \in Nat /\ page \div 2 = b /\ page % 2 = t
  <2>1. page = 2 * b + t
    BY <1>4
  <2> HIDE DEF page, b, t
  <2> QED BY <1>2, <1>5, <2>1
<1>8. Seen(GenerateFile(n), org) = InPage(GenerateFile(n), page, c)
  BY DEF Seen
<1>9. PlaceOf(page, c) = RealBank(b) * Bank + r
  <2>1. t * Page + c = r
    <3> DEFINE m == r % Page
    <3>1. c = m /\ r = Page * t + m /\ m \in Nat /\ t \in Nat
      BY <1>5, <1>6
    <3> HIDE DEF c, m, t, r
    <3> QED BY <3>1, BankFacts
  <2> HIDE DEF page, c, t, r, b
  <2> QED BY <1>7, <2>1 DEF PlaceOf
<1>10. c \in Nat /\ c < Page
  BY <1>5, <1>6
<1> HIDE DEF page, c, t, r, q
<1>11. InPage(GenerateFile(n), page, c) =
             IF PlaceOf(page, c) \in DOMAIN n.big THEN n.big[PlaceOf(page, c)] ELSE Blank
  BY <1>7, <1>10, InPageIs
<1> QED BY <1>8, <1>9, <1>11 DEF r

\* The file of a program, loaded where the processor will have org.
ProgramAt(n, org, name, disk) ==
    AddFile([n EXCEPT !.bank = RamBank(org), !.addr = org % Bank], name, disk)

\* The image has a cell where the processor will have org.
Begins(m, org, cell) ==
    LET o == RealBank(RamBank(org)) * Bank + (org % Bank)
    IN RamBank(org) \in m.flags /\ o \in DOMAIN m.big /\ m.big[o] = cell

\* A file that is loaded at the place of a program has its first cell there.
LEMMA ProgramLaid ==
    ASSUME NEW n \in Creators, NEW org \in Address, NEW disk, Folder(disk), NEW name,
           ~ProgramAt(n, org, name, disk).broken
    PROVE  /\ name \in DOMAIN disk
           /\ disk[name] # <<>> => Begins(ProgramAt(n, org, name, disk), org, disk[name][1])
<1> DEFINE r == org % Bank
           b == RamBank(org)
           k == [n EXCEPT !.bank = b, !.addr = r]
           cells == disk[name]
           m == ProgramAt(n, org, name, disk)
<1>1. b \in Nat /\ b < 8 /\ r \in Nat /\ r < Bank
  BY WindowOf
<1> HIDE DEF b, r
<1>2. k \in Creators /\ k.bank = b /\ k.addr = r
  <2>1. b \in Nat /\ r \in Nat
    BY <1>1
  <2> QED BY <2>1 DEF Creators
<1>3. m = AddFile(k, name, disk)
  BY DEF b, r, ProgramAt
<1> HIDE DEF k, m
<1>0. ~m.broken
  BY DEF m
<1>4. name \in DOMAIN disk
  BY <1>0, <1>2, <1>3, AddFileFacts
<1>5. Filed(k, m, cells)
  BY <1>2, <1>3, <1>4, AddFileFacts
<1>6. cells \in Seq(Cells)
  BY <1>4 DEF Folder
<1>7. Offset(k) = RealBank(b) * Bank + r
  <2> DEFINE z == 0
  <2>1. z \in Nat /\ Bank * z = 0
    BY BankFacts
  <2> HIDE DEF z
  <2>2. (Bank * z + r) % Bank = r
    BY <1>1, <2>1, BankFacts, DivisionIs
  <2>3. r % Bank = r
    BY <1>1, <2>1, <2>2
  <2> QED BY <1>2, <2>3 DEF Offset
<1> DEFINE o == Offset(k)
<1>8. o \in Nat /\ BankAt(o) = b
  BY <1>2, OffsetFacts
<1>9. ASSUME cells # <<>>
      PROVE  b \in m.flags /\ o \in DOMAIN m.big /\ m.big[o] = cells[1]
  <2>1. Len(cells) \in Nat /\ Len(cells) >= 1 /\ 1 \in 1..Len(cells)
    <3> HIDE DEF cells
    <3> QED BY <1>6, <1>9
  <2> HIDE DEF cells, o
  <2>2. o + 1 - 1 = o /\ o <= o /\ o < o + Len(cells)
    BY <1>8, <2>1
  <2>3. /\ \A x \in Nat : x \in DOMAIN m.big <=>
             (x \in DOMAIN k.big \/ (o <= x /\ x < o + Len(cells)))
        /\ \A j \in 1..Len(cells) : m.big[o + j - 1] = cells[j]
        /\ \A j \in 1..Len(cells) : BankAt(o + j - 1) < Banks => BankAt(o + j - 1) \in m.flags
    BY <1>2, <1>5, <1>6, FiledFacts DEF o
  <2>5. m.big[o + 1 - 1] = cells[1] /\ (BankAt(o + 1 - 1) < Banks => BankAt(o + 1 - 1) \in m.flags)
    BY <2>1, <2>3
  <2>4. b < Banks
    BY <1>1, BanksAssumption
  <2> QED BY <1>8, <2>2, <2>3, <2>4, <2>5
<1> QED BY <1>4, <1>7, <1>9 DEF b, r, m, Begins

\* A configuration of nextbuild.py that nextcreator.py packs gives a file in which the
\* machine sees the first cell of the program where the program was assembled: the
\* program's line is the last, so whatever the lines before it load, in whatever
\* order of banks, cannot cover it.
LEMMA FirstCellSeen ==
    ASSUME Typed, FilesTyped, NEW s \in Settings, NEW u \in Units, NEW input \in Units,
           bin[u] # None, s.org >= 2 * Page, NEW lines, lines = NexCfg(s, u, input),
           ~ParseFile(lines, OnDisk).broken
    PROVE  Seen(GenerateFile(ParseFile(lines, OnDisk)), s.org) = <<bin[u].unit, bin[u].ver, 1>>
<1>1. PICK q \in Seq(CfgLines) : /\ lines = q \o <<BinLine(s, u)>>
                                 /\ BinLine(s, u) \in CfgLines
                                 /\ lines \in Seq(CfgLines)
  BY CfgTyped
<1>2. Folder(OnDisk)
  <2>1. CopiesOf(trims)
    BY DEF FilesTyped, CopiesOf
  <2> QED BY <2>1, DiskTyped
<1> DEFINE disk == OnDisk
           line == BinLine(s, u)
           K == Len(q)
<1>3. Folder(disk)
  BY <1>2
<1>4. /\ bin[u] \in Binaries /\ s.org \in Address
  BY DEF Typed, Settings
<1>5. <<"bin", u>> \in DOMAIN disk => disk[<<"bin", u>>] = Code(bin[u])
  BY DEF OnDisk
<1>6. Code(bin[u]) # <<>> /\ Code(bin[u])[1] = <<bin[u].unit, bin[u].ver, 1>>
  <2> DEFINE z == bin[u].size
  <2>1. z \in Nat \ {0}
    BY <1>4 DEF Binaries
  <2>2. Code(bin[u]) = [n \in 1..z |-> <<bin[u].unit, bin[u].ver, n>>]
    BY DEF Code
  <2> HIDE DEF z
  <2>3. 1 \in 1..z
    BY <2>1
  <2>4. Code(bin[u])[1] = <<bin[u].unit, bin[u].ver, 1>> /\ 1 \in DOMAIN Code(bin[u])
    BY <2>2, <2>3
  <2> QED BY <2>4
<1> HIDE DEF disk, line, K
<1>7. PICK h : Parsing(h, lines, disk)
  BY <1>1, <1>3, ParseRun
<1>8. K \in Nat /\ Len(lines) = K + 1 /\ lines[K + 1] = line
  <2>1. <<line>> \in Seq(CfgLines) /\ Len(<<line>>) = 1 /\ <<line>>[1] = line
    BY <1>1 DEF line
  <2>2. K \in Nat /\ K = Len(q)
    BY DEF K
  <2> DEFINE w == <<line>>
  <2>3. w \in Seq(CfgLines) /\ Len(w) = 1 /\ w[1] = line /\ lines = q \o w
    BY <1>1, <2>1 DEF line
  <2> HIDE DEF w
  <2>4. Len(lines) = Len(q) + Len(w)
        /\ \A i \in 1..(Len(q) + Len(w)) : lines[i] = IF i <= Len(q) THEN q[i] ELSE w[i - Len(q)]
    <3>1. \A i \in 1..(Len(q) + Len(w)) : (q \o w)[i] = IF i <= Len(q) THEN q[i] ELSE w[i - Len(q)]
      BY <2>3, ConcatProperties
    <3>2. Len(q \o w) = Len(q) + Len(w)
      BY <2>3, ConcatProperties
    <3> QED BY <2>3, <3>1, <3>2
  <2>5. K + 1 \in 1..(K + 1) /\ ~(K + 1 <= K) /\ K + 1 - K = 1
    BY <2>2
  <2> QED BY <2>2, <2>3, <2>4, <2>5
<1> DEFINE n == h[K]
           m == h[K + 1]
<1>9. n \in Creators /\ m \in Creators /\ m = ParseLine(n, line, disk)
      /\ ParseFile(lines, disk) = m
  <2>1. K \in 0..Len(lines) /\ K + 1 \in 1..Len(lines) /\ K + 1 - 1 = K /\ K + 1 \in 0..Len(lines)
    BY <1>8
  <2> QED BY <1>7, <1>8, <2>1 DEF Parsing
<1>10. ~m.broken
  BY <1>9 DEF disk
<1> HIDE DEF n, m
<1>11. ~n.broken
  BY <1>9, <1>10, BrokenStays
<1>12. m = ProgramAt(n, s.org, <<"bin", u>>, disk)
  <2>1. /\ line.op = "file" /\ line.file = <<"bin", u>> /\ line.bank = RamBank(s.org)
        /\ line.addr = s.org % Bank
    BY DEF line, BinLine
  <2>2. n.broken = FALSE
    BY <1>9, <1>11 DEF Creators
  <2> QED BY <1>9, <2>1, <2>2 DEF ParseLine, ProgramAt
<1>13. /\ <<"bin", u>> \in DOMAIN disk
       /\ disk[<<"bin", u>>] # <<>> => Begins(m, s.org, disk[<<"bin", u>>][1])
  <2> DEFINE name == <<"bin", u>>
  <2> HIDE DEF name
  <2>1. m = ProgramAt(n, s.org, name, disk)
    BY <1>12 DEF name
  <2>2. /\ name \in DOMAIN disk
        /\ disk[name] # <<>> => Begins(m, s.org, disk[name][1])
    BY <1>3, <1>4, <1>9, <1>10, <2>1, ProgramLaid
  <2> QED BY <2>2 DEF name
<1>14. Begins(m, s.org, <<bin[u].unit, bin[u].ver, 1>>)
  BY <1>5, <1>6, <1>13
<1>15. Seen(GenerateFile(m), s.org) = <<bin[u].unit, bin[u].ver, 1>>
  BY <1>4, <1>9, <1>14, SeenIs DEF Begins
<1> QED BY <1>9, <1>15 DEF disk

-----------------------------------------------------------------------------
(* A build of nextbuild.py that ends well, and what the emulator is given. *)

\* What one run of nextbuild.py, without a flag or with -s, has behind it at each
\* step: no emulator yet; after the directives, for -s, the file itself to run; the
\* binary of this source once it is compiled; the configuration of these settings
\* once it is written; and once nextcreator.py is through, a NEX file that has the
\* program where it was assembled.  A build for NextZXOS goes another way.
Making ==
    job # None =>
      /\ emu = None
      /\ job.flag \in {"", "s"} =>
           /\ ModuleAlone(job.set)
           /\ (job.flag = "s" /\ job.at # "parse") => job.set.master = job.unit
           /\ (job.at \in {"cfg", "nex"} /\ ~job.set.nextzxos) => bin[job.unit] = Compiled
           /\ (job.at = "nex" /\ ~job.set.nextzxos /\ ~job.set.noNex) =>
                cfg[job.unit] = NexCfg(job.set, job.unit, job.input)
           /\ (job.at \in {"copy", "run"} /\ ~job.set.noNex /\ job.set.org >= 2 * Page) =>
                nex[job.unit] # None /\ Seen(nex[job.unit], job.set.org) = FirstCell

LEMMA MakingStart ==
    ASSUME NEW u \in Units, NEW f, job' = Start(u, f), emu' = None
    PROVE  Making'
<1>1. job'.flag = f /\ job'.at = "parse" /\ job'.set = Defaults(f)
  BY DEF Start
<1>2. f \in {"", "s"} => ModuleAlone(Defaults(f))
  BY DEF Defaults, ModuleAlone
<1> QED BY <1>1, <1>2 DEF Making

\* The file nextcreator.py writes in this build.
LEMMA MakingNex ==
    ASSUME AllTyped, Making, CreateNEXFile, job.flag \in {"", "s"}, ~job.set.nextzxos,
           job.set.org >= 2 * Page
    PROVE  nex'[job.unit] # None /\ Seen(nex'[job.unit], job.set.org) = FirstCell
<1>1. /\ job # None /\ job.at = "nex" /\ ~job.set.noNex /\ cfg[job.unit] # None
      /\ ~ParseFile(cfg[job.unit], OnDisk).broken
      /\ nex' = [nex EXCEPT ![job.unit] = GenerateFile(ParseFile(cfg[job.unit], OnDisk))]
  BY DEF CreateNEXFile, At
<1>2. Typed /\ FilesTyped /\ job \in Jobs
  BY <1>1 DEF AllTyped, TypedInv, Typed
<1>3. job.unit \in Units /\ job.input \in Units /\ job.set \in Settings
  BY <1>2 DEF Jobs
<1> DEFINE lines == cfg[job.unit]
           x == GenerateFile(ParseFile(lines, OnDisk))
<1>4. lines = NexCfg(job.set, job.unit, job.input) /\ bin[job.unit] = Compiled
  BY <1>1 DEF Making
<1>5. bin[job.unit] # None
  BY <1>2, <1>4, CompiledTyped, JobsAreNotNone
<1>6. <<Compiled.unit, Compiled.ver, 1>> = FirstCell
  BY DEF Compiled, FirstCell
<1>7. nex'[job.unit] = x
  <2>1. nex \in [Units -> {None} \cup Nexes]
    BY <1>2 DEF FilesTyped
  <2> HIDE DEF x
  <2> QED BY <1>1, <1>3, <2>1 DEF x
<1>8. lines \in Seq(CfgLines)
  BY <1>1, <1>2, <1>3 DEF FilesTyped
<1>9. x # None
  BY <1>2, <1>8, PackedTyped
<1> HIDE DEF lines
<1>10. Seen(x, job.set.org) = <<bin[job.unit].unit, bin[job.unit].ver, 1>>
  <2> DEFINE s == job.set
             u == job.unit
             input == job.input
  <2>1. /\ s \in Settings /\ u \in Units /\ input \in Units /\ bin[u] # None
        /\ s.org >= 2 * Page /\ lines = NexCfg(s, u, input) /\ ~ParseFile(lines, OnDisk).broken
    BY <1>1, <1>3, <1>4, <1>5 DEF lines
  <2> HIDE DEF s, u, input
  <2>2. Seen(x, s.org) = <<bin[u].unit, bin[u].ver, 1>>
    BY <1>2, <2>1, FirstCellSeen
  <2> QED BY <2>2 DEF s, u
<1> QED BY <1>4, <1>6, <1>7, <1>9, <1>10

LEMMA MakingJobStep ==
    ASSUME AllTyped, Making, JobStep, job' # None
    PROVE  Making'
<1>1. job # None /\ job \in Jobs /\ Typed /\ UNCHANGED src
  BY JobStepFrame DEF AllTyped, TypedInv, Typed
<1>2. job.unit \in Units /\ job.input \in Units /\ job.set \in Settings
  BY <1>1 DEF Jobs
<1>3. emu = None
  BY <1>1 DEF Making
<1>4. CASE Origin
  <2>1. PICK s \in Settings, v \in Units : /\ job' = [job EXCEPT !.set = s, !.input = v]
                                           /\ ModuleAlone(job.set) => ModuleAlone(s)
    BY <1>1, <1>4, OriginTyped
  <2>2. job'.set = s /\ job'.flag = job.flag /\ job'.at = job.at
    BY <1>1, <2>1 DEF Jobs
  <2>3. job.at = "parse" /\ UNCHANGED emu
    BY <1>4 DEF Origin, At
  <2> QED BY <1>1, <2>1, <2>2, <2>3 DEF Making
<1>5. CASE ParseDirectives
  <2>1. PICK s \in Settings, step \in {"run", "compile"} :
          /\ job' = [job EXCEPT !.set = s, !.at = step]
          /\ step = "run" <=> job.flag = "l"
          /\ job.flag = "s" => s.master = job.unit
          /\ ModuleAlone(job.set) => ModuleAlone(s)
    BY <1>1, <1>5, ParseTyped
  <2>2. job'.set = s /\ job'.flag = job.flag /\ job'.at = step /\ job'.unit = job.unit
    BY <1>1, <2>1 DEF Jobs
  <2>3. UNCHANGED emu
    BY <1>5 DEF ParseDirectives
  <2> QED BY <1>1, <2>1, <2>2, <2>3 DEF Making
<1>6. CASE CompileFails \/ ParseNEXCfgMissing \/ CreateNEXFails \/ CopyToDestinationFails
           \/ AnythingToRun \/ Launch
  BY <1>6 DEF CompileFails, ParseNEXCfgMissing, CreateNEXFails, CopyToDestinationFails,
              AnythingToRun, Launch, Ended
\* From the compiler on the settings stay.
<1>7. ASSUME NEW step, NEW w, job' = [job EXCEPT !.at = step] \/ job' = [job EXCEPT !.at = step, !.wrote = w]
      PROVE  /\ job'.set = job.set /\ job'.flag = job.flag /\ job'.at = step
             /\ job'.unit = job.unit /\ job'.input = job.input
             /\ Compiled' = Compiled /\ FirstCell' = FirstCell
             /\ NexCfg(job.set, job.unit, job.input)' = NexCfg(job.set, job.unit, job.input)
  <2>1. /\ job'.set = job.set /\ job'.flag = job.flag /\ job'.at = step
        /\ job'.unit = job.unit /\ job'.input = job.input
    BY <1>1, <1>7 DEF Jobs
  <2>2. Compiled' = Compiled /\ FirstCell' = FirstCell
    BY <1>1, <2>1 DEF Compiled, FirstCell
  <2>3. NexCfg(job.set, job.unit, job.input)' = NexCfg(job.set, job.unit, job.input)
    BY <1>1, <2>1 DEF NexCfg
  <2> QED BY <2>1, <2>2, <2>3
<1>8. CASE Compile
  <2>1. PICK step \in {"cfg", "launch"} : job' = [job EXCEPT !.at = step]
    BY <1>8 DEF Compile, Ended, Go
  <2>2. /\ job'.set = job.set /\ job'.flag = job.flag /\ job'.at = step
        /\ job'.unit = job.unit /\ Compiled' = Compiled
    BY <1>7, <2>1
  <2>3. ASSUME job.flag \in {"", "s"}, ~job.set.nextzxos PROVE bin'[job.unit] = Compiled
    <3>1. ~job.set.asm
      BY <1>8, <2>3 DEF Compile, Ended
    <3>2. bin' = [bin EXCEPT ![job.unit] = Compiled]
      BY <1>8, <2>3, <3>1 DEF Compile, OtherOutput
    <3> QED BY <1>1, <1>2, <3>2 DEF Typed
  <2>4. UNCHANGED emu /\ job.at = "compile"
    BY <1>8 DEF Compile, At
  <2> QED BY <1>1, <2>1, <2>2, <2>3, <2>4 DEF Making
<1>9. CASE ParseNEXCfgModule
  <2>1. job' = [job EXCEPT !.at = "nex"]
    BY <1>9 DEF ParseNEXCfgModule, Go
  <2>2. /\ job'.set = job.set /\ job'.flag = job.flag /\ job'.at = "nex"
        /\ job'.unit = job.unit /\ Compiled' = Compiled
    BY <1>7, <2>1
  <2>3. UNCHANGED <<emu, bin>> /\ job.at = "cfg" /\ job.set.isModule
    BY <1>9 DEF ParseNEXCfgModule, At
  <2> QED BY <1>1, <2>2, <2>3 DEF Making, ModuleAlone
<1>10. CASE ParseNEXCfg
  <2>1. job' = [job EXCEPT !.at = "nex"]
    BY <1>10 DEF ParseNEXCfg, Go
  <2>2. /\ job'.set = job.set /\ job'.flag = job.flag /\ job'.at = "nex"
        /\ job'.unit = job.unit /\ Compiled' = Compiled
        /\ NexCfg(job.set, job.unit, job.input)' = NexCfg(job.set, job.unit, job.input)
    BY <1>7, <2>1
  <2>3. UNCHANGED <<emu, bin>> /\ job.at = "cfg"
        /\ cfg' = [cfg EXCEPT ![job.unit] = NexCfg(job.set, job.unit, job.input)]
    BY <1>10 DEF ParseNEXCfg, At
  <2>4. cfg'[job.unit] = NexCfg(job.set, job.unit, job.input)
    <3> DEFINE lines == NexCfg(job.set, job.unit, job.input)
    <3>1. cfg' = [cfg EXCEPT ![job.unit] = lines]
      BY <2>3
    <3>2. cfg \in [Units -> {None} \cup Seq(CfgLines)]
      BY DEF AllTyped, FilesTyped
    <3> HIDE DEF lines
    <3>3. cfg'[job.unit] = lines
      BY <1>2, <3>1, <3>2
    <3> QED BY <3>3 DEF lines
  <2>5. (NexCfg(job.set, job.unit, job.input) = cfg[job.unit])'
    BY <2>2, <2>4
  <2> QED BY <1>1, <2>2, <2>3, <2>5 DEF Making
<1>11. CASE SkipNEXFile \/ CreateNEXFile
  <2>1. /\ job' = [job EXCEPT !.at = AfterNex] \/ job' = [job EXCEPT !.at = AfterNex, !.wrote = TRUE]
        /\ job.at = "nex" /\ UNCHANGED emu
    BY <1>11 DEF SkipNEXFile, CreateNEXFile, At, Go
  <2>2. /\ job'.set = job.set /\ job'.flag = job.flag /\ job'.at = AfterNex
        /\ job'.unit = job.unit /\ FirstCell' = FirstCell
    BY <1>7, <2>1
  <2>3. AfterNex = IF job.set.nextzxos THEN "launch" ELSE "copy"
    BY DEF AfterNex
  <2>4. ASSUME job.flag \in {"", "s"}, ~job.set.nextzxos, ~job.set.noNex, job.set.org >= 2 * Page
        PROVE  nex'[job.unit] # None /\ Seen(nex'[job.unit], job.set.org) = FirstCell
    <3>1. CreateNEXFile
      BY <1>11, <2>4 DEF SkipNEXFile
    <3> QED BY <2>4, <3>1, MakingNex
  <2> QED BY <1>1, <2>1, <2>2, <2>3, <2>4 DEF Making
<1>12. CASE CopyToDestination
  <2>1. job' = [job EXCEPT !.at = "run"] /\ job.at = "copy" /\ UNCHANGED <<emu, nex>>
    BY <1>12 DEF CopyToDestination, At, Go
  <2>2. /\ job'.set = job.set /\ job'.flag = job.flag /\ job'.at = "run"
        /\ job'.unit = job.unit /\ FirstCell' = FirstCell
    BY <1>7, <2>1
  <2> QED BY <1>1, <2>1, <2>2 DEF Making
<1> QED BY <1>4, <1>5, <1>6, <1>8, <1>9, <1>10, <1>11, <1>12 DEF JobStep

LEMMA MakingStep ==
    ASSUME AllTyped, Making, [Next]_vars
    PROVE  Making'
<1>0. Phases /\ Typed
  BY DEF AllTyped, TypedInv
<1>1. CASE job' = None
  BY <1>1 DEF Making
<1>2. ASSUME job = None, UNCHANGED job PROVE Making'
  BY <1>2 DEF Making
<1>3. ASSUME NEW u \in Units, Edit(u) PROVE Making'
  BY <1>2, <1>3 DEF Edit, Idle
<1>4. ASSUME NEW u \in Units, NEW lines, RunNexCreator(u, lines) PROVE Making'
  BY <1>2, <1>4 DEF RunNexCreator, Idle
<1>5. ASSUME NEW u \in Units, BuildNext(u) PROVE Making'
  BY <1>5, MakingStart DEF BuildNext
<1>6. ASSUME NEW u \in Units, NEW f \in Flags, RunNextBuild(u, f) PROVE Making'
  BY <1>6, MakingStart DEF RunNextBuild
<1>7. ASSUME NEW u \in Units, NEW f \in {"m", "s", "e"}, RunBuild(u, f) PROVE Making'
  BY <1>2, <1>7 DEF RunBuild, Idle
<1>8. CASE JobStep
  BY <1>1, <1>8, MakingJobStep
<1>9. CASE BuildCopy
  BY <1>2, <1>9 DEF BuildCopy
<1>10. CASE StartEmulator
  BY <1>0, <1>2, <1>10 DEF StartEmulator, Phases
<1>11. CASE DeleteRelatedFiles
  BY <1>0, <1>2, <1>11 DEF DeleteRelatedFiles, Phases
<1>12. CASE UNCHANGED vars
  <2>1. UNCHANGED <<src, bin, cfg, nex, job, emu>>
    BY <1>12 DEF vars
  <2> QED BY <2>1 DEF Making, Compiled, NexCfg, FirstCell
<1> QED BY <1>3, <1>4, <1>5, <1>6, <1>7, <1>8, <1>9, <1>10, <1>11, <1>12, NextSplit

MakingInv == AllTyped /\ Making /\ Delivery

LEMMA MakingAlways == Spec => []MakingInv
<1>1. Init => MakingInv
  BY AllTypedInit, DeliveryInit DEF Init, Making, MakingInv
<1>2. MakingInv /\ [Next]_vars => MakingInv'
  <2> SUFFICES ASSUME MakingInv, [Next]_vars PROVE MakingInv'
    OBVIOUS
  <2>1. AllTyped /\ TypedInv /\ Making /\ Delivery
    BY DEF MakingInv, AllTyped
  <2>2. AllTyped'
    BY <2>1, AllTypedStep
  <2>3. Typed'
    BY <2>2 DEF AllTyped, TypedInv
  <2> QED BY <2>1, <2>2, <2>3, MakingStep, DeliveryStep DEF MakingInv
<1> QED BY <1>1, <1>2, PTL DEF Spec

\* A nextbuild.py that ends with 0 has left what it was asked for, built from the
\* source as it is: a NEX file that has the program where it was assembled, whatever
\* earlier builds left in the folder and whatever the parts load, or for -m the
\* module in data/.  The binary, the configuration and the NEX file are written in
\* this order by this run, and nothing comes between.
THEOREM BuiltOnCleanExit == Spec => CleanExitMeansBuilt
<1>1. ASSUME MakingInv, [Next]_vars, CleanExit
      PROVE  /\ (job.flag \in {"", "s"} /\ ~job.set.noNex /\ job.set.org >= 2 * Page)
                  => nex[job.unit] # None /\ Seen(nex[job.unit], job.set.org) = FirstCell
             /\ job.flag = "m" => ModuleDelivered
  <2>1. TypedInv /\ Making /\ Delivery /\ job # None
    BY <1>1 DEF MakingInv, AllTyped, CleanExit
  <2>2. job.flag # "t" => job.at = "run"
    BY <1>1, <2>1, CleanExitStep
  <2> QED BY <2>1, <2>2 DEF Making, Delivery
<1> QED BY <1>1, MakingAlways, PTL DEF Spec, CleanExitMeansBuilt

\* With -s, the emulator is given the NEX file of the build that just ran: the file
\* itself takes the place of any '!master=, and its NEX file was written by this run.
THEOREM EmulatorGetsThisBuild == Spec => EmulatorRunsThisBuild
<1>1. ASSUME MakingInv, [Next]_vars, At("run"), emu' # None, job.flag = "s", ~job.set.noNex,
             job.set.org >= 2 * Page
      PROVE  nex[emu'] # None /\ Seen(nex[emu'], job.set.org) = FirstCell
  <2>1. Making /\ job # None /\ job.at = "run" /\ Phases
    BY <1>1 DEF MakingInv, AllTyped, TypedInv, At
  <2>2. emu = None /\ job.set.master = job.unit
    BY <1>1, <2>1 DEF Making
  <2>3. emu' # emu => emu' = job.set.master
    <3>1. ASSUME NEW u \in Units, NEW f PROVE ~Edit(u) /\ ~BuildNext(u) /\ ~RunNextBuild(u, f)
                                                /\ ~RunBuild(u, f) /\ ~RunNexCreator(u, f)
      BY <2>1 DEF Edit, BuildNext, RunNextBuild, RunBuild, RunNexCreator, Idle
    <3>2. CASE JobStep
      <4>1. AnythingToRun
        BY <2>1, <3>2 DEF JobStep, Origin, ParseDirectives, CompileFails, Compile,
             ParseNEXCfgModule, ParseNEXCfgMissing, ParseNEXCfg, SkipNEXFile, CreateNEXFails,
             CreateNEXFile, CopyToDestination, CopyToDestinationFails, Launch, At
      <4> QED BY <4>1 DEF AnythingToRun
    <3>3. ~BuildCopy /\ ~StartEmulator
      BY <2>1 DEF BuildCopy, StartEmulator, Phases
    <3>4. DeleteRelatedFiles \/ UNCHANGED vars => emu' = emu
      BY DEF DeleteRelatedFiles, vars
    <3> QED BY <1>1, <3>1, <3>2, <3>3, <3>4, NextSplit
  <2>4. emu' = job.unit
    BY <1>1, <2>2, <2>3
  <2> QED BY <1>1, <2>1, <2>4 DEF Making
<1> QED BY <1>1, MakingAlways, PTL DEF Spec, EmulatorRunsThisBuild

-----------------------------------------------------------------------------
(* The image is what the source promises.                                  *)

\* A cell of an 8K page, as a pair.
Spot(at) == at \in Nat \X Nat /\ at[2] < Page
PlaceAt(at) == PlaceOf(at[1], at[2])

\* Dividing by a page of a bank of two.
LEMMA TwoPages ==
    ASSUME NEW q \in Nat, NEW t \in Nat, t < 2, NEW c \in Nat, c < Page
    PROVE  /\ t * Page + c \in Nat /\ t * Page + c < Bank
           /\ q * Bank + (t * Page + c) \in Nat
           /\ (q * Bank + (t * Page + c)) \div Bank = q
           /\ (q * Bank + (t * Page + c)) % Bank = t * Page + c
           /\ (t * Page + c) \div Page = t /\ (t * Page + c) % Page = c
<1> DEFINE r == t * Page + c
<1>1. r \in Nat /\ r < Bank
  <2>1. t = 0 \/ t = 1
    OBVIOUS
  <2> QED BY <2>1, BankFacts
<1>2. r = Page * t + c
  BY BankFacts
<1>3. r \div Page = t /\ r % Page = c
  BY <1>2, BankFacts, DivisionIs
<1> HIDE DEF r
<1>4. q * Bank + r = Bank * q + r /\ q * Bank + r \in Nat
  BY <1>1, BankFacts
<1>5. (Bank * q + r) \div Bank = q /\ (Bank * q + r) % Bank = r
  BY <1>1, BankFacts, DivisionIs
<1> QED BY <1>1, <1>3, <1>4, <1>5 DEF r

\* Where a cell lies in the image tells its bank, and no other cell lies there.
LEMMA PlaceFacts ==
    ASSUME NEW at, Spot(at)
    PROVE  /\ PlaceAt(at) \in Nat /\ at[1] \div 2 \in Nat
           /\ BankAt(PlaceAt(at)) = at[1] \div 2
           /\ PlaceAt(at) \div Bank = RealBank(at[1] \div 2)
           /\ PlaceAt(at) % Bank = (at[1] % 2) * Page + at[2]
<1> DEFINE b == at[1] \div 2
           t == at[1] % 2
           c == at[2]
           q == RealBank(b)
<1>1. b \in Nat /\ t \in Nat /\ t < 2 /\ c \in Nat /\ c < Page
  BY Division DEF Spot
<1>2. PlaceAt(at) = q * Bank + (t * Page + c)
  BY DEF PlaceAt, PlaceOf
<1>3. q \in Nat /\ BankOrder(q) = b
  <2> HIDE DEF b
  <2> QED BY <1>1, BankTables
<1> HIDE DEF b, t, c, q
<1>4. /\ PlaceAt(at) \in Nat /\ PlaceAt(at) \div Bank = q
      /\ PlaceAt(at) % Bank = t * Page + c
  BY <1>1, <1>2, <1>3, TwoPages
<1>5. BankAt(PlaceAt(at)) = b
  BY <1>3, <1>4 DEF BankAt
<1> QED BY <1>1, <1>4, <1>5 DEF b, t, c, q

LEMMA PlaceNat == ASSUME NEW page \in Nat, NEW c \in Nat, c < Page PROVE PlaceOf(page, c) \in Nat
<1> DEFINE at == <<page, c>>
<1>1. Spot(at) /\ PlaceAt(at) = PlaceOf(page, c)
  BY DEF Spot, PlaceAt
<1> HIDE DEF at
<1> QED BY <1>1, PlaceFacts

LEMMA PlaceInjective ==
    ASSUME NEW x, NEW y, Spot(x), Spot(y), PlaceAt(x) = PlaceAt(y)
    PROVE  x = y
<1>1. x[1] \div 2 = y[1] \div 2
  BY PlaceFacts
<1> DEFINE t == x[1] % 2
           v == y[1] % 2
           c == x[2]
           d == y[2]
<1>2. t * Page + c = v * Page + d
  BY PlaceFacts
<1>3. /\ x[1] \in Nat /\ y[1] \in Nat /\ t \in Nat /\ t < 2 /\ v \in Nat /\ v < 2
      /\ c \in Nat /\ c < Page /\ d \in Nat /\ d < Page
      /\ x[1] = 2 * (x[1] \div 2) + t /\ y[1] = 2 * (y[1] \div 2) + v
  BY Division DEF Spot
<1> HIDE DEF t, v, c, d
<1>4. t = v /\ c = d
  BY <1>2, <1>3, TwoPages
<1>5. x[1] = y[1]
  BY <1>1, <1>3, <1>4
<1> QED BY <1>4, <1>5 DEF c, d, Spot

\* From page 16 on the image is the memory.
LEMMA HighPlace ==
    ASSUME NEW page \in Nat, page >= 16, NEW c \in Nat
    PROVE  PlaceOf(page, c) = page * Page + c
<1> DEFINE b == page \div 2
           t == page % 2
<1>1. b \in Nat /\ t \in Nat /\ t < 2 /\ page = 2 * b + t
  BY Division
<1>2. PlaceOf(page, c) = RealBank(b) * Bank + (t * Page + c)
  BY DEF PlaceOf
<1> HIDE DEF b, t
<1>3. b > 7
  BY <1>1
<1>4. RealBank(b) = b
  BY <1>3 DEF RealBank
<1>5. b * Bank = (2 * b) * Page
  BY <1>1, BankFacts
<1>6. (2 * b + t) * Page = (2 * b) * Page + t * Page
  BY <1>1, BankFacts
<1>7. b * Bank \in Nat /\ t * Page \in Nat /\ page * Page \in Nat
  BY <1>1, BankFacts
<1> QED BY <1>1, <1>2, <1>4, <1>5, <1>6, <1>7

\* The n-th cell of a part that starts at a of a page: "increase bank every 8kb".
CellOf(page, a, n) == <<page + (a + n) \div Page, (a + n) % Page>>

LEMMA RunPlace ==
    ASSUME NEW page \in Nat, NEW a \in Nat, a < Page, NEW n \in Nat,
           page < 16 => (page % 2) * Page + a + n < Bank
    PROVE  /\ Spot(CellOf(page, a, n))
           /\ PlaceAt(CellOf(page, a, n)) = PlaceOf(page, a) + n
<1> DEFINE q == (a + n) \div Page
           r == (a + n) % Page
<1>1. q \in Nat /\ r \in Nat /\ r < Page /\ a + n = Page * q + r
  BY BankFacts, Division
<1>2. CellOf(page, a, n) = <<page + q, r>>
  BY DEF CellOf
<1> HIDE DEF q, r
<1>3. Spot(CellOf(page, a, n))
  BY <1>1, <1>2 DEF Spot
<1>4. PlaceAt(CellOf(page, a, n)) = PlaceOf(page + q, r)
  BY <1>2 DEF PlaceAt
<1>5. CASE page >= 16
  <2>1. PlaceOf(page, a) = page * Page + a /\ PlaceOf(page + q, r) = (page + q) * Page + r
    <3>1. page + q >= 16 /\ page + q \in Nat
      BY <1>1, <1>5
    <3> QED BY <1>1, <1>5, <3>1, HighPlace
  <2>2. (page + q) * Page = page * Page + Page * q
    BY <1>1, BankFacts
  <2> DEFINE v == page * Page
             w == Page * q
  <2>3. v \in Nat /\ w \in Nat
    BY <1>1, BankFacts
  <2>4. /\ PlaceOf(page, a) = v + a /\ PlaceOf(page + q, r) = v + w + r /\ a + n = w + r
    BY <1>1, <2>1, <2>2
  <2> HIDE DEF v, w
  <2>5. PlaceOf(page + q, r) = PlaceOf(page, a) + n
    BY <1>1, <2>3, <2>4
  <2> QED BY <1>3, <1>4, <2>5
<1>6. CASE page < 16
  <2> DEFINE b == page \div 2
             t == page % 2
             w == RealBank(b) * Bank
  <2>1. b \in Nat /\ t \in Nat /\ t < 2 /\ page = 2 * b + t
    BY Division
  <2>2. PlaceOf(page, a) = w + (t * Page + a) /\ t * Page + a + n < Bank
    BY <1>6 DEF PlaceOf
  <2>3. w \in Nat
    <3>1. RealBank(b) \in Nat
      BY <2>1, BankTables
    <3> DEFINE z == RealBank(b)
    <3> HIDE DEF z
    <3>2. z * Bank \in Nat
      BY <3>1, BankFacts DEF z
    <3> QED BY <3>2 DEF z
  <2>4. ASSUME q = 0 PROVE PlaceOf(page + q, r) = w + (t * Page + a) + n
    <3>1. r = a + n /\ page + q = page
      BY <1>1, <2>4, BankFacts
    <3>2. PlaceOf(page, r) = w + (t * Page + r)
      BY DEF PlaceOf
    <3> HIDE DEF w, t, b
    <3>3. t * Page \in Nat
      BY <2>1, BankFacts
    <3> QED BY <1>1, <2>3, <3>1, <3>2, <3>3
  <2>5. ASSUME q # 0 PROVE PlaceOf(page + q, r) = w + (t * Page + a) + n
    <3>1. t = 0 /\ q = 1
      <4> HIDE DEF t, b, w
      <4>1. Page * q >= Page
        BY <1>1, <2>5, BankFacts
      <4>2. t = 0
        BY <1>1, <2>1, <2>2, <4>1, BankFacts
      <4>3. a + n < Page + Page
        BY <2>1, <2>2, <4>2, BankFacts
      <4>4. ~(q >= 2)
        <5>1. SUFFICES ASSUME q >= 2 PROVE FALSE
          OBVIOUS
        <5>2. Page * q >= Page + Page
          BY <1>1, <5>1, BankFacts
        <5> QED BY <1>1, <4>3, <5>2, BankFacts
      <4> QED BY <1>1, <2>5, <4>2, <4>4
    <3>2. (page + q) \div 2 = b /\ (page + q) % 2 = 1
      <4> HIDE DEF b, t
      <4> QED BY <2>1, <3>1
    <3>3. PlaceOf(page + q, r) = w + (1 * Page + r)
      BY <3>2 DEF PlaceOf
    <3>4. a + n = Page + r
      BY <1>1, <3>1, BankFacts
    <3> HIDE DEF w, t, b
    <3> QED BY <1>1, <2>3, <3>1, <3>3, <3>4, BankFacts
  <2>6. PlaceOf(page + q, r) = w + (t * Page + a) + n
    BY <2>4, <2>5
  <2>7. PlaceOf(page + q, r) = PlaceOf(page, a) + n
    BY <2>2, <2>6
  <2> QED BY <1>3, <1>4, <2>7
<1> QED BY <1>3, <1>5, <1>6, <1>4

\* The image n has every cell of m, in the bank the header flags for it.
Agree(n, m) ==
    \A at \in DOMAIN m : /\ Spot(at) /\ PlaceAt(at) \in DOMAIN n.big
                         /\ n.big[PlaceAt(at)] = m[at] /\ at[1] \div 2 \in n.flags

\* The cells of m lie one after the other in the image from o on, in the order of cells.
Covers(m, o, cells) ==
    /\ \A at \in DOMAIN m : /\ Spot(at) /\ at[1] \div 2 < Banks
                            /\ \E j \in 1..Len(cells) : /\ PlaceAt(at) = o + j - 1
                                                        /\ m[at] = cells[j]
    /\ \A j \in 1..Len(cells) : \E at \in DOMAIN m : PlaceAt(at) = o + j - 1

\* A file that is loaded goes over what was there, in the image as in the memory.
LEMMA LaidOver ==
    ASSUME NEW n, NEW m, Agree(n, m), NEW k \in Creators, k.big = n.big, k.flags = n.flags,
           NEW cells \in Seq(Cells), NEW n2, Filed(k, n2, cells),
           NEW m2, Covers(m2, Offset(k), cells)
    PROVE  Agree(n2, Over(m2, m))
<1> DEFINE o == Offset(k)
           N == Len(cells)
<1>1. /\ k.flags \subseteq n2.flags
      /\ \A x \in Nat : x \in DOMAIN n2.big <=>
            (x \in DOMAIN k.big \/ (o <= x /\ x < o + N))
      /\ \A j \in 1..N : n2.big[o + j - 1] = cells[j]
      /\ \A x \in DOMAIN k.big : (x < o \/ x >= o + N) => n2.big[x] = k.big[x]
      /\ \A j \in 1..N : BankAt(o + j - 1) < Banks => BankAt(o + j - 1) \in n2.flags
  BY FiledFacts
<1>2. o \in Nat
  BY OffsetFacts
<1>3. N \in Nat
  OBVIOUS
<1>4. /\ \A at \in DOMAIN m2 : /\ Spot(at) /\ at[1] \div 2 < Banks
                               /\ \E j \in 1..N : PlaceAt(at) = o + j - 1 /\ m2[at] = cells[j]
      /\ \A j \in 1..N : \E at \in DOMAIN m2 : PlaceAt(at) = o + j - 1
  BY DEF Covers
<1> HIDE DEF o, N
<1> DEFINE w == Over(m2, m)
<1>5. /\ DOMAIN w = DOMAIN m2 \cup DOMAIN m
      /\ \A at \in DOMAIN m2 : w[at] = m2[at]
      /\ \A at \in DOMAIN m : at \notin DOMAIN m2 => w[at] = m[at]
  BY DEF Over
<1> HIDE DEF w
<1>6. SUFFICES ASSUME NEW at \in DOMAIN w
               PROVE  /\ Spot(at) /\ PlaceAt(at) \in DOMAIN n2.big
                      /\ n2.big[PlaceAt(at)] = w[at] /\ at[1] \div 2 \in n2.flags
  BY DEF Agree, w
<1>7. CASE at \in DOMAIN m2
  <2>1. PICK j \in 1..N : PlaceAt(at) = o + j - 1 /\ m2[at] = cells[j]
    BY <1>4, <1>7
  <2>2. Spot(at) /\ at[1] \div 2 < Banks
    BY <1>4, <1>7
  <2>3. BankAt(PlaceAt(at)) = at[1] \div 2 /\ PlaceAt(at) \in Nat
    BY <2>2, PlaceFacts
  <2>4. o <= PlaceAt(at) /\ PlaceAt(at) < o + N
    BY <1>2, <1>3, <2>1
  <2>5. PlaceAt(at) \in DOMAIN n2.big
    BY <1>1, <2>3, <2>4
  <2>6. n2.big[PlaceAt(at)] = cells[j] /\ (BankAt(PlaceAt(at)) < Banks => BankAt(PlaceAt(at)) \in n2.flags)
    BY <1>1, <2>1
  <2>7. at[1] \div 2 \in n2.flags
    BY <2>2, <2>3, <2>6
  <2>8. n2.big[PlaceAt(at)] = w[at]
    BY <1>5, <1>7, <2>1, <2>6
  <2> QED BY <2>2, <2>5, <2>7, <2>8
<1>8. CASE at \in DOMAIN m /\ at \notin DOMAIN m2
  <2>1. /\ Spot(at) /\ PlaceAt(at) \in DOMAIN n.big
        /\ n.big[PlaceAt(at)] = m[at] /\ at[1] \div 2 \in n.flags
    BY <1>8 DEF Agree
  <2>2. PlaceAt(at) \in Nat
    BY <2>1, PlaceFacts
  <2>3. PlaceAt(at) < o \/ PlaceAt(at) >= o + N
    <3>1. SUFFICES ASSUME PlaceAt(at) >= o, PlaceAt(at) < o + N PROVE FALSE
      BY <1>2, <1>3, <2>2
    <3> DEFINE j == PlaceAt(at) - o + 1
    <3>2. j \in 1..N /\ PlaceAt(at) = o + j - 1
      BY <1>2, <1>3, <2>2, <3>1
    <3> HIDE DEF j
    <3>3. PICK y \in DOMAIN m2 : PlaceAt(y) = o + j - 1
      BY <1>4, <3>2
    <3>4. Spot(y)
      BY <1>4
    <3>5. y = at
      BY <2>1, <3>2, <3>3, <3>4, PlaceInjective
    <3> QED BY <1>8, <3>5
  <2>4. n2.big[PlaceAt(at)] = m[at]
    BY <1>1, <2>1, <2>3
  <2>5. PlaceAt(at) \in DOMAIN n2.big /\ at[1] \div 2 \in n2.flags
    BY <1>1, <2>1, <2>2
  <2> QED BY <1>5, <1>8, <2>1, <2>4, <2>5
<1> QED BY <1>5, <1>7, <1>8

\* The machine that loads the file finds what the image agrees with.
LEMMA AgreeSeen ==
    ASSUME NEW n \in Creators, NEW m, Agree(n, m), NEW at \in DOMAIN m
    PROVE  InPage(GenerateFile(n), at[1], at[2]) = m[at]
<1>1. /\ Spot(at) /\ PlaceAt(at) \in DOMAIN n.big
      /\ n.big[PlaceAt(at)] = m[at] /\ at[1] \div 2 \in n.flags
  BY DEF Agree
<1>2. at[1] \in Nat /\ at[2] \in Nat /\ at[2] < Page
  BY <1>1 DEF Spot
<1>3. PlaceOf(at[1], at[2]) \in DOMAIN n.big /\ n.big[PlaceOf(at[1], at[2])] = m[at]
  BY <1>1 DEF PlaceAt
<1> DEFINE p == at[1]
           c == at[2]
<1>4. p \in Nat /\ c \in Nat /\ c < Page /\ p \div 2 \in n.flags
      /\ PlaceOf(p, c) \in DOMAIN n.big /\ n.big[PlaceOf(p, c)] = m[at]
  BY <1>1, <1>2, <1>3
<1> HIDE DEF p, c
<1>5. InPage(GenerateFile(n), p, c) = m[at]
  BY <1>4, InPageIs
<1> QED BY <1>5 DEF p, c

\* A part that stays in the machine stays in the banks the header has flags for.
LEMMA RunBank ==
    ASSUME NEW page \in Nat, NEW a \in Nat, a < Page, NEW n \in Nat,
           page < 16 => (page % 2) * Page + a + n < Bank,
           page * Page + a + n < Banks * Bank
    PROVE  CellOf(page, a, n)[1] \div 2 < Banks
<1> DEFINE at == CellOf(page, a, n)
           o == PlaceAt(at)
<1>1. Spot(at) /\ o = PlaceOf(page, a) + n
  BY RunPlace
<1>2. o \in Nat /\ at[1] \div 2 \in Nat /\ o \div Bank = RealBank(at[1] \div 2)
  <2> HIDE DEF at
  <2> QED BY <1>1, PlaceFacts
<1> HIDE DEF o
<1>3. RealBank(at[1] \div 2) < Banks => at[1] \div 2 < Banks
  <2> DEFINE b == at[1] \div 2
  <2>1. b \in Nat
    BY <1>2
  <2> HIDE DEF b
  <2>2. RealBank(b) < Banks => b < Banks
    BY <2>1, BankTables
  <2> QED BY <2>2 DEF b
<1>4. o \div Bank < Banks
  <2>1. CASE page >= 16
    <3>1. PlaceOf(page, a) = page * Page + a
      BY <2>1, HighPlace
    <3> DEFINE v == page * Page
               w == Banks * Bank
               q == o \div Bank
               r == o % Bank
    <3>2. o = v + a + n /\ v + a + n < w
      BY <1>1, <3>1
    <3>3. q \in Nat /\ r \in Nat /\ o = Bank * q + r
      BY <1>2, BankFacts, Division
    <3>4. v \in Nat
      BY BankFacts
    <3> HIDE DEF q, r, v
    <3>5. Bank * q < w
      <4> DEFINE p == Bank * q
      <4>1. p \in Nat /\ o = p + r
        BY <3>3, BankFacts
      <4>2. w \in Nat
        BY BankFacts, BanksAssumption
      <4> HIDE DEF p, w
      <4> QED BY <3>2, <3>3, <3>4, <4>1, <4>2 DEF p
    <3>6. q < Banks
      <4>1. SUFFICES ASSUME q >= Banks PROVE FALSE
        BY <3>3, BanksAssumption
      <4>2. Bank * q >= Banks * Bank
        BY <3>3, <4>1, BankFacts, BanksAssumption
      <4>3. Bank * q \in Nat /\ w \in Nat
        BY <3>3, BankFacts, BanksAssumption
      <4> DEFINE p == Bank * q
      <4>4. p \in Nat /\ w \in Nat /\ p < w /\ p >= w
        BY <3>5, <4>2, <4>3
      <4> HIDE DEF p, w
      <4> QED BY <4>4
    <3> QED BY <3>6 DEF q
  <2>2. CASE page < 16
    <3> DEFINE b == page \div 2
               t == page % 2
               r == t * Page + a + n
               q == RealBank(b)
    <3>1. b \in Nat /\ t \in Nat /\ t < 2 /\ page = 2 * b + t
      BY Division
    <3>2. PlaceOf(page, a) = q * Bank + (t * Page + a) /\ r < Bank
      BY <2>2 DEF PlaceOf
    <3>3. q \in Nat /\ (b < Banks => q < Banks)
      <4> HIDE DEF b
      <4> QED BY <3>1, BankTables
    <3> HIDE DEF b, t, q
    <3>4. b < Banks
      BY <2>2, <3>1, BanksAssumption
    <3> DEFINE v == t * Page
               w == Bank * q
    <3>5. v \in Nat /\ w \in Nat /\ q * Bank = w
      BY <3>1, <3>3, BankFacts
    <3>6. o = w + r /\ r \in Nat
      <4>1. o = w + (v + a) + n /\ r = v + a + n
        BY <1>1, <3>2, <3>5
      <4> HIDE DEF v, w, r
      <4> QED BY <3>5, <4>1
    <3> HIDE DEF v, r
    <3>7. (Bank * q + r) \div Bank = q
      <4>1. q \in Nat /\ r \in Nat /\ r < Bank /\ Bank \in Nat \ {0}
        BY <3>2, <3>3, <3>6, BankFacts
      <4> HIDE DEF w
      <4> QED BY <4>1, DivisionIs
    <3> QED BY <3>3, <3>4, <3>6, <3>7
  <2> QED BY <2>1, <2>2
<1> QED BY <1>2, <1>3, <1>4

\* The cells of a part from the offset of its line on, and what the folder has to
\* keep to of a line.
Content(l) == SubSeq(Parts[l.file], l.from + 1, Len(Parts[l.file]))

Fits(l) ==
    LET last == (l.addr % Page) + Len(Parts[l.file]) - l.from
    IN /\ l \in LoadLines /\ l.file \in DOMAIN Parts
       /\ l.page < 16 => (l.page % 2) * Page + last <= Bank
       /\ l.page * Page + last <= Banks * Bank

\* What LoadSDBank puts into memory lies in the image one cell after the other.
LEMMA LoadCovers ==
    ASSUME NEW l, Fits(l)
    PROVE  /\ Content(l) \in Seq(Cells)
           /\ Covers(LoadSDBank(l), PlaceOf(l.page, l.addr % Page), Content(l))
<1> DEFINE whole == Parts[l.file]
           W == Len(whole)
           f == l.from
           page == l.page
           a == l.addr % Page
           N == Len(Content(l))
           o == PlaceOf(page, a)
           M == LoadSDBank(l)
<1>1. whole \in Seq(STRING \X Nat) /\ W \in Nat
  BY PartsAssumption DEF Fits
<1>2. f \in Nat /\ page \in Nat /\ l.addr \in Nat /\ a \in Nat /\ a < Page
  <2>1. f \in Nat /\ page \in Nat /\ l.addr \in Nat
    BY DEF Fits, LoadLines
  <2> QED BY <2>1, BankFacts, Division
<1>3. /\ Content(l) \in Seq(STRING \X Nat)
      /\ N = IF f < W THEN W - f ELSE 0
      /\ \A j \in 1..N : Content(l)[j] = whole[f + j]
  <2>1. Content(l) = SubSeq(whole, f + 1, W)
    BY DEF Content
  <2> HIDE DEF whole, W, f
  <2>2. f + 1 \in Int /\ W \in Int /\ \A i \in (f + 1)..W : whole[i] \in STRING \X Nat
    BY <1>1, <1>2 DEF W
  <2> DEFINE c == SubSeq(whole, f + 1, W)
  <2>3. c \in Seq(STRING \X Nat)
    BY <2>2, SubSeqProperties
  <2>4. Len(c) = IF f + 1 <= W THEN W - (f + 1) + 1 ELSE 0
    BY <2>2, SubSeqProperties
  <2>5. \A j \in 1..(W - (f + 1) + 1) : c[j] = whole[f + 1 + j - 1]
    BY <2>2, SubSeqProperties
  <2> HIDE DEF c
  <2>6. Len(c) = IF f < W THEN W - f ELSE 0
    BY <1>1, <1>2, <2>4
  <2>7. \A j \in 1..Len(c) : c[j] = whole[f + j]
    <3> TAKE j \in 1..Len(c)
    <3>1. j \in Nat /\ j \in 1..(W - (f + 1) + 1) /\ f + 1 + j - 1 = f + j
      BY <1>1, <1>2, <2>6
    <3> QED BY <2>5, <3>1
  <2> QED BY <2>1, <2>3, <2>6, <2>7 DEF c
<1>4. N \in Nat /\ W - f - 1 <= N - 1 /\ (N > 0 => W - f = N)
  BY <1>1, <1>2, <1>3
<1>5. /\ page < 16 => (page % 2) * Page + (a + W - f) <= Bank
      /\ page * Page + (a + W - f) <= Banks * Bank
  BY DEF Fits
<1>6. /\ DOMAIN M = {CellOf(page, a, n) : n \in 0..(W - f - 1)}
      /\ \A at \in DOMAIN M : M[at] = whole[f + 1 + (at[1] - page) * Page + at[2] - a]
  BY DEF LoadSDBank, CellOf
<1> HIDE DEF M, o, whole, W, f, a, page, N
<1>7. ASSUME NEW n \in Nat, n < N
      PROVE  /\ Spot(CellOf(page, a, n)) /\ PlaceAt(CellOf(page, a, n)) = o + n
             /\ CellOf(page, a, n)[1] \div 2 < Banks
             /\ CellOf(page, a, n) \in DOMAIN M
             /\ M[CellOf(page, a, n)] = Content(l)[n + 1]
  <2> DEFINE t == page % 2
             v == t * Page
             z == page * Page
             B == Banks * Bank
  <2>1. t \in Nat
    BY <1>2, Division
  <2>2. v \in Nat /\ z \in Nat /\ B \in Nat
    <3> HIDE DEF t
    <3> QED BY <1>2, <2>1, BankFacts, BanksAssumption
  <2>3. (page < 16 => v + (a + W - f) <= Bank) /\ z + (a + W - f) <= B
    BY <1>5
  <2>4. (page < 16 => v + a + n < Bank) /\ z + a + n < B
    <3> HIDE DEF v, z, B
    <3> QED BY <1>1, <1>2, <1>4, <1>7, <2>2, <2>3, BankFacts
  <2>5. (page < 16 => (page % 2) * Page + a + n < Bank) /\ page * Page + a + n < Banks * Bank
    BY <2>4
  <2>6. Spot(CellOf(page, a, n)) /\ PlaceAt(CellOf(page, a, n)) = PlaceOf(page, a) + n
    BY <1>2, <1>7, <2>5, RunPlace
  <2>7. CellOf(page, a, n)[1] \div 2 < Banks
    BY <1>2, <1>7, <2>5, RunBank
  <2>8. CellOf(page, a, n) \in DOMAIN M
    <3>1. n \in 0..(W - f - 1)
      BY <1>1, <1>2, <1>4, <1>7
    <3> QED BY <1>6, <3>1
  <2> DEFINE q == (a + n) \div Page
             r == (a + n) % Page
  <2>9. q \in Nat /\ r \in Nat /\ a + n = Page * q + r
    BY <1>2, <1>7, BankFacts, Division
  <2>10. CellOf(page, a, n)[1] = page + q /\ CellOf(page, a, n)[2] = r
    BY DEF CellOf
  <2>11. M[CellOf(page, a, n)] = whole[f + 1 + ((page + q) - page) * Page + r - a]
    BY <1>6, <2>8, <2>10
  <2> HIDE DEF q, r
  <2>12. f + 1 + ((page + q) - page) * Page + r - a = f + (n + 1)
    <3> DEFINE p == Page * q
    <3>1. p \in Nat /\ ((page + q) - page) * Page = p
      BY <1>2, <2>9, BankFacts
    <3>2. a + n = p + r
      BY <2>9
    <3> HIDE DEF p
    <3> QED BY <1>2, <1>7, <2>9, <3>1, <3>2
  <2>13. n + 1 \in 1..N
    BY <1>4, <1>7
  <2>14. Content(l)[n + 1] = whole[f + (n + 1)]
    BY <1>3, <2>13 DEF N, f, whole, W
  <2> QED BY <2>6, <2>7, <2>8, <2>11, <2>12, <2>14 DEF o
<1>8. ASSUME NEW at \in DOMAIN M
      PROVE  /\ Spot(at) /\ at[1] \div 2 < Banks
             /\ \E j \in 1..N : PlaceAt(at) = o + j - 1 /\ M[at] = Content(l)[j]
  <2>1. PICK n \in 0..(W - f - 1) : at = CellOf(page, a, n)
    BY <1>6
  <2>2. n \in Nat /\ n < N
    BY <1>1, <1>2, <1>4
  <2>3. /\ Spot(at) /\ PlaceAt(at) = o + n /\ at[1] \div 2 < Banks
        /\ M[at] = Content(l)[n + 1]
    BY <1>7, <2>1, <2>2
  <2>4. PlaceAt(at) \in Nat
    BY <2>3, PlaceFacts
  <2> DEFINE j == n + 1
  <2>5. j \in 1..N /\ j \in Nat /\ n = j - 1
    BY <1>4, <2>2
  <2>6. o \in Nat
    BY <1>2, PlaceNat DEF o
  <2>7. PlaceAt(at) = o + j - 1 /\ M[at] = Content(l)[j]
    BY <2>3, <2>5, <2>6
  <2> QED BY <2>3, <2>5, <2>7
<1>9. ASSUME NEW j \in 1..N PROVE \E at \in DOMAIN M : PlaceAt(at) = o + j - 1
  <2> DEFINE n == j - 1
  <2>1. n \in Nat /\ n < N
    BY <1>4
  <2>2. CellOf(page, a, n) \in DOMAIN M /\ PlaceAt(CellOf(page, a, n)) = o + n
    <3> HIDE DEF n
    <3> QED BY <1>7, <2>1
  <2>3. o \in Nat
    BY <1>2, PlaceNat DEF o
  <2>4. o + n = o + j - 1
    BY <1>4, <2>3
  <2> QED BY <2>2, <2>4
<1>10. Content(l) \in Seq(Cells)
  BY <1>3 DEF Cells
<1> QED BY <1>8, <1>9, <1>10 DEF Covers, M, o, N, page, a

\* The place from 16384 up in the RAM the processor has.
WindowCell(x) == <<2 * <<5, 2, 0>>[x \div Bank + 1] + ((x % Bank) \div Page), x % Page>>

LEMMA WindowPlace ==
    ASSUME NEW x \in Nat, x < 6 * Page
    PROVE  /\ Spot(WindowCell(x)) /\ PlaceAt(WindowCell(x)) = x
           /\ WindowCell(x)[1] \div 2 < Banks
<1> DEFINE q == x \div Bank
           y == x % Bank
           h == y \div Page
           r == y % Page
           b == <<5, 2, 0>>[q + 1]
<1>1. q \in Nat /\ y \in Nat /\ y < Bank /\ x = Bank * q + y
  BY BankFacts, Division
<1>2. h \in Nat /\ r \in Nat /\ r < Page /\ y = Page * h + r
  <2> HIDE DEF y
  <2> QED BY <1>1, BankFacts, Division
<1>3. WindowCell(x) = <<2 * b + h, x % Page>>
  BY DEF WindowCell
<1> HIDE DEF q, y, h, r
<1>4. h < 2
  <2>1. SUFFICES ASSUME h >= 2 PROVE FALSE
    BY <1>2
  <2>2. Page * h >= Page + Page
    BY <1>2, <2>1, BankFacts
  <2>3. Page * h \in Nat
    BY <1>2, BankFacts
  <2> DEFINE p == Page * h
  <2>4. p \in Nat /\ p >= Bank /\ y = p + r
    BY <1>2, <2>2, <2>3, BankFacts
  <2> HIDE DEF p
  <2> QED BY <1>1, <1>2, <2>4, BankFacts
<1>5. q < 3
  <2>1. SUFFICES ASSUME q >= 3 PROVE FALSE
    BY <1>1
  <2>2. Bank * q >= Bank * 3 /\ Bank * q \in Nat
    BY <1>1, <2>1, BankFacts
  <2> DEFINE p == Bank * q
  <2>3. p \in Nat /\ p >= 6 * Page /\ x = p + y
    BY <1>1, <2>2, BankFacts
  <2> HIDE DEF p
  <2> QED BY <1>1, <2>3, BankFacts
<1>6. b \in Nat /\ b < 8 /\ RealBank(b) = q
  <2>1. CASE q = 0
    <3>1. b = 5
      BY <2>1
    <3> QED BY <2>1, <3>1 DEF RealBank
  <2>2. CASE q = 1
    <3>1. b = 2
      BY <2>2
    <3> QED BY <2>2, <3>1 DEF RealBank
  <2>3. CASE q = 2
    <3>1. b = 0
      BY <2>3
    <3> QED BY <2>3, <3>1 DEF RealBank
  <2> QED BY <1>1, <1>5, <2>1, <2>2, <2>3
<1> HIDE DEF b
<1>7. x % Page = r
  <2> DEFINE t == 2 * q + h
             u == Bank * q
             v == Page * h
  <2>1. t \in Nat /\ u = Page * (2 * q) /\ Page * t = u + v /\ u \in Nat /\ v \in Nat
    BY <1>1, <1>2, BankFacts
  <2>2. x = u + (v + r)
    BY <1>1, <1>2
  <2>3. x = Page * t + r
    <3> DEFINE w == Page * t
    <3>1. w = u + v
      BY <2>1
    <3> HIDE DEF u, v, w
    <3> QED BY <1>2, <2>1, <2>2, <3>1 DEF w
  <2> HIDE DEF t
  <2> QED BY <1>2, <2>1, <2>3, BankFacts, DivisionIs
<1> DEFINE at == WindowCell(x)
<1>8. at[1] = 2 * b + h /\ at[2] = r /\ at \in Nat \X Nat
  <2>1. 2 * b + h \in Nat
    BY <1>2, <1>6
  <2> QED BY <1>2, <1>3, <1>7, <2>1
<1>9. Spot(at)
  BY <1>2, <1>8 DEF Spot
<1>10. at[1] \div 2 = b /\ at[1] % 2 = h
  <2> HIDE DEF at
  <2> QED BY <1>2, <1>4, <1>6, <1>8
<1>11. PlaceAt(at) = x
  <2>1. PlaceAt(at) = q * Bank + (h * Page + r)
    BY <1>6, <1>8, <1>10 DEF PlaceAt, PlaceOf
  <2>2. q * Bank = Bank * q /\ h * Page = Page * h
    BY <1>1, <1>2, BankFacts
  <2> QED BY <1>1, <1>2, <2>1, <2>2
<1>12. at[1] \div 2 < Banks
  BY <1>6, <1>10, BanksAssumption
<1> QED BY <1>9, <1>11, <1>12

\* Where the last line puts the program in the image.
LEMMA ProgramPlace ==
    ASSUME NEW org \in Address, org >= 2 * Page
    PROVE  /\ org - 2 * Page \in Nat
           /\ RealBank(RamBank(org)) * Bank + (org % Bank) = org - 2 * Page
<1> DEFINE q == org \div Bank
           r == org % Bank
<1>1. /\ q \in {0, 1, 2, 3} /\ r \in Nat /\ r < Bank /\ org = Bank * q + r /\ org \in Nat
  BY WindowOf DEF Address
<1>2. RamBank(org) = CASE q = 1 -> 5 [] q = 2 -> 2 [] q = 3 -> 0 [] q = 0 -> 7
  BY DEF RamBank
<1> HIDE DEF q, r
<1>3. q # 0
  <2>1. SUFFICES ASSUME q = 0 PROVE FALSE
    OBVIOUS
  <2>2. Bank * q = 0
    BY <2>1, BankFacts
  <2> QED BY <1>1, <2>2, BankFacts
<1>4. RealBank(RamBank(org)) = q - 1 /\ q - 1 \in Nat
  <2>1. CASE q = 1
    BY <1>2, <2>1 DEF RealBank
  <2>2. CASE q = 2
    BY <1>2, <2>2 DEF RealBank
  <2>3. CASE q = 3
    BY <1>2, <2>3 DEF RealBank
  <2> QED BY <1>1, <1>3, <2>1, <2>2, <2>3
<1>5. (q - 1) * Bank = Bank * q - Bank
  BY <1>1, BankFacts
<1>6. Bank * q \in Nat
  BY <1>1, BankFacts
<1> QED BY <1>1, <1>4, <1>5, <1>6, BankFacts DEF r

\* A binary whose program lies in that RAM lies in the image cell after cell.
LEMMA ProgramCovers ==
    ASSUME NEW b \in Binaries, b.org >= 2 * Page, b.org + b.size <= 8 * Page
    PROVE  Covers(ProgramCells(b), b.org - 2 * Page, Code(b))
<1> DEFINE first == b.org - 2 * Page
           N == b.size
           M == ProgramCells(b)
           c(n) == WindowCell(first + n)
<1>1. b.org \in Address /\ b.org \in Nat /\ N \in Nat
  BY DEF Binaries, Address
<1>2. first \in Nat
  BY <1>1, ProgramPlace
<1>3. \A n \in 0..(N - 1) : first + n \in Nat /\ first + n < 6 * Page /\ first + n \in 0..(6 * Page - 1)
  BY <1>1, <1>2, BankFacts
<1>4. {m \in 0..(N - 1) : first + m \in 0..(6 * Page - 1)} = 0..(N - 1)
  BY <1>3
<1>5. /\ DOMAIN M = {c(n) : n \in 0..(N - 1)}
      /\ \A at \in DOMAIN M : M[at] = LET n == CHOOSE n \in 0..(N - 1) : at = c(n)
                                      IN <<b.unit, b.ver, n + 1>>
  <2> DEFINE S == {m \in 0..(b.size - 1) : first + m \in 0..(6 * Page - 1)}
             d(n) == <<2 * <<5, 2, 0>>[(first + n) \div Bank + 1]
                       + (((first + n) % Bank) \div Page), (first + n) % Page>>
             e(at) == LET n == CHOOSE n \in 0..(b.size - 1) : at = d(n)
                      IN <<b.unit, b.ver, n + 1>>
  <2>1. M = [at \in {d(n) : n \in S} |-> e(at)]
    BY DEF ProgramCells
  <2>2. S = 0..(N - 1)
    BY <1>4
  <2>3. \A n : d(n) = c(n)
    BY DEF WindowCell
  <2>4. \A at : e(at) = LET n == CHOOSE n \in 0..(N - 1) : at = c(n)
                        IN <<b.unit, b.ver, n + 1>>
    BY <2>3
  <2>5. {d(n) : n \in S} = {c(n) : n \in 0..(N - 1)}
    BY <2>2, <2>3
  <2> HIDE DEF d, e, S, M, c
  <2> QED BY <2>1, <2>4, <2>5
<1>6. \A n \in 0..(N - 1) : Spot(c(n)) /\ PlaceAt(c(n)) = first + n /\ c(n)[1] \div 2 < Banks
  BY <1>3, WindowPlace
<1> DEFINE o == first
           C == Code(b)
<1>8. Len(C) = N /\ \A j \in 1..N : C[j] = <<b.unit, b.ver, j>>
  <2> DEFINE z(n) == <<b.unit, b.ver, n>>
  <2>1. C = [n \in 1..N |-> z(n)]
    BY DEF Code
  <2> HIDE DEF z, C, N
  <2>2. Len(C) = N /\ \A j \in 1..N : C[j] = z(j)
    BY <1>1, <2>1
  <2> QED BY <2>2 DEF z
<1> HIDE DEF M, c, C, o, N
<1>9. ASSUME NEW at \in DOMAIN M
      PROVE  /\ Spot(at) /\ at[1] \div 2 < Banks
             /\ \E j \in 1..N : PlaceAt(at) = o + j - 1 /\ M[at] = C[j]
  <2> DEFINE n == CHOOSE n \in 0..(N - 1) : at = c(n)
  <2>1. \E k \in 0..(N - 1) : at = c(k)
    BY <1>5
  <2>2. n \in 0..(N - 1) /\ at = c(n)
    BY <2>1
  <2>3. M[at] = <<b.unit, b.ver, n + 1>>
    BY <1>5
  <2> HIDE DEF n
  <2> DEFINE j == n + 1
  <2>4. j \in 1..N /\ n = j - 1 /\ j \in Nat /\ o + j - 1 = o + n
    BY <1>1, <1>2, <2>2 DEF o
  <2>5. M[at] = C[j] /\ PlaceAt(at) = o + j - 1
    BY <1>6, <1>8, <2>2, <2>3, <2>4 DEF o
  <2> QED BY <1>6, <2>2, <2>4, <2>5
<1>10. ASSUME NEW j \in 1..N PROVE \E at \in DOMAIN M : PlaceAt(at) = o + j - 1
  <2> DEFINE n == j - 1
  <2>1. n \in 0..(N - 1) /\ o + n = o + j - 1
    BY <1>1, <1>2 DEF o
  <2> HIDE DEF n
  <2> QED BY <1>5, <1>6, <2>1 DEF o
<1> QED BY <1>8, <1>9, <1>10 DEF Covers, M, o, C

\* A !MMU line puts its file where its page and its address say.
LEMMA MMULaid ==
    ASSUME NEW n \in Creators, NEW disk, Folder(disk), NEW line, line.op = "mmu",
           line.page \in Nat, line.addr \in Nat, line.addr < Page, ~n.broken,
           ~ParseLine(n, line, disk).broken
    PROVE  /\ line.file \in DOMAIN disk
           /\ \E k \in Creators : /\ k.big = n.big /\ k.flags = n.flags
                                  /\ Offset(k) = PlaceOf(line.page, line.addr)
                                  /\ Filed(k, ParseLine(n, line, disk), disk[line.file])
<1> DEFINE b == line.page \div 2
           t == line.page % 2
           a == line.addr + t * Page
           k == [n EXCEPT !.bank = b, !.addr = a]
           m == ParseLine(n, line, disk)
<1>1. b \in Nat /\ t \in Nat /\ t < 2 /\ a \in Nat
  <2>1. b \in Nat /\ a \in Nat
    BY MMUPlace
  <2>2. t \in Nat /\ t < 2
    <3> DEFINE q == line.page
    <3>1. q \in Nat
      OBVIOUS
    <3> HIDE DEF q
    <3>2. q % 2 \in Nat /\ q % 2 < 2
      BY <3>1
    <3> QED BY <3>2 DEF q
  <2> QED BY <2>1, <2>2
<1>2. m = AddFile(k, line.file, disk)
  <2>1. n.broken = FALSE
    BY DEF Creators
  <2> QED BY <2>1 DEF ParseLine, LoadMMU
<1>3. a % Bank = t * Page + line.addr
  <2> DEFINE c == line.addr
             z == 0
  <2>1. c \in Nat /\ c < Page
    OBVIOUS
  <2> HIDE DEF t, c
  <2>2. t * Page + c \in Nat /\ t * Page + c < Bank
    <3>1. z \in Nat
      OBVIOUS
    <3> QED BY <1>1, <2>1, <3>1, TwoPages
  <2> DEFINE r == t * Page + c
  <2>3. r \in Nat /\ r < Bank
    BY <2>2
  <2>4. a = r
    <3> DEFINE v == t * Page
    <3>1. v \in Nat
      BY <1>1, BankFacts
    <3>2. a = c + v /\ r = v + c
      BY DEF c
    <3> HIDE DEF v
    <3> QED BY <2>1, <3>1, <3>2
  <2> HIDE DEF r, a
  <2>5. Bank * z + r = r /\ z \in Nat
    BY <2>3, BankFacts
  <2> HIDE DEF z
  <2>6. (Bank * z + r) % Bank = r
    BY <2>3, <2>5, BankFacts, DivisionIs
  <2> QED BY <2>4, <2>5, <2>6 DEF r, c
<1> HIDE DEF b, a
<1>4. k \in Creators /\ k.big = n.big /\ k.flags = n.flags /\ k.bank = b /\ k.addr = a
  <2>1. b \in Nat /\ a \in Nat
    BY <1>1
  <2> QED BY <2>1 DEF Creators
<1>5. Offset(k) = PlaceOf(line.page, line.addr)
  BY <1>3, <1>4 DEF Offset, PlaceOf, b
<1> HIDE DEF k, m
<1>6. line.file \in DOMAIN disk
  BY <1>2, <1>4, AddFileFacts DEF m
<1>7. Filed(k, m, disk[line.file])
  BY <1>2, <1>4, <1>6, AddFileFacts
<1> QED BY <1>4, <1>5, <1>6, <1>7 DEF m

\* The line of a part lays over the image what LoadSDBank lays over the memory.
LEMMA PartOver ==
    ASSUME NEW n \in Creators, NEW m, Agree(n, m), NEW disk, Folder(disk), NEW l, Fits(l),
           NEW line, line.op = "mmu", line.page = l.page, line.addr = l.addr % Page,
           line.file \in DOMAIN disk => disk[line.file] = Content(l),
           ~n.broken, ~ParseLine(n, line, disk).broken
    PROVE  Agree(ParseLine(n, line, disk), Over(LoadSDBank(l), m))
<1>1. l.page \in Nat /\ l.addr % Page \in Nat /\ l.addr % Page < Page
  <2>1. l.page \in Nat /\ l.addr \in Nat
    BY DEF Fits, LoadLines
  <2> QED BY <2>1, BankFacts, Division
<1>2. line.page \in Nat /\ line.addr \in Nat /\ line.addr < Page
  BY <1>1
<1> DEFINE p == ParseLine(n, line, disk)
<1>3. /\ line.file \in DOMAIN disk
      /\ \E k \in Creators : /\ k.big = n.big /\ k.flags = n.flags
                             /\ Offset(k) = PlaceOf(line.page, line.addr)
                             /\ Filed(k, p, disk[line.file])
  BY <1>2, MMULaid
<1>4. PICK k \in Creators : /\ k.big = n.big /\ k.flags = n.flags
                            /\ Offset(k) = PlaceOf(line.page, line.addr)
                            /\ Filed(k, p, disk[line.file])
  BY <1>3
<1>5. Filed(k, p, Content(l)) /\ Offset(k) = PlaceOf(l.page, l.addr % Page)
  BY <1>3, <1>4
<1>6. Content(l) \in Seq(Cells) /\ Covers(LoadSDBank(l), Offset(k), Content(l))
  BY <1>5, LoadCovers
<1> HIDE DEF p
<1>7. Agree(p, Over(LoadSDBank(l), m))
  BY <1>4, <1>5, <1>6, LaidOver
<1> QED BY <1>7 DEF p

\* The program goes over everything.
LEMMA ProgramOver ==
    ASSUME NEW n \in Creators, NEW m, Agree(n, m), NEW disk, Folder(disk), NEW name,
           NEW b \in Binaries, b.org >= 2 * Page, b.org + b.size <= 8 * Page,
           name \in DOMAIN disk => disk[name] = Code(b),
           ~ProgramAt(n, b.org, name, disk).broken
    PROVE  Agree(ProgramAt(n, b.org, name, disk), Over(ProgramCells(b), m))
<1> DEFINE org == b.org
           r == org % Bank
           w == RamBank(org)
           k == [n EXCEPT !.bank = w, !.addr = r]
           p == ProgramAt(n, org, name, disk)
<1>0. org \in Address
  BY DEF Binaries
<1>1. w \in Nat /\ r \in Nat /\ r < Bank
  <2> HIDE DEF org
  <2> QED BY <1>0, WindowOf
<1>2. p = AddFile(k, name, disk)
  BY DEF ProgramAt
<1>3. RealBank(w) * Bank + r = org - 2 * Page
  BY <1>0, ProgramPlace
<1> HIDE DEF r, w
<1>4. k \in Creators /\ k.big = n.big /\ k.flags = n.flags /\ k.bank = w /\ k.addr = r
  <2>1. w \in Nat /\ r \in Nat
    BY <1>1
  <2> QED BY <2>1 DEF Creators
<1> HIDE DEF k
<1>5. Offset(k) = org - 2 * Page
  <2> DEFINE z == 0
  <2>1. z \in Nat /\ Bank * z + r = r
    BY <1>1, BankFacts
  <2> HIDE DEF z
  <2>2. (Bank * z + r) % Bank = r
    BY <1>1, <2>1, BankFacts, DivisionIs
  <2>3. r % Bank = r
    BY <1>1, <2>1, <2>2
  <2> QED BY <1>3, <1>4, <2>3 DEF Offset
<1>6. name \in DOMAIN disk /\ Filed(k, p, disk[name])
  <2>1. ~p.broken
    OBVIOUS
  <2> HIDE DEF p
  <2>2. name \in DOMAIN disk
    BY <1>2, <1>4, <2>1, AddFileFacts
  <2> QED BY <1>2, <1>4, <2>2, AddFileFacts
<1>7. Filed(k, p, Code(b)) /\ Code(b) \in Seq(Cells)
  BY <1>6 DEF Folder
<1>8. Covers(ProgramCells(b), Offset(k), Code(b))
  BY <1>5, ProgramCovers
<1> HIDE DEF p
<1>9. Agree(p, Over(ProgramCells(b), m))
  BY <1>4, <1>7, <1>8, LaidOver
<1> QED BY <1>9 DEF p

\* A configuration that is packed to the end was never broken.
LEMMA NeverBroken ==
    ASSUME NEW lines \in Seq(CfgLines), NEW disk, NEW h, Parsing(h, lines, disk),
           ~ParseFile(lines, disk).broken
    PROVE  \A k \in 0..Len(lines) : ~h[k].broken
<1> DEFINE N == Len(lines)
           K == {i \in Nat : i <= N => ~h[N - i].broken}
<1>1. /\ N \in Nat /\ ~h[N].broken /\ \A k \in 0..N : h[k] \in Creators
      /\ \A k \in 1..N : h[k] = ParseLine(h[k - 1], lines[k], disk)
  BY DEF Parsing
<1> HIDE DEF N
<1>2. 0 \in K
  BY <1>1
<1>3. ASSUME NEW i \in Nat, i \in K PROVE i + 1 \in K
  <2>1. SUFFICES ASSUME i + 1 <= N, h[N - (i + 1)].broken PROVE FALSE
    OBVIOUS
  <2> DEFINE j == N - (i + 1)
  <2>2. j \in 0..N /\ j + 1 \in 1..N /\ N - i = j + 1 /\ (j + 1) - 1 = j
    BY <1>1, <2>1
  <2>3. ~h[j + 1].broken
    BY <1>1, <1>3, <2>1, <2>2
  <2>4. h[j].broken
    BY <2>1
  <2> HIDE DEF j
  <2>5. h[j + 1] = ParseLine(h[j], lines[j + 1], disk)
    BY <1>1, <2>2
  <2>6. h[j + 1] = h[j]
    BY <1>1, <2>2, <2>4, <2>5, BrokenStays
  <2> QED BY <2>3, <2>4, <2>6
<1>4. Nat \subseteq K
  <2> HIDE DEF K
  <2> QED BY <1>2, <1>3, NatSetInduction
<1>5. ASSUME NEW k \in 0..N PROVE ~h[k].broken
  <2> DEFINE i == N - k
  <2>1. i \in Nat /\ i <= N /\ N - i = k
    BY <1>1
  <2> HIDE DEF i
  <2>2. i \in K
    BY <1>4, <2>1
  <2> QED BY <2>1, <2>2
<1> QED BY <1>5 DEF N

-----------------------------------------------------------------------------
(* Trimmed copies.                                                         *)

\* The copies of the parts of a source are cut as its lines say.
TrimsOf(t, loads) ==
    \A k \in DOMAIN loads : loads[k].from > 0 =>
      Trimmed(loads[k].file) \in DOMAIN t /\ t[Trimmed(loads[k].file)] = Cut(loads[k])

\* One name for all copies of the parts of a stem, and one cut for all of them.
Alike(loads) ==
    \A j, k \in DOMAIN loads :
      (/\ loads[j].from > 0 /\ loads[k].from > 0
       /\ Trimmed(loads[j].file) = Trimmed(loads[k].file))
        => Cut(loads[j]) = Cut(loads[k])

LEMMA TrimsDone ==
    ASSUME Typed, NEW input \in Units, Alike(src[input].prog.loads)
    PROVE  TrimsOf(TrimsBefore(input, Len(src[input].prog.loads) + 1), src[input].prog.loads)
<1> DEFINE loads == src[input].prog.loads
           n == Len(loads)
           last == TrimsBefore(input, n + 1)
<1>1. loads \in Seq(LoadLines)
  BY DEF Typed, Program
<1>2. n \in Nat /\ DOMAIN loads = 1..n /\ \A k \in 1..n : loads[k] \in LoadLines
  <2> HIDE DEF loads
  <2> QED BY <1>1
<1>3. SubSeq(loads, 1, n) = loads
  <2> HIDE DEF loads
  <2> QED BY <1>1
<1>4. last = Trims(trims, loads)
  <2>1. last = Trims(trims, SubSeq(loads, 1, n + 1 - 1))
    BY DEF TrimsBefore, Trims
  <2>2. n + 1 - 1 = n
    BY <1>2
  <2> QED BY <1>3, <2>1, <2>2
<1>5. Alike(loads)
  OBVIOUS
<1> HIDE DEF loads, n, last
<1>6. PICK h : Run(h, "trim", 0, trims, loads) /\ last = h[n]
  <2>1. \E h : Run(h, "trim", 0, trims, loads) /\ Trims(trims, loads) = h[n]
    BY <1>2, TrimRun DEF n
  <2> QED BY <1>4, <2>1
<1> DEFINE Good(t, j) == \A k \in 1..j : loads[k].from > 0 =>
                           Trimmed(loads[k].file) \in DOMAIN t /\ t[Trimmed(loads[k].file)] = Cut(loads[k])
           K == {j \in Nat : j <= n => Good(h[j], j)}
<1>7. 0 \in K
  OBVIOUS
<1>8. ASSUME NEW j \in Nat, j \in K PROVE j + 1 \in K
  <2>1. SUFFICES ASSUME j + 1 <= n PROVE Good(h[j + 1], j + 1)
    OBVIOUS
  <2>2. j + 1 \in 1..n /\ (j + 1) - 1 = j /\ j <= n /\ 1..j \subseteq 1..n
    BY <1>2, <2>1
  <2> DEFINE t == h[j]
             v == h[j + 1]
             l == loads[j + 1]
  <2>3. Good(t, j)
    BY <1>8, <2>2
  <2>4. v = IF l.from > 0 THEN Store(t, Trimmed(l.file), Cut(l)) ELSE t
    BY <1>2, <1>6, <2>2 DEF Run, FoldStep, n
  <2>5. ASSUME NEW k \in 1..(j + 1), loads[k].from > 0
        PROVE  Trimmed(loads[k].file) \in DOMAIN v /\ v[Trimmed(loads[k].file)] = Cut(loads[k])
    <3> DEFINE f == Trimmed(loads[k].file)
               c == Trimmed(l.file)
               w == Cut(l)
    <3>1. k \in DOMAIN loads /\ j + 1 \in DOMAIN loads
      BY <1>2, <2>2
    <3>2. CASE l.from > 0 /\ f = c
      <4>1. Cut(loads[k]) = w
        BY <1>5, <2>5, <3>1, <3>2 DEF Alike
      <4> HIDE DEF f, c, w
      <4>2. c \in DOMAIN Store(t, c, w) /\ Store(t, c, w)[c] = w
        BY DEF Store, Over
      <4>3. v = Store(t, c, w)
        BY <2>4, <3>2 DEF c, w
      <4> QED BY <3>2, <4>1, <4>2, <4>3 DEF f
    <3>3. CASE ~(l.from > 0 /\ f = c)
      <4>1. k # j + 1
        BY <2>5, <3>3
      <4>2. k \in 1..j
        BY <4>1
      <4>3. f \in DOMAIN t /\ t[f] = Cut(loads[k])
        BY <2>3, <2>5, <4>2
      <4>4. v = IF l.from > 0 THEN Store(t, c, w) ELSE t
        BY <2>4
      <4> HIDE DEF f, c, w
      <4>5. l.from > 0 => f \in DOMAIN Store(t, c, w) /\ Store(t, c, w)[f] = t[f]
        BY <3>3, <4>3 DEF Store, Over
      <4>6. f \in DOMAIN v /\ v[f] = Cut(loads[k])
        BY <4>3, <4>4, <4>5
      <4> QED BY <4>6 DEF f
    <3> QED BY <3>2, <3>3
  <2> QED BY <2>5
<1>9. n \in K
  <2>1. Nat \subseteq K
    <3> HIDE DEF K
    <3> QED BY <1>7, <1>8, NatSetInduction
  <2> QED BY <1>2, <2>1
<1>10. Good(last, n)
  BY <1>2, <1>6, <1>9
<1> QED BY <1>2, <1>10 DEF TrimsOf, last, n, loads

\* What nextcreator.py finds of a part is what its line is to load.
LEMMA PartOnDisk ==
    ASSUME NEW l \in LoadLines, l.file \in DOMAIN Parts,
           l.from > 0 => Trimmed(l.file) \in DOMAIN trims /\ trims[Trimmed(l.file)] = Cut(l)
    PROVE  LET name == LoadLine(l).file
           IN name \in DOMAIN OnDisk /\ OnDisk[name] = Content(l)
<1> DEFINE name == LoadLine(l).file
           whole == Parts[trims[name].file]
<1>1. l.file \in {"part"} \X STRING \X STRING /\ l.from \in Nat
  BY DEF LoadLines, Part
<1>2. Parts[l.file] \in Seq(STRING \X Nat)
  BY PartsAssumption
<1>3. name = IF l.from > 0 THEN Trimmed(l.file) ELSE l.file
  BY DEF LoadLine
<1>4. name \in DOMAIN OnDisk =>
        OnDisk[name] = CASE name[1] = "part" -> Parts[name]
                         [] name[1] = "bin"  -> Code(bin[name[2]])
                         [] name[1] = "tr"   -> SubSeq(whole, trims[name].from + 1, Len(whole))
  BY DEF OnDisk
<1>5. name \in DOMAIN OnDisk
  BY <1>3 DEF OnDisk
<1>6. CASE l.from > 0
  <2>1. name[1] = "tr" /\ trims[name] = Cut(l)
    BY <1>3, <1>6 DEF Trimmed
  <2>3. trims[name].file = l.file /\ trims[name].from = l.from
    BY <2>1 DEF Cut
  <2> HIDE DEF name
  <2>2. OnDisk[name] = SubSeq(whole, trims[name].from + 1, Len(whole))
    BY <1>4, <1>5, <2>1
  <2> QED BY <1>5, <2>2, <2>3 DEF Content, name
<1>7. CASE ~(l.from > 0)
  <2>1. name = l.file /\ name[1] = "part" /\ l.from = 0
    BY <1>1, <1>3, <1>7
  <2> HIDE DEF name
  <2>2. OnDisk[name] = Parts[name]
    BY <1>4, <1>5, <2>1
  <2> DEFINE w == Parts[l.file]
  <2>3. SubSeq(w, 1, Len(w)) = w
    <3>1. w \in Seq(STRING \X Nat)
      BY <1>2
    <3> HIDE DEF w
    <3> QED BY <3>1
  <2>4. Content(l) = SubSeq(w, 1, Len(w))
    BY <2>1 DEF Content
  <2> QED BY <1>5, <2>1, <2>2, <2>3, <2>4 DEF name
<1> QED BY <1>6, <1>7

-----------------------------------------------------------------------------
(* The configuration, line by line.                                        *)

\* C is A and then B.
Joins(C, A, B) == /\ Len(C) = Len(A) + Len(B)
                  /\ \A k \in 1..Len(A) : C[k] = A[k]
                  /\ \A k \in 1..Len(B) : C[Len(A) + k] = B[k]

LEMMA Joined ==
    ASSUME NEW S, NEW A \in Seq(S), NEW B \in Seq(S)
    PROVE  A \o B \in Seq(S) /\ Joins(A \o B, A, B)
<1> DEFINE C == A \o B
           a == Len(A)
           b == Len(B)
<1>1. C \in Seq(S)
  BY ConcatProperties
<1>2. Len(C) = a + b
  BY ConcatProperties
<1>3. \A i \in 1..(a + b) : C[i] = IF i <= a THEN A[i] ELSE B[i - a]
  BY ConcatProperties
<1>4. a \in Nat /\ b \in Nat
  OBVIOUS
<1> HIDE DEF C, a, b
<1>5. ASSUME NEW k \in 1..a PROVE C[k] = A[k]
  <2>1. k \in 1..(a + b) /\ k <= a
    BY <1>4
  <2> QED BY <1>3, <2>1
<1>6. ASSUME NEW k \in 1..b PROVE C[a + k] = B[k]
  <2> DEFINE i == a + k
  <2>1. i \in 1..(a + b) /\ ~(i <= a) /\ i - a = k
    BY <1>4
  <2> HIDE DEF i
  <2>2. C[i] = B[i - a]
    BY <1>3, <2>1
  <2> QED BY <2>1, <2>2 DEF i
<1> QED BY <1>1, <1>2, <1>5, <1>6 DEF C, a, b, Joins

\* Lines before the loads: the system variables and a picture.
Before(s) == (IF s.noSys THEN 0 ELSE 1) + (IF s.bmp = None THEN 0 ELSE 1)
BmpLine(s) == [op |-> "bmp", file |-> s.bmp]
StartLine(s) == IF s.pcadd = 0 THEN [op |-> "pcsp", pc |-> 0, sp |-> <<0, 0>>]
                               ELSE [op |-> "pcsp", pc |-> s.org, sp |-> <<s.org, -2>>]

\* What the lines of a configuration are.
Shaped(lines, s, u, loads) ==
    LET p == Before(s)
        n == Len(loads)
    IN /\ lines \in Seq(CfgLines) /\ Len(lines) = p + n + 2
       /\ ~s.noSys => lines[1] = SysVarsLine
       /\ s.bmp # None => lines[p] = BmpLine(s)
       /\ \A k \in 1..n : lines[p + k] = LoadLine(loads[k])
       /\ lines[p + n + 1] = StartLine(s)
       /\ lines[p + n + 2] = BinLine(s, u)

LEMMA CfgShape ==
    ASSUME Typed, NEW s \in Settings, NEW u \in Units, NEW input \in Units
    PROVE  Shaped(NexCfg(s, u, input), s, u, src[input].prog.loads)
<1> DEFINE loads == src[input].prog.loads
           A == IF s.noSys THEN <<>> ELSE <<SysVarsLine>>
           B == IF s.bmp = None THEN <<>> ELSE <<BmpLine(s)>>
           L == [k \in DOMAIN loads |-> LoadLine(loads[k])]
           P == <<StartLine(s)>>
           E == <<BinLine(s, u)>>
           a == IF s.noSys THEN 0 ELSE 1
           b == IF s.bmp = None THEN 0 ELSE 1
           n == Len(loads)
           lines == NexCfg(s, u, input)
           any == CfgLines \cup {SysVarsLine, BmpLine(s), StartLine(s), BinLine(s, u)}
                  \cup {LoadLine(loads[k]) : k \in DOMAIN loads}
<1>1. lines \in Seq(CfgLines)
  BY CfgTyped
<1>2. n \in Nat /\ DOMAIN loads = 1..n
  <2>1. loads \in Seq(LoadLines)
    BY DEF Typed, Program
  <2> HIDE DEF loads
  <2> QED BY <2>1
<1>3. lines = A \o B \o L \o P \o E
  BY DEF NexCfg, BmpLine, StartLine, BinLine
<1>40. ASSUME NEW x \in any PROVE <<x>> \in Seq(any) /\ Len(<<x>>) = 1 /\ <<x>>[1] = x
  <2> HIDE DEF any
  <2> QED OBVIOUS
<1>41. <<>> \in Seq(any) /\ Len(<<>>) = 0
  <2> HIDE DEF any
  <2> QED OBVIOUS
<1>42. SysVarsLine \in any /\ BmpLine(s) \in any /\ StartLine(s) \in any /\ BinLine(s, u) \in any
  OBVIOUS
<1>4. A \in Seq(any) /\ Len(A) = a /\ (~s.noSys => A[1] = SysVarsLine)
  <2> HIDE DEF any
  <2> QED BY <1>40, <1>41, <1>42
<1>5. B \in Seq(any) /\ Len(B) = b /\ (s.bmp # None => B[1] = BmpLine(s))
  <2> HIDE DEF any
  <2> QED BY <1>40, <1>41, <1>42
<1>6. L \in Seq(any) /\ Len(L) = n /\ \A k \in 1..n : L[k] = LoadLine(loads[k])
  <2>1. \A k \in 1..n : LoadLine(loads[k]) \in any
    BY <1>2
  <2>2. L = [k \in 1..n |-> LoadLine(loads[k])]
    BY <1>2
  <2> HIDE DEF L, any, n
  <2> QED BY <1>2, <2>1, <2>2
<1>7. P \in Seq(any) /\ Len(P) = 1 /\ P[1] = StartLine(s)
  <2> HIDE DEF any
  <2> QED BY <1>40, <1>42
<1>8. E \in Seq(any) /\ Len(E) = 1 /\ E[1] = BinLine(s, u)
  <2> HIDE DEF any
  <2> QED BY <1>40, <1>42
<1>9. a \in Nat /\ b \in Nat /\ (~s.noSys => a = 1) /\ (s.bmp # None => b = 1)
      /\ Before(s) = a + b
  BY DEF Before
<1> HIDE DEF A, B, L, P, E, a, b, n, lines, any, loads
<1> DEFINE AB == A \o B
           ABL == AB \o L
           ABLP == ABL \o P
           W == ABLP \o E
<1>10. /\ AB \in Seq(any) /\ Len(AB) = a + b
       /\ \A k \in 1..a : AB[k] = A[k]
       /\ \A k \in 1..b : AB[a + k] = B[k]
  <2>1. AB \in Seq(any) /\ Joins(AB, A, B)
    BY <1>4, <1>5, Joined
  <2> HIDE DEF AB
  <2> QED BY <1>4, <1>5, <2>1 DEF Joins
<1> HIDE DEF AB
<1>11. /\ ABL \in Seq(any) /\ Len(ABL) = a + b + n
       /\ \A k \in 1..(a + b) : ABL[k] = AB[k]
       /\ \A k \in 1..n : ABL[a + b + k] = L[k]
  <2>1. ABL \in Seq(any) /\ Joins(ABL, AB, L)
    BY <1>6, <1>10, Joined
  <2> HIDE DEF ABL
  <2> QED BY <1>6, <1>10, <2>1 DEF Joins
<1> HIDE DEF ABL
<1>12. /\ ABLP \in Seq(any) /\ Len(ABLP) = a + b + n + 1
       /\ \A k \in 1..(a + b + n) : ABLP[k] = ABL[k]
       /\ \A k \in 1..1 : ABLP[a + b + n + k] = P[k]
  <2>1. ABLP \in Seq(any) /\ Joins(ABLP, ABL, P)
    BY <1>7, <1>11, Joined
  <2> HIDE DEF ABLP
  <2> QED BY <1>7, <1>11, <2>1 DEF Joins
<1> HIDE DEF ABLP
<1>13. /\ Len(W) = a + b + n + 1 + 1
       /\ \A k \in 1..(a + b + n + 1) : W[k] = ABLP[k]
       /\ \A k \in 1..1 : W[a + b + n + 1 + k] = E[k]
  <2>1. Joins(W, ABLP, E)
    BY <1>8, <1>12, Joined
  <2> HIDE DEF W
  <2> QED BY <1>8, <1>12, <2>1 DEF Joins
<1> HIDE DEF W
<1>14. lines = W
  BY <1>3 DEF W, ABLP, ABL, AB
<1> DEFINE p == a + b
<1>15. p \in Nat /\ Len(lines) = p + n + 2
  BY <1>2, <1>9, <1>13, <1>14
<1>16. ~s.noSys => lines[1] = SysVarsLine
  <2>1. SUFFICES ASSUME ~s.noSys PROVE lines[1] = SysVarsLine
    OBVIOUS
  <2>2. 1 \in 1..a /\ 1 \in 1..(a + b) /\ 1 \in 1..(a + b + n) /\ 1 \in 1..(a + b + n + 1)
    BY <1>2, <1>9, <2>1
  <2>3. W[1] = A[1]
    BY <1>10, <1>11, <1>12, <1>13, <2>2
  <2> QED BY <1>4, <1>14, <2>1, <2>3
<1>17. s.bmp # None => lines[p] = BmpLine(s)
  <2>1. SUFFICES ASSUME s.bmp # None PROVE lines[p] = BmpLine(s)
    OBVIOUS
  <2>2. 1 \in 1..b /\ p = a + 1 /\ p \in 1..(a + b) /\ p \in 1..(a + b + n) /\ p \in 1..(a + b + n + 1)
    BY <1>2, <1>9, <2>1
  <2>3. W[p] = AB[p]
    BY <1>11, <1>12, <1>13, <2>2
  <2>4. AB[a + 1] = B[1]
    BY <1>10, <2>2
  <2> QED BY <1>5, <1>14, <2>1, <2>2, <2>3, <2>4
<1>18. ASSUME NEW k \in 1..n PROVE lines[p + k] = LoadLine(loads[k])
  <2>1. p + k \in 1..(a + b + n) /\ p + k \in 1..(a + b + n + 1) /\ p + k = a + b + k
    BY <1>2, <1>9
  <2>2. W[p + k] = L[k]
    BY <1>11, <1>12, <1>13, <2>1
  <2> QED BY <1>6, <1>14, <2>2
<1>19. lines[p + n + 1] = StartLine(s)
  <2>1. p + n + 1 \in 1..(a + b + n + 1) /\ p + n + 1 = a + b + n + 1 /\ 1 \in 1..1
    BY <1>2, <1>9
  <2> QED BY <1>7, <1>12, <1>13, <1>14, <2>1
<1>20. lines[p + n + 2] = BinLine(s, u)
  <2>1. p + n + 2 = a + b + n + 1 + 1 /\ 1 \in 1..1
    BY <1>2, <1>9
  <2> QED BY <1>8, <1>13, <1>14, <2>1
<1>21. Before(s) = p
  BY <1>9
<1> HIDE DEF p
<1> QED BY <1>1, <1>15, <1>16, <1>17, <1>18, <1>19, <1>20, <1>21 DEF Shaped, lines, n, loads

\* What LoadSDBank leaves in memory, line after line.
Memory(from, loads) == FoldLeft(LAMBDA m, l : Over(LoadSDBank(l), m), from, loads)

LEMMA MemoryRun ==
    ASSUME NEW base, NEW seq, NEW n \in Nat, DOMAIN seq = 1..n, Len(seq) = n
    PROVE  \E h : Run(h, "load", 0, base, seq) /\ Memory(base, seq) = h[n]
<1> DEFINE F(t, l) == Over(LoadSDBank(l), t)
           Body(g) == g = [s \in SUBSET DOMAIN seq |->
                IF s = {} THEN base ELSE F(g[s \ {Max(s)}], seq[Max(s)])]
           f == CHOOSE g : Body(g)
<1>1. Memory(base, seq) = f[DOMAIN seq]
  BY DEF Memory, FoldLeft, MapThenFoldSet
<1>2. \A g : Body(g) <=> Folding(g, "load", 0, base, seq)
  BY DEF Folding, FoldStep
<1>3. Folding(f, "load", 0, base, seq)
  <2>1. \E g : Folding(g, "load", 0, base, seq)
    BY FoldingDefined
  <2>2. \E g : Body(g)
    BY <1>2, <2>1
  <2>3. Body(f)
    <3> HIDE DEF Body
    <3> QED BY <2>2
  <2> QED BY <1>2, <2>3
<1> HIDE DEF f
<1> QED BY <1>1, <1>3, FoldingRuns

\* A picture and the start address leave the image as it is.
LEMMA ImageLeft ==
    ASSUME NEW n \in Creators, NEW m, Agree(n, m), NEW line, NEW disk, ~n.broken
    PROVE  /\ line.op = "bmp" => Agree(ParseLine(n, line, disk), m)
           /\ line.op = "pcsp" => /\ Agree(ParseLine(n, line, disk), m)
                                  /\ ParseLine(n, line, disk).pc = line.pc
<1> DEFINE p == ParseLine(n, line, disk)
<1>1. n.broken = FALSE
  BY DEF Creators
<1>2. line.op = "bmp" => p.big = n.big /\ p.flags = n.flags
  <2>1. line.op = "bmp" => p = LoadBmp(n, line.file, disk)
    BY <1>1 DEF ParseLine
  <2>2. LoadBmp(n, line.file, disk) = [n EXCEPT !.broken = TRUE]
        \/ LoadBmp(n, line.file, disk) = n
        \/ LoadBmp(n, line.file, disk) =
             [n EXCEPT !.shots = Store(@, "bmp", line.file), !.screens = @ \cup {"bmp"}]
    BY DEF LoadBmp, Shot
  <2> DEFINE q == LoadBmp(n, line.file, disk)
  <2>3. q.big = n.big /\ q.flags = n.flags
    BY <2>2 DEF Creators
  <2> HIDE DEF q, p
  <2> QED BY <2>1, <2>3 DEF q
<1>3. line.op = "pcsp" => p.big = n.big /\ p.flags = n.flags /\ p.pc = line.pc
  <2>1. line.op = "pcsp" => p = [n EXCEPT !.pc = line.pc, !.sp = line.sp]
    BY <1>1 DEF ParseLine, SetPCSP
  <2> QED BY <2>1 DEF Creators
<1> HIDE DEF p
<1> QED BY <1>2, <1>3 DEF Agree, p

\* The system variables, as a part.
Vars48 == [page |-> 10, addr |-> (7 * Page) \div 8, from |-> 0, file |-> SysVars]

LEMMA Vars48Fits ==
    ASSUME StaysInBank
    PROVE  /\ Fits(Vars48) /\ Vars48.addr % Page = (7 * Page) \div 8
           /\ LoadLine(Vars48) = SysVarsLine
<1> DEFINE e == (7 * Page) \div 8
           file == SysVars
           N == Len(Parts[file])
<1>1. e \in Nat /\ e < Page
  <2> DEFINE t == 7 * Page
             r == t % 8
  <2>1. t \in Nat /\ t < 8 * Page
    BY BankFacts
  <2> HIDE DEF t
  <2>2. e = t \div 8
    BY DEF t
  <2> HIDE DEF e
  <2>3. e \in Nat /\ t = 8 * e + r /\ r \in Nat
    BY <2>1, <2>2
  <2> HIDE DEF r
  <2> QED BY <2>1, <2>3, BankFacts
<1>2. file \in DOMAIN Parts /\ file \in Part /\ Parts[file] \in Seq(STRING \X Nat)
  BY PartsAssumption
<1>3. N \in Nat
  BY <1>2
<1>4. e + N <= Bank
  BY DEF StaysInBank
<1> HIDE DEF e, N
<1>5. e % Page = e
  <2> DEFINE z == 0
  <2>1. z \in Nat /\ Page * z + e = e
    BY <1>1, BankFacts
  <2> HIDE DEF z
  <2> QED BY <1>1, <2>1, BankFacts, DivisionIs
<1>6. Vars48 = [page |-> 10, addr |-> e, from |-> 0, file |-> file]
  BY DEF Vars48, e
<1> HIDE DEF file
<1>7. Vars48 \in LoadLines
  BY <1>1, <1>2, <1>6 DEF LoadLines
<1>8. 10 % 2 = 0
  OBVIOUS
<1>9. 10 * Page + (e + N) <= Banks * Bank
  <2>1. Banks * Bank >= 8 * Bank
    BY BanksAssumption, BankFacts
  <2> DEFINE w == Banks * Bank
  <2>2. w \in Nat /\ w >= 8 * Bank
    BY <2>1, BanksAssumption, BankFacts
  <2> HIDE DEF w
  <2>3. 10 * Page + (e + N) <= w
    BY <1>1, <1>3, <1>4, <2>2, BankFacts
  <2> QED BY <2>3 DEF w
<1>10. Fits(Vars48)
  <2> DEFINE last == (Vars48.addr % Page) + Len(Parts[Vars48.file]) - Vars48.from
  <2>1. last = e + N
    BY <1>1, <1>3, <1>5, <1>6 DEF N
  <2>2. Vars48.page = 10 /\ Vars48.file \in DOMAIN Parts
    BY <1>2, <1>6
  <2>3. 0 * Page + (e + N) <= Bank
    BY <1>1, <1>3, <1>4, BankFacts
  <2>4. (Vars48.page % 2) * Page + last <= Bank
    BY <1>8, <2>1, <2>2, <2>3
  <2>5. Vars48.page * Page + last <= Banks * Bank
    BY <1>9, <2>1, <2>2
  <2> QED BY <1>7, <2>2, <2>4, <2>5 DEF Fits
<1>11. LoadLine(Vars48) = SysVarsLine
  BY <1>5, <1>6 DEF LoadLine, SysVarsLine, e, file
<1> QED BY <1>5, <1>6, <1>10, <1>11 DEF e

\* The lines before the program leave in the image what LoadSDBank leaves in memory.
LEMMA PartsPacked ==
    ASSUME NEW s \in Settings, NEW u, NEW loads, NEW lines, NEW n \in Nat, NEW p \in Nat,
           Len(loads) = n, DOMAIN loads = 1..n, p = Before(s),
           Shaped(lines, s, u, loads), NEW disk, Folder(disk), NEW h, Parsing(h, lines, disk),
           \A k \in 0..Len(lines) : ~h[k].broken, StaysInBank,
           SysVarsLine.file \in DOMAIN disk => disk[SysVarsLine.file] = Content(Vars48),
           \A k \in 1..n : Fits(loads[k]) /\ disk[LoadLine(loads[k]).file] = Content(loads[k])
    PROVE  LET from == IF s.noSys THEN <<>> ELSE LoadSDBank(Vars48)
           IN Agree(h[p + n], Memory(from, loads))
<1> DEFINE base == IF s.noSys THEN <<>> ELSE LoadSDBank(Vars48)
           a == IF s.noSys THEN 0 ELSE 1
           N == Len(lines)
<1>1. /\ N = p + n + 2
      /\ ~s.noSys => lines[1] = SysVarsLine
      /\ s.bmp # None => lines[p] = BmpLine(s)
      /\ \A k \in 1..n : lines[p + k] = LoadLine(loads[k])
  BY DEF Shaped
<1>2. /\ h[0] = Fresh /\ \A k \in 0..N : h[k] \in Creators
      /\ \A k \in 1..N : h[k] = ParseLine(h[k - 1], lines[k], disk)
      /\ \A k \in 0..N : ~h[k].broken
  BY DEF Parsing
<1>3. N \in Nat
  BY <1>1
<1> HIDE DEF N
<1>4. p = a + (IF s.bmp = None THEN 0 ELSE 1)
  BY DEF Before
<1>5. Agree(h[0], <<>>)
  BY DEF Agree
<1>6. Agree(h[a], base)
  <2>1. CASE s.noSys
    BY <1>5, <2>1
  <2>2. CASE ~s.noSys
    <3>1. a = 1 /\ 1 \in 1..N /\ 0 \in 0..N /\ 1 \in 0..N /\ 1 - 1 = 0
      BY <1>1, <2>2
    <3>2. h[1] = ParseLine(h[0], SysVarsLine, disk) /\ ~h[0].broken /\ h[0] \in Creators /\ ~h[1].broken
      BY <1>1, <1>2, <2>2, <3>1
    <3> DEFINE x == h[0]
               l == Vars48
               line == SysVarsLine
    <3>3. /\ Fits(l) /\ line.op = "mmu" /\ line.page = l.page /\ line.addr = l.addr % Page
          /\ line.file \in DOMAIN disk => disk[line.file] = Content(l)
      BY Vars48Fits DEF SysVarsLine, Vars48
    <3> HIDE DEF x, l, line
    <3>4. Agree(ParseLine(x, line, disk), Over(LoadSDBank(l), <<>>))
      BY <1>5, <3>2, <3>3, PartOver DEF x, line
    <3>5. Agree(h[1], Over(LoadSDBank(l), <<>>))
      BY <3>2, <3>4 DEF x, line
    <3>6. /\ DOMAIN Over(LoadSDBank(l), <<>>) = DOMAIN LoadSDBank(l)
          /\ \A at \in DOMAIN LoadSDBank(l) : Over(LoadSDBank(l), <<>>)[at] = LoadSDBank(l)[at]
      BY DEF Over
    <3>7. Agree(h[1], LoadSDBank(l))
      BY <3>5, <3>6 DEF Agree
    <3> QED BY <2>2, <3>1, <3>7 DEF l
  <2> QED BY <2>1, <2>2
<1>7. a \in Nat
  OBVIOUS
<1> HIDE DEF base, a
<1>8. Agree(h[p], base)
  <2>1. CASE s.bmp = None
    <3>1. p = a
      BY <1>4, <1>7, <2>1
    <3> QED BY <1>6, <3>1
  <2>2. CASE s.bmp # None
    <3>1. p = a + 1 /\ p \in 1..N /\ a \in 0..N /\ p - 1 = a /\ p \in 0..N
      BY <1>1, <1>3, <1>4, <1>7, <2>2
    <3>2. h[p] = ParseLine(h[a], BmpLine(s), disk) /\ ~h[a].broken /\ h[a] \in Creators
      BY <1>1, <1>2, <2>2, <3>1
    <3>3. BmpLine(s).op = "bmp"
      BY DEF BmpLine
    <3> DEFINE line == BmpLine(s)
    <3> HIDE DEF line
    <3>4. line.op = "bmp"
      BY <3>3 DEF line
    <3>5. Agree(ParseLine(h[a], line, disk), base)
      BY <1>6, <3>2, <3>4, ImageLeft
    <3> QED BY <3>2, <3>5 DEF line
  <2> QED BY <2>1, <2>2
<1>9. PICK g : Run(g, "load", 0, base, loads) /\ Memory(base, loads) = g[n]
  BY MemoryRun
<1> DEFINE K == {j \in Nat : j <= n => Agree(h[p + j], g[j])}
<1>10. 0 \in K
  BY <1>8, <1>9 DEF Run
<1>11. ASSUME NEW j \in Nat, j \in K PROVE j + 1 \in K
  <2>1. SUFFICES ASSUME j + 1 <= n PROVE Agree(h[p + (j + 1)], g[j + 1])
    OBVIOUS
  <2> DEFINE i == p + j
             x == h[i]
             l == loads[j + 1]
             line == lines[i + 1]
             m == g[j]
  <2>2. /\ j + 1 \in 1..n /\ (j + 1) - 1 = j /\ j <= n /\ i \in 0..N /\ i + 1 \in 1..N
        /\ i + 1 \in 0..N /\ (i + 1) - 1 = i /\ p + (j + 1) = i + 1
    <3> HIDE DEF x, l, line, m
    <3>1. p \in Nat /\ n \in Nat /\ p + n <= N /\ N \in Nat
      BY <1>1, <1>3
    <3> HIDE DEF N
    <3> QED BY <2>1, <3>1
  <2>3. Agree(x, m)
    BY <1>11, <2>2
  <2>4. g[j + 1] = Over(LoadSDBank(l), m)
    BY <1>9, <2>2 DEF Run, FoldStep
  <2>5. line = LoadLine(l) /\ Fits(l) /\ disk[LoadLine(l).file] = Content(l)
    BY <1>1, <2>2
  <2>6. line.op = "mmu" /\ line.page = l.page /\ line.addr = l.addr % Page
    <3> HIDE DEF line, l
    <3> QED BY <2>5 DEF LoadLine
  <2> DEFINE y == h[i + 1]
  <2>7. x \in Creators /\ ~x.broken /\ y = ParseLine(x, line, disk) /\ ~y.broken
    BY <1>2, <2>2
  <2>8. h[p + (j + 1)] = y
    BY <2>2
  <2> HIDE DEF i, x, l, line, m, y
  <2>9. Agree(y, Over(LoadSDBank(l), m))
    BY <2>3, <2>5, <2>6, <2>7, PartOver
  <2> QED BY <2>4, <2>8, <2>9
<1>12. n \in K
  <2>1. Nat \subseteq K
    <3> HIDE DEF K
    <3> QED BY <1>10, <1>11, NatSetInduction
  <2> QED BY <2>1
<1> QED BY <1>9, <1>12 DEF base

\* The whole configuration packs to what is promised of it.
LEMMA ImagePacked ==
    ASSUME Typed, FilesTyped, StaysInBank, NEW s \in Settings, NEW u \in Units, NEW input \in Units,
           \A k \in DOMAIN src[input].prog.loads : Fits(src[input].prog.loads[k]),
           TrimsOf(trims, src[input].prog.loads),
           NEW b \in Binaries, bin[u] = b, b.org = s.org, s.org >= 2 * Page,
           s.org + b.size <= 8 * Page, NEW lines, lines = NexCfg(s, u, input),
           ~ParseFile(lines, OnDisk).broken
    PROVE  LET n == ParseFile(lines, OnDisk)
           IN n \in Creators /\ n.pc \in {0, s.org} /\ Agree(n, Promised(s, b, src[input].prog.loads))
<1> DEFINE loads == src[input].prog.loads
           disk == OnDisk
           n == Len(loads)
           p == Before(s)
           base == IF s.noSys THEN <<>> ELSE LoadSDBank(Vars48)
<1>1. n \in Nat /\ DOMAIN loads = 1..n /\ \A k \in 1..n : loads[k] \in LoadLines
  <2>1. loads \in Seq(LoadLines)
    BY DEF Typed, Program
  <2> HIDE DEF loads
  <2> QED BY <2>1
<1>2. p \in Nat
  BY DEF Before
<1>3. Folder(disk)
  <2>1. CopiesOf(trims)
    BY DEF FilesTyped, CopiesOf
  <2> QED BY <2>1, DiskTyped
<1>4. Shaped(lines, s, u, loads)
  BY CfgShape
<1>5. \A k \in 1..n : Fits(loads[k])
  BY <1>1
<1>6. \A k \in 1..n : disk[LoadLine(loads[k]).file] = Content(loads[k])
  <2> TAKE k \in 1..n
  <2> DEFINE l == loads[k]
  <2>1. l \in LoadLines /\ l.file \in DOMAIN Parts
    BY <1>1, <1>5 DEF Fits
  <2>2. l.from > 0 => Trimmed(l.file) \in DOMAIN trims /\ trims[Trimmed(l.file)] = Cut(l)
    BY <1>1 DEF TrimsOf
  <2> HIDE DEF l
  <2> QED BY <2>1, <2>2, PartOnDisk DEF l
<1>7. disk[SysVarsLine.file] = Content(Vars48)
  <2> DEFINE l == Vars48
  <2>1. Fits(l) /\ LoadLine(l) = SysVarsLine
    BY Vars48Fits
  <2>2. l.from = 0
    BY DEF Vars48
  <2> HIDE DEF l
  <2>3. l \in LoadLines /\ l.file \in DOMAIN Parts /\ ~(l.from > 0)
    BY <2>1, <2>2 DEF Fits
  <2>4. disk[LoadLine(l).file] = Content(l)
    BY <2>3, PartOnDisk
  <2> QED BY <2>1, <2>4 DEF l
<1>8. <<"bin", u>> \in DOMAIN disk => disk[<<"bin", u>>] = Code(b)
  BY DEF OnDisk
<1>9. Promised(s, b, loads) = Over(ProgramCells(b), Memory(base, loads))
  BY DEF Promised, Memory, Vars48
<1>10. ~ParseFile(lines, disk).broken
  OBVIOUS
<1> HIDE DEF disk, loads, n, p, base
<1>11. lines \in Seq(CfgLines) /\ Len(lines) = p + n + 2
       /\ lines[p + n + 1] = StartLine(s) /\ lines[p + n + 2] = BinLine(s, u)
  BY <1>4 DEF Shaped, p, n
<1>12. PICK h : Parsing(h, lines, disk)
  BY <1>3, <1>11, ParseRun
<1>13. \A k \in 0..Len(lines) : ~h[k].broken
  BY <1>10, <1>11, <1>12, NeverBroken
<1>14. Agree(h[p + n], Memory(base, loads))
  <2>1. Len(loads) = n /\ DOMAIN loads = 1..n /\ p = Before(s)
    BY <1>1 DEF n, p
  <2>2. SysVarsLine.file \in DOMAIN disk => disk[SysVarsLine.file] = Content(Vars48)
    BY <1>7
  <2>3. \A k \in 1..n : Fits(loads[k]) /\ disk[LoadLine(loads[k]).file] = Content(loads[k])
    BY <1>5, <1>6
  <2>4. n \in Nat
    BY <1>1
  <2> QED BY <1>2, <1>3, <1>4, <1>12, <1>13, <2>1, <2>2, <2>3, <2>4, PartsPacked DEF base
<1> DEFINE i == p + n
           x == h[i]
           y == h[i + 1]
           z == h[i + 2]
<1>15. /\ i \in 0..Len(lines) /\ i + 1 \in 0..Len(lines) /\ i + 1 \in 1..Len(lines)
       /\ i + 2 \in 1..Len(lines) /\ i + 2 \in 0..Len(lines) /\ Len(lines) = i + 2
       /\ (i + 1) - 1 = i /\ (i + 2) - 1 = i + 1
  BY <1>1, <1>2, <1>11
<1>16. /\ x \in Creators /\ y \in Creators /\ z \in Creators
       /\ ~x.broken /\ ~y.broken /\ ~z.broken
       /\ y = ParseLine(x, lines[i + 1], disk) /\ z = ParseLine(y, lines[i + 2], disk)
       /\ ParseFile(lines, disk) = z
  BY <1>12, <1>13, <1>15 DEF Parsing
<1>17. lines[i + 1] = StartLine(s) /\ lines[i + 2] = BinLine(s, u) /\ Agree(x, Memory(base, loads))
  BY <1>11, <1>14
<1> HIDE DEF i, x, y, z
<1>18. StartLine(s).op = "pcsp" /\ StartLine(s).pc \in {0, s.org}
  BY DEF StartLine
<1>19. Agree(y, Memory(base, loads)) /\ y.pc \in {0, s.org}
  <2> DEFINE line == StartLine(s)
             m == Memory(base, loads)
  <2>1. line.op = "pcsp" /\ line.pc \in {0, s.org} /\ Agree(x, m) /\ y = ParseLine(x, line, disk)
    BY <1>16, <1>17, <1>18
  <2> HIDE DEF line, m
  <2>2. Agree(y, m) /\ y.pc = line.pc
    BY <1>16, <2>1, ImageLeft
  <2> QED BY <2>1, <2>2 DEF m
<1> DEFINE name == <<"bin", u>>
<1>20. z = ProgramAt(y, b.org, name, disk)
  <2>1. /\ BinLine(s, u).op = "file" /\ BinLine(s, u).file = name
        /\ BinLine(s, u).bank = RamBank(b.org) /\ BinLine(s, u).addr = b.org % Bank
    BY DEF BinLine
  <2>2. y.broken = FALSE
    BY <1>16 DEF Creators
  <2> DEFINE line == BinLine(s, u)
  <2> HIDE DEF line
  <2>3. z = ParseLine(y, line, disk)
    BY <1>16, <1>17 DEF line
  <2> QED BY <2>1, <2>2, <2>3 DEF ParseLine, ProgramAt, line
<1>21. Agree(z, Over(ProgramCells(b), Memory(base, loads)))
  <2> DEFINE m == Memory(base, loads)
  <2>1. Agree(y, m)
    BY <1>19
  <2>2. b.org >= 2 * Page /\ b.org + b.size <= 8 * Page
    OBVIOUS
  <2>3. name \in DOMAIN disk => disk[name] = Code(b)
    BY <1>8
  <2> HIDE DEF m, name
  <2>4. ~ProgramAt(y, b.org, name, disk).broken
    BY <1>16, <1>20
  <2>5. Agree(ProgramAt(y, b.org, name, disk), Over(ProgramCells(b), m))
    BY <1>3, <1>16, <2>1, <2>2, <2>3, <2>4, ProgramOver
  <2> QED BY <1>20, <2>5 DEF m
<1>22. z.pc = y.pc
  <2> DEFINE w == RamBank(b.org)
             r == b.org % Bank
             k == [y EXCEPT !.bank = w, !.addr = r]
  <2>1. w \in Nat /\ r \in Nat
    <3>1. b.org \in Address
      BY DEF Settings
    <3> QED BY <3>1, WindowOf
  <2> HIDE DEF w, r
  <2>2. k \in Creators /\ k.pc = y.pc
    BY <1>16, <2>1 DEF Creators
  <2>3. z = AddFile(k, name, disk)
    BY <1>20 DEF ProgramAt, w, r
  <2> HIDE DEF k, name
  <2>4. name \in DOMAIN disk
    BY <1>3, <1>16, <2>2, <2>3, AddFileFacts
  <2>5. disk[name] \in Seq(Cells) /\ Filed(k, z, disk[name])
    BY <1>3, <2>2, <2>3, <2>4, AddFileFacts DEF Folder
  <2>6. SameRest(k, z)
    BY <2>2, <2>5, FiledFacts
  <2> QED BY <2>2, <2>6 DEF SameRest
<1>23. z \in Creators /\ z.pc \in {0, s.org} /\ Agree(z, Promised(s, b, loads))
  BY <1>9, <1>16, <1>19, <1>21, <1>22
<1> QED BY <1>16, <1>23 DEF disk, loads

-----------------------------------------------------------------------------
(* A module packs nothing.                                                 *)

\* '!module= anywhere in what is read asks for no NEX file.
LEMMA ReadModule ==
    ASSUME NEW s \in Settings, NEW head \in Seq(Directives),
           \A k \in DOMAIN head : head[k].op # "origin",
           NEW j \in DOMAIN head, head[j].op = "module"
    PROVE  Read(s, head).isModule /\ Read(s, head).noNex
<1> DEFINE first == [s EXCEPT !.org = 4 * Page]
           N == Len(head)
           after == CHOOSE f : Reading(f, first, head, N)
           Good(n) == /\ after[n] \in Settings
                      /\ n >= j => after[n].isModule /\ after[n].noNex
           S == {n \in Nat : n <= N => Good(n)}
<1>1. N \in Nat /\ DOMAIN head = 1..N
  OBVIOUS
<1>2. Reading(after, first, head, N)
  <2> HIDE DEF first
  <2>1. \E f : Reading(f, first, head, N)
    BY <1>1, ReadDefined
  <2> QED BY <2>1, Zenon
<1>3. Read(s, head) = after[N]
  BY DEF Read, Reading
<1> USE DEF Reading
<1> HIDE DEF after
<1>4. first \in Settings
  <2>1. 4 * Page \in Address
    BY PageAssumption DEF Address
  <2>2. \A a \in Address : [s EXCEPT !.org = a] \in Settings
    BY DEF Settings
  <2> QED BY <2>1, <2>2
<1> HIDE DEF first
<1>5. 0 \in S
  BY <1>1, <1>2, <1>4
<1>6. ASSUME NEW n \in Nat, n \in S PROVE n + 1 \in S
  <2>1. SUFFICES ASSUME n + 1 <= N PROVE Good(n + 1)
    OBVIOUS
  <2> DEFINE r == after[n]
             t == after[n + 1]
             d == head[n + 1]
  <2>2. r \in Settings /\ (n >= j => r.isModule /\ r.noNex)
    BY <1>1, <1>6, <2>1
  <2>3. n + 1 \in DOMAIN head /\ d \in Directives /\ d.op # "origin"
    BY <1>1, <2>1
  <2>4. t = Directive(r, d)
    BY <1>1, <1>2, <2>1
  <2>5. j = n + 1 => d.op = "module"
    OBVIOUS
  <2>6. n + 1 >= j => n >= j \/ j = n + 1
    BY <1>1
  <2> HIDE DEF r, t, d
  <2>7. /\ t \in Settings /\ (r.isModule => t.isModule)
        /\ ModuleAlone(r) => ModuleAlone(t)
    BY <2>2, <2>3, <2>4, DirectiveSettings
  <2>8. ASSUME n >= j PROVE t.isModule /\ t.noNex
    BY <2>2, <2>7, <2>8 DEF ModuleAlone
  <2>9. ASSUME d.op = "module" PROVE t.isModule /\ t.noNex
    <3>1. t = [r EXCEPT !.noemu = TRUE, !.noNex = TRUE, !.isModule = TRUE,
                        !.pcadd = 3 * Page, !.org = 3 * Page]
      BY <2>4, <2>9 DEF Directive
    <3> QED BY <2>2, <3>1 DEF Settings
  <2> QED BY <2>5, <2>6, <2>7, <2>8, <2>9 DEF t
<1>7. N \in S
  <2>1. Nat \subseteq S
    <3> HIDE DEF S
    <3> QED BY <1>5, <1>6, NatSetInduction
  <2> QED BY <1>1, <2>1
<1>8. N >= j
  BY <1>1
<1> QED BY <1>1, <1>3, <1>7, <1>8

\* A module's head says so before it sends the build elsewhere.
LEMMA ModuleHead ==
    ASSUME Typed, MarkedModules, NEW u \in Modules, u \in Units, src[u].prog \in Programs[u]
    PROVE  \E j \in DOMAIN Heading(u) : /\ Heading(u)[j].op = "module"
                                        /\ \A i \in 1..(j - 1) : i \notin Redirects(u)
<1> DEFINE h == src[u].prog.head
           n == IF Len(h) < HeadLines THEN Len(h) ELSE HeadLines
           H == Heading(u)
<1>1. h \in Seq(Directives)
  BY DEF Typed, Program
<1>2. PICK j \in DOMAIN h : /\ j <= HeadLines /\ h[j].op = "module"
                            /\ \A i \in 1..(j - 1) : h[i].op # "origin"
  BY DEF MarkedModules
<1>3. j \in Nat /\ j >= 1 /\ j <= Len(h)
  <2> HIDE DEF h
  <2> QED BY <1>1
<1>4. n \in Nat /\ n <= Len(h) /\ j <= n
  BY <1>1, <1>2, <1>3, HeadLinesAssumption
<1>5. DOMAIN H = 1..n /\ \A i \in 1..n : H[i] = h[i]
  <2>1. H = SubSeq(h, 1, n)
    BY DEF Heading
  <2> HIDE DEF H, h, n
  <2> QED BY <1>1, <1>4, <2>1
<1> HIDE DEF H, h, n
<1>6. j \in DOMAIN H /\ H[j].op = "module"
  BY <1>2, <1>3, <1>4, <1>5
<1>7. \A i \in 1..(j - 1) : i \notin Redirects(u)
  <2>1. ASSUME NEW i \in 1..(j - 1), i \in Redirects(u) PROVE FALSE
    <3>1. i \in DOMAIN H /\ H[i].op = "origin"
      BY <2>1 DEF Redirects, H
    <3>2. H[i] = h[i]
      BY <1>5, <3>1
    <3> QED BY <1>2, <2>1, <3>1, <3>2
  <2> QED BY <2>1
<1> QED BY <1>6, <1>7 DEF H

LEMMA OriginOfModule ==
    ASSUME Typed, MarkedModules, Origin, job.input \in Modules, job.input \in Units,
           src[job.input].prog \in Programs[job.input]
    PROVE  job'.set.noNex
<1>1. job # None /\ job \in Jobs /\ job.set \in Settings
  <2>1. job # None /\ job \in Jobs
    BY DEF Typed, Origin, At
  <2> QED BY <2>1 DEF Jobs
<1> DEFINE u == job.input
           K == Redirects(u)
           h == Heading(u)
           k == CHOOSE k \in K : \A j \in K : k <= j
           q == SubSeq(h, 1, k - 1)
<1>2. h \in Seq(Directives) /\ K \subseteq Nat
  BY HeadingFacts
<1>3. k \in K /\ \A j \in K : k <= j
  <2>1. \E i \in K : \A j \in K : i <= j
    <3> HIDE DEF K
    <3> QED BY <1>2, LeastMember DEF Origin, K
  <2> HIDE DEF K
  <2> QED BY <2>1
<1>4. job'.set = Read(job.set, q)
  BY <1>1 DEF Origin, Jobs
<1>5. PICK j \in DOMAIN h : h[j].op = "module" /\ \A i \in 1..(j - 1) : i \notin K
  BY ModuleHead
<1>6. \A i : i \in K <=> i \in DOMAIN h /\ h[i].op = "origin"
  BY DEF Redirects
<1> HIDE DEF k, K, h
<1>7. k \in Nat /\ k \in DOMAIN h /\ k >= 1 /\ k <= Len(h) /\ j \in Nat /\ j >= 1 /\ j <= Len(h) /\ k # j
  BY <1>2, <1>3, <1>5, <1>6
<1>8. j < k
  <2>1. SUFFICES ASSUME k < j PROVE FALSE
    BY <1>7
  <2>2. k \in 1..(j - 1)
    BY <1>7, <2>1
  <2> QED BY <1>3, <1>5, <2>2
<1>9. /\ q \in Seq(Directives) /\ DOMAIN q = 1..(k - 1)
      /\ \A i \in 1..(k - 1) : q[i] = h[i]
  BY <1>2, <1>7
<1> HIDE DEF q
<1>10. j \in DOMAIN q /\ q[j].op = "module"
  BY <1>5, <1>7, <1>8, <1>9
<1>11. \A i \in DOMAIN q : q[i].op # "origin"
  <2>1. ASSUME NEW i \in DOMAIN q, q[i].op = "origin" PROVE FALSE
    <3>1. i \in Nat /\ i >= 1 /\ i < k /\ q[i] = h[i]
      BY <1>7, <1>9
    <3>2. i \in DOMAIN h
      BY <1>2, <1>7, <3>1
    <3>3. i \in K
      BY <1>6, <2>1, <3>1, <3>2
    <3> QED BY <1>3, <1>7, <3>1, <3>3
  <2> QED BY <2>1
<1> QED BY <1>1, <1>4, <1>9, <1>10, <1>11, ReadModule

LEMMA ParseOfModule ==
    ASSUME Typed, MarkedModules, ParseDirectives, job.flag = "m",
           job.input \in Modules, job.input \in Units, src[job.input].prog \in Programs[job.input]
    PROVE  job'.set.noNex
<1>1. job # None /\ job \in Jobs /\ job.set \in Settings /\ job.unit \in Units
  <2>1. job # None /\ job \in Jobs
    BY DEF Typed, ParseDirectives, At
  <2> QED BY <2>1 DEF Jobs
<1> DEFINE u == job.input
           h == Heading(u)
           r == Read(job.set, h)
           s == Settle(r, job.unit, "m")
<1>2. h \in Seq(Directives)
  BY HeadingFacts
<1>3. job'.set = s
  BY <1>1 DEF ParseDirectives, Jobs
<1>4. PICK j \in DOMAIN h : h[j].op = "module"
  BY ModuleHead
<1>5. \A k \in DOMAIN h : h[k].op # "origin"
  BY DEF ParseDirectives, Redirects
<1> HIDE DEF h
<1>6. r.isModule /\ r.noNex /\ r \in Settings
  BY <1>1, <1>2, <1>4, <1>5, ReadModule, ReadSettings
<1> HIDE DEF r
<1>7. s.isModule /\ ModuleAlone(s)
  <2>1. ModuleAlone(r)
    BY <1>6 DEF ModuleAlone
  <2> DEFINE f == "m"
  <2>2. f = "m"
    OBVIOUS
  <2> HIDE DEF f
  <2>3. Settle(r, job.unit, f).isModule = r.isModule /\ ModuleAlone(Settle(r, job.unit, f))
    BY <1>1, <1>6, <2>1, <2>2, SettleSettings
  <2> QED BY <1>6, <2>2, <2>3
<1> QED BY <1>3, <1>7 DEF ModuleAlone

-----------------------------------------------------------------------------
(* Every NEX file a build writes.                                          *)

\* The configuration and the trimmed copies of this build are in place.
Configured == /\ cfg[job.unit] = NexCfg(job.set, job.unit, job.input)
              /\ Missing(job.input) = {}
              /\ TrimsOf(trims, src[job.input].prog.loads)

\* What a run of nextbuild.py has behind it when it packs, whatever its flag: the
\* binary of this source, unless only a listing was asked for, and its configuration
\* and trimmed copies.  A module never packs, with -m because it says so where it is
\* read.  The file it wrote stays what it was written as.
Packing ==
    /\ \A u \in Units : src[u].prog \in Programs[u]
    /\ (outer # None /\ outer.flag = "m") => outer.todo \subseteq Modules
    /\ job # None =>
         /\ job.flag # "m" => ModuleAlone(job.set)
         /\ job.flag = "m" => \/ job.set.noNex
                              \/ job.at = "parse" /\ job.input = job.unit /\ job.unit \in Modules
         /\ (job.at \in {"cfg", "nex"} /\ ~job.set.asm) => bin[job.unit] = Compiled
         /\ (job.at = "nex" /\ ~job.set.noNex) => Configured
         /\ job.wrote => job.at \in {"copy", "run", "launch"}
         /\ ImageAsPromised

LEMMA PackingInit == ASSUME Init PROVE Packing
<1>1. PICK p : /\ \A u \in Units : p[u] \in Programs[u]
               /\ src = [u \in Units |-> [prog |-> p[u], ver |-> 1]]
  BY DEF Init
<1>2. \A u \in Units : src[u].prog \in Programs[u]
  BY <1>1
<1>3. job = None /\ outer = None
  BY DEF Init
<1> QED BY <1>2, <1>3 DEF Packing

LEMMA PackingStart ==
    ASSUME NEW u \in Units, NEW f, f = "m" => u \in Modules, job' = Start(u, f),
           \A v \in Units : src'[v].prog \in Programs[v],
           (outer' # None /\ outer'.flag = "m") => outer'.todo \subseteq Modules
    PROVE  Packing'
<1>1. /\ job'.flag = f /\ job'.at = "parse" /\ job'.set = Defaults(f) /\ job'.wrote = FALSE
      /\ job'.unit = u /\ job'.input = u
  BY DEF Start
<1>2. f # "m" => ModuleAlone(Defaults(f))
  BY DEF Defaults, ModuleAlone
<1>3. ImageAsPromised'
  BY <1>1 DEF ImageAsPromised, Wrote
<1> QED BY <1>1, <1>2, <1>3 DEF Packing

\* The parts of a source that are there fit in their banks.
LEMMA PartsFit ==
    ASSUME Typed, StaysInBank, StaysInMachine, NEW input \in Units,
           src[input].prog \in Programs[input], Missing(input) = {}
    PROVE  \A k \in DOMAIN src[input].prog.loads : Fits(src[input].prog.loads[k])
<1> DEFINE p == src[input].prog
<1> SUFFICES ASSUME NEW k \in DOMAIN p.loads PROVE Fits(p.loads[k])
  OBVIOUS
<1> DEFINE l == p.loads[k]
           N == Len(Parts[l.file])
           a == l.addr % Page
           t == l.page % 2
<1>1. l \in LoadLines
  <2>1. p.loads \in Seq(LoadLines)
    BY DEF Typed, Program
  <2> QED BY <2>1
<1>2. l.file \in DOMAIN Parts
  BY DEF Missing
<1>3. /\ l.page < 16 => t * Page + a + N - l.from <= Bank
      /\ l.page * Page + a + N - l.from <= Banks * Bank
  <2>1. p \in Programs[input]
    OBVIOUS
  <2> HIDE DEF p
  <2> DEFINE r == p.loads[k]
             lim(w) == w + (r.addr % Page) + Len(Parts[r.file]) - r.from
  <2>2. r.page < 16 => lim((r.page % 2) * Page) <= Bank
    BY <1>2, <2>1, Zenon DEF StaysInBank
  <2>3. lim(r.page * Page) <= Banks * Bank
    BY <1>2, <2>1, Zenon DEF StaysInMachine
  <2> QED BY <2>2, <2>3
<1>4. l.from \in Nat /\ l.page \in Nat /\ a \in Nat /\ t \in Nat /\ N \in Nat
  <2>1. l.from \in Nat /\ l.page \in Nat /\ l.addr \in Nat
    BY <1>1 DEF LoadLines
  <2>2. Parts[l.file] \in Seq(STRING \X Nat)
    BY <1>2, PartsAssumption
  <2>3. N \in Nat
    <3> DEFINE q == Parts[l.file]
    <3>1. q \in Seq(STRING \X Nat)
      BY <2>2
    <3> HIDE DEF q
    <3>2. Len(q) \in Nat
      BY <3>1
    <3> QED BY <3>2 DEF q
  <2>4. \A x \in Nat : x % Page \in Nat
    BY BankFacts, Division
  <2>5. \A x \in Nat : x % 2 \in Nat
    OBVIOUS
  <2> QED BY <2>1, <2>3, <2>4, <2>5
<1> HIDE DEF l, N, a, t
<1> DEFINE v == t * Page
           w == l.page * Page
           z == Banks * Bank
<1>5. v \in Nat /\ w \in Nat /\ z \in Nat
  BY <1>4, BankFacts, BanksAssumption
<1>6. (l.page < 16 => v + (a + N - l.from) <= Bank) /\ w + (a + N - l.from) <= z
  <2>1. (l.page < 16 => v + a + N - l.from <= Bank) /\ w + a + N - l.from <= z
    BY <1>3
  <2> HIDE DEF v, w, z
  <2> QED BY <1>4, <1>5, <2>1, BankFacts
<1> QED BY <1>1, <1>2, <1>6 DEF Fits, l, N, a, t

\* The file nextcreator.py writes in a build loads to what the source asks for.
LEMMA PackedAsPromised ==
    ASSUME AllTyped, FolderRules, Packing, CreateNEXFile
    PROVE  ImageAsPromised'
<1>1. /\ job # None /\ job.at = "nex" /\ ~job.set.noNex /\ cfg[job.unit] # None
      /\ ~ParseFile(cfg[job.unit], OnDisk).broken
      /\ nex' = [nex EXCEPT ![job.unit] = GenerateFile(ParseFile(cfg[job.unit], OnDisk))]
      /\ job' = [job EXCEPT !.at = AfterNex, !.wrote = TRUE] /\ UNCHANGED src
  BY DEF CreateNEXFile, At
<1>2. Typed /\ FilesTyped /\ job \in Jobs /\ StaysInBank /\ StaysInMachine
  BY <1>1 DEF AllTyped, TypedInv, Typed, FolderRules
<1> DEFINE s == job.set
           u == job.unit
           input == job.input
           loads == src[input].prog.loads
           n == ParseFile(cfg[u], OnDisk)
           x == GenerateFile(n)
           b == Compiled
<1>3. u \in Units /\ input \in Units /\ s \in Settings /\ src[input].prog \in Programs[input]
  BY <1>2 DEF Jobs, Packing
<1>4. /\ job'.set = s /\ job'.unit = u /\ job'.input = input
      /\ nex'[u] = x
  <2>1. job'.set = s /\ job'.unit = u /\ job'.input = input
    BY <1>1, <1>2 DEF Jobs
  <2>2. nex \in [Units -> {None} \cup Nexes]
    BY <1>2 DEF FilesTyped
  <2> HIDE DEF x
  <2>3. nex' = [nex EXCEPT ![u] = x]
    BY <1>1 DEF x
  <2> HIDE DEF u
  <2> QED BY <1>3, <2>1, <2>2, <2>3 DEF u
<1>5. SUFFICES ASSUME s.org >= 2 * Page, s.org + src[input].prog.size <= 8 * Page, ~s.asm
               PROVE  LET m == Promised(s, Current(input), loads)
                      IN /\ \A at \in DOMAIN m : InPage(x, at[1], at[2]) = m[at]
                         /\ x.pc \in {0, s.org}
                         /\ x.pc >= 2 * Page => Seen(x, x.pc) = FirstCell
  <2>1. Current(input)' = Current(input) /\ FirstCell' = FirstCell
    BY <1>1, <1>4 DEF Current, FirstCell
  <2> DEFINE m == Promised(s, Current(input), loads)
  <2>2. (Promised(job.set, Current(job.input), src[job.input].prog.loads))' = m
    BY <1>1, <1>4, <2>1
  <2>3. InRam' <=> s.org >= 2 * Page /\ s.org + src[input].prog.size <= 8 * Page /\ ~s.asm
    BY <1>1, <1>4 DEF InRam
  <2>4. (nex[job.unit])' = x /\ job'.set.org = s.org
    BY <1>4
  <2> HIDE DEF m, x, s
  <2> QED BY <2>1, <2>2, <2>3, <2>4 DEF ImageAsPromised, m, s
<1>6. bin[u] = b /\ cfg[u] = NexCfg(s, u, input) /\ Missing(input) = {} /\ TrimsOf(trims, loads)
  BY <1>1, <1>5 DEF Packing, Configured
<1>7. b \in Binaries /\ b.org = s.org /\ b.size = src[input].prog.size
  BY <1>1, <1>2, CompiledTyped DEF Compiled
<1>8. b = Current(input)
  BY DEF Compiled, Current
<1>9. /\ <<b.unit, b.ver, 1>> = FirstCell /\ bin[u] # None
  <2>1. <<b.unit, b.ver, 1>> = FirstCell
    BY DEF Compiled, FirstCell
  <2> HIDE DEF b
  <2> QED BY <1>6, <1>7, <2>1, JobsAreNotNone
<1>10. \A k \in DOMAIN loads : Fits(loads[k])
  BY <1>2, <1>3, <1>6, PartsFit
<1>11. ~ParseFile(cfg[u], OnDisk).broken
  BY <1>1
<1> DEFINE lines == cfg[u]
<1> HIDE DEF b, s, u, input, lines
<1>12. n \in Creators /\ n.pc \in {0, s.org} /\ Agree(n, Promised(s, b, loads))
  <2>1. lines = NexCfg(s, u, input) /\ ~ParseFile(lines, OnDisk).broken
    BY <1>6, <1>11 DEF lines
  <2>2. s.org + b.size <= 8 * Page /\ s.org >= 2 * Page
    BY <1>5, <1>7
  <2>3. LET q == ParseFile(lines, OnDisk)
        IN q \in Creators /\ q.pc \in {0, s.org} /\ Agree(q, Promised(s, b, src[input].prog.loads))
    BY <1>2, <1>3, <1>6, <1>7, <1>10, <2>1, <2>2, ImagePacked
  <2> QED BY <2>3 DEF lines
<1>13. Seen(x, s.org) = FirstCell
  <2>1. lines = NexCfg(s, u, input) /\ ~ParseFile(lines, OnDisk).broken
    BY <1>6, <1>11 DEF lines
  <2>2. Seen(GenerateFile(ParseFile(lines, OnDisk)), s.org) = <<bin[u].unit, bin[u].ver, 1>>
    BY <1>2, <1>3, <1>5, <1>9, <2>1, FirstCellSeen
  <2> QED BY <1>6, <1>9, <2>2 DEF lines
<1> HIDE DEF n
<1>14. x.pc = n.pc
  BY <1>12, Written
<1>15. x.pc >= 2 * Page => x.pc = s.org
  <2>1. ~(0 >= 2 * Page)
    BY BankFacts
  <2> QED BY <1>12, <1>14, <2>1
<1>16. \A at \in DOMAIN Promised(s, b, loads) : InPage(x, at[1], at[2]) = Promised(s, b, loads)[at]
  <2> DEFINE m == Promised(s, b, loads)
  <2>1. Agree(n, m)
    BY <1>12
  <2> HIDE DEF m
  <2>2. \A at \in DOMAIN m : InPage(x, at[1], at[2]) = m[at]
    BY <1>12, <2>1, AgreeSeen
  <2> QED BY <2>2 DEF m
<1> HIDE DEF x, loads
<1> QED BY <1>8, <1>12, <1>13, <1>14, <1>15, <1>16
\* A file written by this run stays what it was written as while the run goes on.
LEMMA ImageFrame ==
    ASSUME job # None, job \in Jobs, NEW step, job' = [job EXCEPT !.at = step],
           UNCHANGED <<src, nex>>, ImageAsPromised
    PROVE  ImageAsPromised'
<1>1. /\ job'.set = job.set /\ job'.unit = job.unit /\ job'.input = job.input
      /\ job'.wrote = job.wrote
  BY DEF Jobs
<1> DEFINE s == job.set
           c == Current(job.input)
           loads == src[job.input].prog.loads
           m == Promised(s, c, loads)
<1>2. c' = c /\ FirstCell' = FirstCell
  BY <1>1 DEF Current, FirstCell
<1>3. m' = m
  BY <1>1, <1>2
<1>4. (Wrote /\ InRam)' => Wrote /\ InRam
  BY <1>1 DEF Wrote, InRam
<1>5. (nex[job.unit])' = nex[job.unit] /\ s'.org = s.org
  BY <1>1
<1> HIDE DEF m
<1> QED BY <1>2, <1>3, <1>4, <1>5 DEF ImageAsPromised, m

\* The directives: a module asks for no NEX file once it has been read.
LEMMA PackingParse ==
    ASSUME AllTyped, Delivery, MarkedModules, Packing, Origin \/ ParseDirectives
    PROVE  Packing'
<1>1. job # None /\ job \in Jobs /\ Typed /\ UNCHANGED <<src, outer>> /\ job.at = "parse"
  BY DEF AllTyped, TypedInv, Typed, Origin, ParseDirectives, At
<1>2. job.unit \in Units /\ job.input \in Units /\ job.set \in Settings /\ ~job.wrote
      /\ \A u \in Units : src[u].prog \in Programs[u]
  BY <1>1 DEF Jobs, Packing
<1>3. (outer # None /\ outer.flag = "m") => outer.todo \subseteq Modules
  BY DEF Packing
<1>4. /\ job.flag # "m" => ModuleAlone(job.set)
      /\ job.flag = "m" => job.set.noNex \/ job.input \in Modules
      /\ job.flag = "m" => job.set.isModule
  BY <1>1 DEF Packing, Delivery
<1>5. \E s \in Settings, v \in Units, step \in Steps :
        /\ \/ job' = [job EXCEPT !.set = s, !.input = v] /\ step = "parse"
           \/ job' = [job EXCEPT !.set = s, !.at = step] /\ step \in {"run", "compile"}
        /\ ModuleAlone(job.set) => ModuleAlone(s)
        /\ (job.flag = "m" /\ job.set.isModule) => s.isModule
  <2>1. CASE Origin
    BY <1>1, <2>1, OriginTyped DEF Steps
  <2>2. CASE ParseDirectives
    BY <1>1, <1>2, <2>2, ParseTyped DEF Steps
  <2> QED BY <2>1, <2>2
<1>6. PICK s \in Settings, v \in Units, step \in Steps :
        /\ \/ job' = [job EXCEPT !.set = s, !.input = v] /\ step = "parse"
           \/ job' = [job EXCEPT !.set = s, !.at = step] /\ step \in {"run", "compile"}
        /\ ModuleAlone(job.set) => ModuleAlone(s)
        /\ (job.flag = "m" /\ job.set.isModule) => s.isModule
  BY <1>5
<1>7. /\ job'.set = s /\ job'.flag = job.flag /\ job'.at = step /\ ~job'.wrote
      /\ step \in {"parse", "run", "compile"}
  BY <1>1, <1>2, <1>6 DEF Jobs
<1>8. job.flag = "m" => s.noNex
  <2>1. CASE job.set.noNex
    BY <1>4, <1>6, <2>1 DEF ModuleAlone
  <2>2. CASE job.flag = "m" /\ job.input \in Modules
    <3>1. job'.set.noNex
      BY <1>1, <1>2, <2>2, OriginOfModule, ParseOfModule
    <3> QED BY <1>7, <3>1
  <2> QED BY <1>4, <2>1, <2>2
<1>9. ImageAsPromised'
  BY <1>7 DEF ImageAsPromised, Wrote
<1> QED BY <1>1, <1>2, <1>3, <1>4, <1>6, <1>7, <1>8, <1>9 DEF Packing

\* Every step of nextbuild.py.
LEMMA PackingJobStep ==
    ASSUME AllTyped, Delivery, FolderRules, Packing, JobStep, job' # None
    PROVE  Packing'
<1>1. job # None /\ job \in Jobs /\ Typed /\ UNCHANGED <<src, outer>>
  BY JobStepFrame DEF AllTyped, TypedInv, Typed
<1>2. job.unit \in Units /\ job.input \in Units /\ job.set \in Settings
  BY <1>1 DEF Jobs
<1>3. /\ (\A u \in Units : src[u].prog \in Programs[u])'
      /\ ((outer # None /\ outer.flag = "m") => outer.todo \subseteq Modules)'
  BY <1>1 DEF Packing
<1>4. CASE Origin \/ ParseDirectives
  BY <1>4, PackingParse DEF FolderRules
<1>5. CASE CompileFails \/ ParseNEXCfgMissing \/ CreateNEXFails \/ CopyToDestinationFails
           \/ AnythingToRun \/ Launch
  BY <1>5 DEF CompileFails, ParseNEXCfgMissing, CreateNEXFails, CopyToDestinationFails,
              AnythingToRun, Launch, Ended
\* From the compiler on the settings stay, and a module packs nothing.
<1>6. ASSUME NEW step, NEW w,
             job' = [job EXCEPT !.at = step] \/ job' = [job EXCEPT !.at = step, !.wrote = w]
      PROVE  /\ job'.set = job.set /\ job'.flag = job.flag /\ job'.at = step
             /\ job'.unit = job.unit /\ job'.input = job.input
             /\ Compiled' = Compiled
  <2>1. /\ job'.set = job.set /\ job'.flag = job.flag /\ job'.at = step
        /\ job'.unit = job.unit /\ job'.input = job.input
    BY <1>1, <1>6 DEF Jobs
  <2> QED BY <1>1, <2>1 DEF Compiled
<1>7. ASSUME job.at # "parse"
      PROVE  /\ job.flag # "m" => ModuleAlone(job.set)
             /\ job.flag = "m" => job.set.noNex
             /\ job.set.isModule => job.set.noNex
  BY <1>1, <1>7 DEF Packing, ModuleAlone
<1>8. ASSUME NEW step, job' = [job EXCEPT !.at = step], job.at \in {"compile", "cfg", "nex"}
      PROVE  ~job'.wrote /\ ImageAsPromised'
  <2>1. ~job.wrote /\ job'.wrote = job.wrote
    BY <1>1, <1>8 DEF Packing, Jobs
  <2> QED BY <2>1 DEF ImageAsPromised, Wrote
<1>9. CASE Compile
  <2>1. PICK step \in {"cfg", "launch"} : job' = [job EXCEPT !.at = step]
    BY <1>9 DEF Compile, Ended, Go
  <2>2. job.at = "compile" /\ job.flag # "t"
    BY <1>9 DEF Compile, At, Ended
  <2>3. ASSUME ~job.set.asm PROVE bin'[job.unit] = Compiled
    <3>1. bin' = [bin EXCEPT ![job.unit] = Compiled]
      BY <1>9, <2>2, <2>3 DEF Compile, OtherOutput
    <3> QED BY <1>1, <1>2, <3>1 DEF Typed
  <2>4. /\ job'.set = job.set /\ job'.flag = job.flag /\ job'.at = step
        /\ job'.unit = job.unit /\ Compiled' = Compiled
    BY <1>6, <2>1
  <2>5. ~job'.wrote /\ ImageAsPromised'
    BY <1>8, <2>1, <2>2
  <2> QED BY <1>3, <1>7, <2>1, <2>2, <2>3, <2>4, <2>5 DEF Packing
<1>10. CASE ParseNEXCfgModule
  <2>1. job' = [job EXCEPT !.at = "nex"] /\ job.at = "cfg" /\ job.set.isModule /\ UNCHANGED bin
    BY <1>10 DEF ParseNEXCfgModule, Go, At
  <2>2. /\ job'.set = job.set /\ job'.flag = job.flag /\ job'.at = "nex"
        /\ job'.unit = job.unit /\ Compiled' = Compiled
    BY <1>6, <2>1
  <2>3. ~job'.wrote /\ ImageAsPromised'
    BY <1>8, <2>1
  <2>4. ~job.set.asm => bin[job.unit] = Compiled
    BY <1>1, <2>1 DEF Packing
  <2> QED BY <1>3, <1>7, <2>1, <2>2, <2>3, <2>4 DEF Packing
<1>11. CASE ParseNEXCfg
  <2>1. /\ job' = [job EXCEPT !.at = "nex"] /\ job.at = "cfg" /\ UNCHANGED bin
        /\ Missing(job.input) = {}
        /\ trims' = TrimsBefore(job.input, Len(src[job.input].prog.loads) + 1)
        /\ cfg' = [cfg EXCEPT ![job.unit] = NexCfg(job.set, job.unit, job.input)]
    BY <1>11 DEF ParseNEXCfg, Go, At
  <2>2. /\ job'.set = job.set /\ job'.flag = job.flag /\ job'.at = "nex"
        /\ job'.unit = job.unit /\ job'.input = job.input /\ Compiled' = Compiled
    BY <1>6, <2>1
  <2>3. ~job'.wrote /\ ImageAsPromised'
    BY <1>8, <2>1
  <2>4. ~job.set.asm => bin[job.unit] = Compiled
    BY <1>1, <2>1 DEF Packing
  <2>5. Configured'
    <3> DEFINE lines == NexCfg(job.set, job.unit, job.input)
               loads == src[job.input].prog.loads
    <3>1. lines' = lines /\ loads' = loads /\ Missing(job.input)' = Missing(job.input)
      BY <1>1, <2>2 DEF NexCfg, Missing
    <3>2. cfg'[job.unit] = lines
      <4>1. cfg' = [cfg EXCEPT ![job.unit] = lines]
        BY <2>1
      <4>2. cfg \in [Units -> {None} \cup Seq(CfgLines)]
        BY DEF AllTyped, FilesTyped
      <4> HIDE DEF lines
      <4> QED BY <1>2, <4>1, <4>2
    <3>3. TrimsOf(trims', loads)
      <4>1. src[job.input].prog \in Programs[job.input]
        BY <1>2 DEF Packing
      <4>2. Alike(loads)
        BY <1>2, <4>1 DEF FolderRules, OneTrim, Alike
      <4> QED BY <1>1, <1>2, <2>1, <4>2, TrimsDone
    <3>4. (cfg[job.unit])' = lines' /\ TrimsOf(trims, loads)'
      BY <2>2, <3>1, <3>2, <3>3 DEF TrimsOf
    <3>5. Missing(job.input)' = {}
      BY <2>1, <3>1
    <3> QED BY <3>4, <3>5 DEF Configured
  <2> QED BY <1>3, <1>7, <2>1, <2>2, <2>3, <2>4, <2>5 DEF Packing
<1>12. CASE SkipNEXFile
  <2>1. job' = [job EXCEPT !.at = AfterNex] /\ job.at = "nex"
    BY <1>12 DEF SkipNEXFile, Go, At
  <2>2. AfterNex \in {"launch", "copy"}
    BY DEF AfterNex
  <2>3. job'.set = job.set /\ job'.flag = job.flag /\ job'.at = AfterNex
    BY <1>6, <2>1
  <2>4. ~job'.wrote /\ ImageAsPromised'
    BY <1>8, <2>1
  <2> QED BY <1>3, <1>7, <2>1, <2>2, <2>3, <2>4 DEF Packing
<1>13. CASE CreateNEXFile
  <2>1. job' = [job EXCEPT !.at = AfterNex, !.wrote = TRUE] /\ job.at = "nex"
    BY <1>13 DEF CreateNEXFile, At
  <2>2. AfterNex \in {"launch", "copy"}
    BY DEF AfterNex
  <2>3. job'.set = job.set /\ job'.flag = job.flag /\ job'.at = AfterNex
    BY <1>6, <2>1
  <2>4. ImageAsPromised'
    BY <1>13, PackedAsPromised
  <2> QED BY <1>3, <1>7, <2>1, <2>2, <2>3, <2>4 DEF Packing
<1>14. CASE CopyToDestination
  <2>1. job' = [job EXCEPT !.at = "run"] /\ job.at = "copy" /\ UNCHANGED nex
    BY <1>14 DEF CopyToDestination, At, Go
  <2>2. job'.set = job.set /\ job'.flag = job.flag /\ job'.at = "run"
    BY <1>6, <2>1
  <2>3. ImageAsPromised'
    BY <1>1, <2>1, ImageFrame DEF Packing
  <2> QED BY <1>3, <1>7, <2>1, <2>2, <2>3 DEF Packing
<1> QED BY <1>4, <1>5, <1>9, <1>10, <1>11, <1>12, <1>13, <1>14 DEF JobStep

LEMMA PackingStep ==
    ASSUME AllTyped, Delivery, FolderRules, Packing, [Next]_vars
    PROVE  Packing'
<1>0. Typed /\ Phases
  BY DEF AllTyped, TypedInv
<1>1. /\ \A u \in Units : src[u].prog \in Programs[u]
      /\ (outer # None /\ outer.flag = "m") => outer.todo \subseteq Modules
  BY DEF Packing
<1>2. ASSUME job' = None, UNCHANGED src,
             (outer' # None /\ outer'.flag = "m") => outer'.todo \subseteq Modules
      PROVE  Packing'
  <2>1. ImageAsPromised' <=> TRUE
    BY <1>2 DEF ImageAsPromised, Wrote
  <2> QED BY <1>1, <1>2, <2>1 DEF Packing
<1>3. ASSUME NEW u \in Units, Edit(u) PROVE Packing'
  <2>1. PICK p \in Programs[u] : src' = [src EXCEPT ![u] = [prog |-> p, ver |-> @.ver + 1]]
    BY <1>3 DEF Edit
  <2>2. job' = None /\ outer' = None
    BY <1>3 DEF Edit, Idle
  <2>3. ASSUME NEW v \in Units PROVE src'[v].prog \in Programs[v]
    <3>1. CASE v = u
      BY <1>0, <2>1, <3>1 DEF Typed
    <3>2. CASE v # u
      BY <1>0, <1>1, <2>1, <3>2 DEF Typed
    <3> QED BY <3>1, <3>2
  <2> QED BY <2>2, <2>3 DEF Packing
<1>4. ASSUME NEW u \in Units, NEW lines, RunNexCreator(u, lines) PROVE Packing'
  BY <1>2, <1>4 DEF RunNexCreator, Idle
<1>5. ASSUME NEW u \in Units, BuildNext(u) PROVE Packing'
  <2>1. /\ outer # None /\ u \in outer.todo /\ job' = Start(u, outer.flag) /\ UNCHANGED src
        /\ outer' = [outer EXCEPT !.todo = @ \ {u}]
    BY <1>5 DEF BuildNext, files
  <2>2. outer \in Outers
    BY <1>0, <2>1 DEF Typed
  <2>3. outer'.flag = outer.flag /\ outer'.todo = outer.todo \ {u}
    BY <2>1, <2>2 DEF Outers
  <2>4. (outer' # None /\ outer'.flag = "m") => outer'.todo \subseteq Modules
    BY <1>1, <2>1, <2>3
  <2>5. outer.flag = "m" => u \in Modules
    BY <1>1, <2>1
  <2> QED BY <1>1, <2>1, <2>4, <2>5, PackingStart
<1>6. ASSUME NEW u \in Units, NEW f \in Flags, RunNextBuild(u, f), f = "m" => u \in Modules
      PROVE  Packing'
  <2>1. job' = Start(u, f) /\ UNCHANGED <<src, outer>>
    BY <1>6 DEF RunNextBuild
  <2> QED BY <1>1, <1>6, <2>1, PackingStart
<1>7. ASSUME NEW u \in Units, NEW f \in {"m", "s", "e"}, RunBuild(u, f) PROVE Packing'
  <2>1. job' = None /\ UNCHANGED src
    BY <1>7 DEF RunBuild, Idle
  <2>2. outer'.flag = f /\ (f = "m" => outer'.todo = Modules)
    BY <1>7 DEF RunBuild
  <2> QED BY <1>2, <2>1, <2>2
<1>8. CASE JobStep
  <2>1. CASE job' = None
    BY <1>1, <1>2, <1>8, <2>1, JobStepFrame
  <2> QED BY <1>8, <2>1, PackingJobStep
<1>9. CASE BuildCopy \/ StartEmulator \/ DeleteRelatedFiles
  <2>1. outer # None /\ outer \in Outers /\ UNCHANGED <<src, job>>
    BY <1>0, <1>9 DEF BuildCopy, StartEmulator, DeleteRelatedFiles, Typed, files
  <2>2. job' = None
    BY <1>0, <1>9, <2>1 DEF BuildCopy, StartEmulator, DeleteRelatedFiles, Phases
  <2>3. outer' = None \/ (outer'.flag = outer.flag /\ outer'.todo = outer.todo)
    BY <1>9, <2>1 DEF BuildCopy, StartEmulator, DeleteRelatedFiles, Outers
  <2> QED BY <1>1, <1>2, <2>1, <2>2, <2>3
<1>10. CASE UNCHANGED vars
  <2>1. UNCHANGED <<src, bin, cfg, nex, trims, job, outer>>
    BY <1>10 DEF vars
  <2>2. ImageAsPromised'
    <3> DEFINE m == Promised(job.set, Current(job.input), src[job.input].prog.loads)
    <3>1. m' = m /\ FirstCell' = FirstCell
      BY <2>1 DEF Current, FirstCell
    <3>2. ImageAsPromised
      BY <2>1 DEF Packing, ImageAsPromised, Wrote
    <3>3. (Wrote /\ InRam)' <=> Wrote /\ InRam
      BY <2>1 DEF Wrote, InRam
    <3>4. (nex[job.unit])' = nex[job.unit]
      BY <2>1
    <3>5. (job.set.org)' = job.set.org
      BY <2>1
    <3> HIDE DEF m
    <3> QED BY <3>1, <3>2, <3>3, <3>4, <3>5 DEF ImageAsPromised, m
  <2>3. Compiled' = Compiled /\ Configured' = Configured
    BY <2>1 DEF Compiled, Configured, NexCfg, Missing, TrimsOf
  <2> QED BY <2>1, <2>2, <2>3 DEF Packing
<1> QED BY <1>3, <1>4, <1>5, <1>6, <1>7, <1>8, <1>9, <1>10, NextSplit

\* In a folder that keeps to the rules, every NEX file a build has just written loads
\* to what its source asks for: every cell of the program where it was assembled,
\* every cell of every part where LoadSDBank would have put it, and an entry point in
\* the program, whatever earlier builds left behind, whatever lines the configuration
\* has, in whatever order nextcreator.py writes and the loader reads the banks.
THEOREM WrittenAsPromised == ASSUME FolderRules PROVE Spec => []ImageAsPromised
<1> DEFINE Inv == MakingInv /\ Packing
<1>1. Init => Packing
  BY PackingInit
<1>2. MakingInv /\ Packing /\ [Next]_vars => Packing'
  BY PackingStep DEF MakingInv
<1>3. Packing => ImageAsPromised
  BY DEF Packing, ImageAsPromised, Wrote
<1> QED BY <1>1, <1>2, <1>3, MakingAlways, PTL DEF Spec
-----------------------------------------------------------------------------
(* The pictures of a configuration packed by hand.                         *)

\* A picture in the buffer of its kind, and the kind among those of the header.
ScreenIn(n, kind, name) ==
    kind \in n.screens /\ kind \in DOMAIN n.shots /\ n.shots[kind] = name

\* A buffer that is filled, and the others.
LEMMA ShotFacts ==
    ASSUME NEW n \in Creators, NEW kind \in Kinds, NEW buffer \in Kinds, NEW name, NEW disk
    PROVE  LET m == Shot(n, kind, buffer, name, disk) IN
           /\ name \notin DOMAIN disk => m = n
           /\ name \in DOMAIN disk => /\ m.screens = n.screens \cup {kind}
                                      /\ buffer \in DOMAIN m.shots /\ m.shots[buffer] = name
                                      /\ \A k \in DOMAIN n.shots : k # buffer =>
                                           k \in DOMAIN m.shots /\ m.shots[k] = n.shots[k]
<1> DEFINE m == Shot(n, kind, buffer, name, disk)
           g == Store(n.shots, buffer, name)
<1>1. name \notin DOMAIN disk => m = n
  BY DEF Shot
<1>2. /\ buffer \in DOMAIN g /\ g[buffer] = name
      /\ \A k \in DOMAIN n.shots : k # buffer => k \in DOMAIN g /\ g[k] = n.shots[k]
  BY DEF Store, Over
<1>3. name \in DOMAIN disk => m = [n EXCEPT !.shots = g, !.screens = @ \cup {kind}]
  BY DEF Shot
<1> HIDE DEF m, g
<1>4. name \in DOMAIN disk => m.screens = n.screens \cup {kind} /\ m.shots = g
  BY <1>3 DEF Creators
<1> QED BY <1>1, <1>2, <1>4 DEF m

\* A picture that is there is in its buffer once its line has been read.
LEMMA ScreenLoaded ==
    ASSUME NEW n \in Creators, NEW line, line.op \in Kinds \ {"slr"}, NEW disk,
           line.file \in DOMAIN disk, ~n.broken
    PROVE  ScreenIn(ParseLine(n, line, disk), line.op, line.file)
<1>1. n.broken = FALSE
  BY DEF Creators
<1> DEFINE kind == line.op
           m == Shot(n, kind, kind, line.file, disk)
           p == ParseLine(n, line, disk)
<1>2. kind \in Kinds
  OBVIOUS
<1>3. kind \in m.screens /\ kind \in DOMAIN m.shots /\ m.shots[kind] = line.file
  BY <1>2, ShotFacts
<1>4. p = m \/ p = [m EXCEPT !.screens = @ \cup {"shr"}]
  <2>1. CASE line.op = "bmp"
    BY <1>1, <2>1 DEF ParseLine, LoadBmp
  <2>2. CASE line.op = "scr"
    BY <1>1, <2>2 DEF ParseLine, LoadScr
  <2>3. CASE line.op = "shr"
    BY <1>1, <2>3 DEF ParseLine, LoadShr
  <2>4. CASE line.op = "shc"
    BY <1>1, <2>4 DEF ParseLine, LoadShc
  <2> QED BY <2>1, <2>2, <2>3, <2>4 DEF Kinds
<1>5. m \in [bank : {m.bank}, addr : {m.addr}, big : {m.big}, flags : {m.flags}, shots : {m.shots},
             screens : {m.screens}, pc : {m.pc}, sp : {m.sp}, entry : {m.entry}, broken : {m.broken}]
  BY DEF Shot, Creators
<1> HIDE DEF m, p
<1>6. p.shots = m.shots /\ m.screens \subseteq p.screens
  BY <1>4, <1>5
<1> QED BY <1>3, <1>6 DEF ScreenIn, p

\* Lines of another kind leave it there.
LEMMA ScreenStays ==
    ASSUME NEW n \in Creators, NEW line \in CfgLines, NEW disk, Folder(disk),
           NEW kind \in Kinds, NEW name, ScreenIn(n, kind, name), line.op # kind,
           line.op = "slr" => line.file \notin DOMAIN disk,
           ~n.broken, ~ParseLine(n, line, disk).broken
    PROVE  ScreenIn(ParseLine(n, line, disk), kind, name)
<1> DEFINE p == ParseLine(n, line, disk)
<1>1. n.broken = FALSE
  BY DEF Creators
<1>2. ASSUME NEW k \in Creators, k.shots = n.shots, k.screens = n.screens,
             p = AddFile(k, line.file, disk)
      PROVE  p.shots = n.shots /\ p.screens = n.screens
  <2>1. line.file \in DOMAIN disk
    BY <1>2, AddFileFacts
  <2>2. Filed(k, p, disk[line.file]) /\ disk[line.file] \in Seq(Cells)
    BY <1>2, <2>1, AddFileFacts DEF Folder
  <2> HIDE DEF p
  <2>3. SameRest(k, p)
    BY <2>2, FiledFacts
  <2> QED BY <1>2, <2>3 DEF SameRest
<1>3. CASE line \in [op : {"file"}, file : Names, bank : Nat, addr : Nat]
  <2> DEFINE b == line.bank
             a == line.addr
             k == [n EXCEPT !.bank = b, !.addr = a]
  <2>1. p = AddFile(k, line.file, disk)
    BY <1>1, <1>3 DEF ParseLine
  <2>2. b \in Nat /\ a \in Nat
    BY <1>3
  <2> HIDE DEF b, a
  <2>3. k \in Creators /\ k.shots = n.shots /\ k.screens = n.screens
    BY <2>2 DEF Creators
  <2> HIDE DEF k, p
  <2>4. p.shots = n.shots /\ p.screens = n.screens
    BY <1>2, <2>1, <2>3
  <2> QED BY <2>4 DEF ScreenIn, p
<1>4. CASE line \in [op : {"more"} \cup Kinds, file : Names]
  <2>1. CASE line.op = "more"
    <3>1. p = AddFile(n, line.file, disk)
      BY <1>1, <2>1 DEF ParseLine
    <3> HIDE DEF p
    <3>2. p.shots = n.shots /\ p.screens = n.screens
      BY <1>2, <3>1
    <3> QED BY <3>2 DEF ScreenIn, p
  <2>2. CASE line.op \in Kinds \ {"slr"}
    <3> DEFINE m == Shot(n, line.op, line.op, line.file, disk)
    <3>1. p = m \/ p = [m EXCEPT !.screens = @ \cup {"shr"}]
      <4>1. CASE line.op = "bmp"
        <5>1. p = LoadBmp(n, line.file, disk)
          BY <1>1, <4>1 DEF ParseLine
        <5>2. line.file \in DOMAIN disk
          <6>1. [n EXCEPT !.broken = TRUE].broken
            BY DEF Creators
          <6> QED BY <5>1, <6>1 DEF LoadBmp
        <5> QED BY <4>1, <5>1, <5>2 DEF LoadBmp
      <4>2. CASE line.op = "scr"
        BY <1>1, <4>2 DEF ParseLine, LoadScr
      <4>3. CASE line.op = "shr"
        BY <1>1, <4>3 DEF ParseLine, LoadShr
      <4>4. CASE line.op = "shc"
        BY <1>1, <4>4 DEF ParseLine, LoadShc
      <4> QED BY <2>2, <4>1, <4>2, <4>3, <4>4 DEF Kinds
    <3>2. m \in Creators
      BY <1>4, <2>2, ShotTyped
    <3>3. ScreenIn(m, kind, name)
      <4> DEFINE o == line.op
                 f == line.file
                 q == Shot(n, o, o, f, disk)
      <4>1. o \in Kinds /\ o # kind
        BY <2>2
      <4> HIDE DEF o, f
      <4>2. /\ f \notin DOMAIN disk => q = n
            /\ f \in DOMAIN disk => /\ q.screens = n.screens \cup {o}
                                    /\ \A k \in DOMAIN n.shots : k # o =>
                                         k \in DOMAIN q.shots /\ q.shots[k] = n.shots[k]
        BY <4>1, ShotFacts
      <4> HIDE DEF q
      <4>3. ScreenIn(q, kind, name)
        BY <4>1, <4>2 DEF ScreenIn
      <4> QED BY <4>3 DEF q, o, f
    <3> HIDE DEF m, p
    <3>4. p.shots = m.shots /\ m.screens \subseteq p.screens
      BY <3>1, <3>2 DEF Creators
    <3> QED BY <3>3, <3>4 DEF ScreenIn, p
  <2>3. CASE line.op = "slr"
    <3>1. p = LoadSlr(n, line.file, disk)
      BY <1>1, <2>3 DEF ParseLine
    <3>2. LoadSlr(n, line.file, disk) = n
      BY <2>3 DEF LoadSlr, Shot
    <3> QED BY <3>1, <3>2
  <2> QED BY <1>4, <2>1, <2>2, <2>3
<1>5. CASE line \in [op : {"mmu"}, file : Names, page : Nat, addr : Nat]
  <2> DEFINE b == line.page \div 2
             a == line.addr + (line.page % 2) * Page
             k == [n EXCEPT !.bank = b, !.addr = a]
  <2>1. p = AddFile(k, line.file, disk)
    BY <1>1, <1>5 DEF ParseLine, LoadMMU
  <2>2. b \in Nat /\ a \in Nat
    BY <1>5, MMUPlace
  <2> HIDE DEF b, a
  <2>3. k \in Creators /\ k.shots = n.shots /\ k.screens = n.screens
    BY <2>2 DEF Creators
  <2> HIDE DEF k, p
  <2>4. p.shots = n.shots /\ p.screens = n.screens
    BY <1>2, <2>1, <2>3
  <2> QED BY <2>4 DEF ScreenIn, p
<1>6. CASE line \in [op : {"pcsp"}, pc : Nat, sp : Nat \X Int]
  <2>1. p = [n EXCEPT !.pc = line.pc, !.sp = line.sp]
    BY <1>1, <1>6 DEF ParseLine, SetPCSP
  <2>2. p.shots = n.shots /\ p.screens = n.screens
    BY <2>1 DEF Creators
  <2> QED BY <2>2 DEF ScreenIn
<1>7. CASE line \in [op : {"bank"}, bank : Nat]
  <2>1. p = [n EXCEPT !.entry = line.bank]
    BY <1>1, <1>7 DEF ParseLine, SetEntryBank
  <2>2. p.shots = n.shots /\ p.screens = n.screens
    BY <2>1 DEF Creators
  <2> QED BY <2>2 DEF ScreenIn
<1> QED BY <1>3, <1>4, <1>5, <1>6, <1>7 DEF CfgLines

\* The last picture of each kind is the one of that kind at the end.
LEMMA ScreenAtEnd ==
    ASSUME NEW lines \in Seq(CfgLines), NEW disk, Folder(disk), ~ParseFile(lines, disk).broken,
           \A i \in DOMAIN lines : lines[i].op = "slr" => lines[i].file \notin DOMAIN disk,
           NEW k \in DOMAIN lines, lines[k].op \in Kinds, lines[k].file \in DOMAIN disk,
           \A j \in (k + 1)..Len(lines) : lines[j].op # lines[k].op
    PROVE  /\ ParseFile(lines, disk) \in Creators
           /\ ScreenIn(ParseFile(lines, disk), lines[k].op, lines[k].file)
<1> DEFINE N == Len(lines)
           kind == lines[k].op
           name == lines[k].file
<1>1. /\ N \in Nat /\ k \in 1..N /\ k \in Nat /\ k >= 1 /\ k <= N
      /\ \A i \in 1..N : lines[i] \in CfgLines /\ i \in DOMAIN lines
  OBVIOUS
<1>2. PICK h : Parsing(h, lines, disk)
  BY ParseRun
<1>3. /\ ParseFile(lines, disk) = h[N] /\ \A i \in 0..N : h[i] \in Creators
      /\ \A i \in 1..N : h[i] = ParseLine(h[i - 1], lines[i], disk)
  BY <1>2 DEF Parsing
<1>4. \A i \in 0..N : ~h[i].broken
  BY <1>2, NeverBroken
<1>5. kind \in Kinds /\ kind # "slr" /\ name \in DOMAIN disk
  OBVIOUS
<1>6. \A j \in (k + 1)..N : lines[j].op # kind
  OBVIOUS
<1> HIDE DEF N
<1>7. ScreenIn(h[k], kind, name)
  <2>1. k - 1 \in 0..N /\ k \in 1..N
    BY <1>1
  <2> DEFINE n == h[k - 1]
             line == lines[k]
  <2>2. n \in Creators /\ ~n.broken /\ h[k] = ParseLine(n, line, disk)
    BY <1>3, <1>4, <2>1
  <2> HIDE DEF n
  <2>3. ScreenIn(ParseLine(n, line, disk), line.op, line.file)
    BY <1>5, <2>2, ScreenLoaded
  <2> QED BY <2>2, <2>3
<1> HIDE DEF kind, name
<1> DEFINE K == {i \in Nat : k + i <= N => ScreenIn(h[k + i], kind, name)}
<1>8. 0 \in K
  <2>1. k + 0 = k
    BY <1>1
  <2> QED BY <1>7, <2>1
<1>9. ASSUME NEW i \in Nat, i \in K PROVE i + 1 \in K
  <2>1. SUFFICES ASSUME k + (i + 1) <= N PROVE ScreenIn(h[k + (i + 1)], kind, name)
    OBVIOUS
  <2> DEFINE j == k + i
             n == h[j]
             line == lines[j + 1]
  <2>2. /\ k + (i + 1) = j + 1 /\ j <= N /\ j \in 0..N /\ j + 1 \in 0..N /\ j + 1 \in 1..N
        /\ j + 1 \in (k + 1)..N /\ (j + 1) - 1 = j
    BY <1>1, <2>1
  <2>3. ScreenIn(n, kind, name)
    BY <1>9, <2>2
  <2>4. n \in Creators /\ ~n.broken /\ ~h[j + 1].broken /\ h[j + 1] = ParseLine(n, line, disk)
    BY <1>3, <1>4, <2>2
  <2>5. line \in CfgLines /\ line.op # kind /\ (line.op = "slr" => line.file \notin DOMAIN disk)
    BY <1>1, <1>6, <2>2
  <2> HIDE DEF n, line, j
  <2>6. ScreenIn(ParseLine(n, line, disk), kind, name)
    BY <1>5, <2>3, <2>4, <2>5, ScreenStays
  <2> QED BY <2>2, <2>4, <2>6
<1>10. Nat \subseteq K
  <2> HIDE DEF K
  <2> QED BY <1>8, <1>9, NatSetInduction
<1>11. N - k \in Nat /\ k + (N - k) = N
  BY <1>1
<1>12. ScreenIn(h[N], kind, name)
  <2>1. N - k \in K
    BY <1>10, <1>11
  <2>2. k + (N - k) <= N
    BY <1>1, <1>11
  <2> QED BY <1>11, <2>1, <2>2
<1>13. N \in 0..N
  BY <1>1
<1> QED BY <1>3, <1>12, <1>13 DEF kind, name

\* Every picture a configuration packed by hand names is in the file under the kind it
\* was loaded as, whatever the lines around it load and whatever builds left in the
\* folder, as long as no '!slr picture is there, whose buffers are those of others.
THEOREM PicturesKept == ASSUME NoLowRes PROVE Spec => []ScreensKept
<1>1. ASSUME AllTyped PROVE ScreensKept
  <2>1. Typed /\ CopiesOf(trims)
    BY <1>1 DEF AllTyped, TypedInv, FilesTyped, CopiesOf
  <2>2. Folder(OnDisk)
    BY <2>1, DiskTyped
  <2>3. /\ DOMAIN Parts \subseteq DOMAIN OnDisk
        /\ \A f \in Part \ DOMAIN Parts : f \notin DOMAIN OnDisk
    <3>1. DOMAIN OnDisk = DOMAIN Parts \cup DOMAIN trims
                            \cup {<<"bin", u>> : u \in {v \in Units : bin[v] # None}}
      BY DEF OnDisk
    <3>2. ASSUME NEW f \in Part PROVE f \notin DOMAIN trims /\ \A u : f # <<"bin", u>>
      <4>1. f[1] = "part"
        BY DEF Part
      <4>2. \A t \in DOMAIN trims : t[1] = "tr"
        BY <2>1 DEF CopiesOf
      <4> QED BY <4>1, <4>2
    <3> QED BY <3>1, <3>2
  <2> SUFFICES ASSUME NEW u \in Units, NEW lines \in HandWritten[u],
                      ~ParseFile(lines, OnDisk).broken,
                      NEW k \in DOMAIN lines, lines[k].op \in Kinds,
                      \A j \in (k + 1)..Len(lines) : lines[j].op # lines[k].op,
                      lines[k].file \in DOMAIN Parts
               PROVE  <<lines[k].op, lines[k].file>> \in GenerateFile(ParseFile(lines, OnDisk)).screens
    BY DEF ScreensKept, Kinds
  <2>4. lines \in Seq(CfgLines)
    BY HandWrittenAssumption
  <2>5. \A i \in DOMAIN lines : lines[i].op = "slr" => lines[i].file \notin DOMAIN OnDisk
    BY <2>3 DEF NoLowRes
  <2> DEFINE disk == OnDisk
             n == ParseFile(lines, disk)
             kind == lines[k].op
             name == lines[k].file
  <2>6. lines[k].file \in DOMAIN disk
    BY <2>3
  <2>7. Folder(disk) /\ ~ParseFile(lines, disk).broken
        /\ \A i \in DOMAIN lines : lines[i].op = "slr" => lines[i].file \notin DOMAIN disk
    BY <2>2, <2>5
  <2> HIDE DEF disk
  <2>8. n \in Creators /\ ScreenIn(n, kind, name)
    BY <2>4, <2>6, <2>7, ScreenAtEnd
  <2> HIDE DEF n, kind, name
  <2>9. <<kind, name>> \in GenerateFile(n).screens
    BY <2>8 DEF GenerateFile, ScreenIn
  <2> QED BY <2>9 DEF n, kind, name, disk
<1> QED BY <1>1, AllTypedAlways, PTL
=============================================================================
