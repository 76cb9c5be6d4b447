-------------------------------- MODULE Build --------------------------------
(***************************************************************************)
(* The build scripts: nextbuild.py turns one .bas file into a binary, a    *)
(* configuration and a NEX file, and build.py runs it for the modules of a *)
(* program, copies what came out to data/, starts the emulator and deletes *)
(* intermediate files.  The two talk only through files and exit codes,    *)
(* and every file stays behind for the next build.                         *)
(*                                                                         *)
(* A unit is a .bas file.  Its source is a program of Programs[u] with a   *)
(* version number that every edit raises; a program has the directives at  *)
(* its head, its LoadSDBank lines, whether it compiles and its size (with  *)
(* the start code the compiler always writes, never 0).  A cell of a       *)
(* compiled program is <<unit, version, n>>, one of a data file <<file, n>>. *)
(***************************************************************************)
EXTENDS NexFile

CONSTANTS
    Units,       \* .bas files of the folder, nextlib.bas left out
    Targets,     \* those the programmer builds
    Modules,     \* those named Module<n>.bas with n at most 255
    OddModules,  \* those the pattern Module* matches and the check of n does not
    Programs,    \* what may be written in each unit
    Parts,       \* data files: their contents, by name
    HeadLines,   \* lines read for directives: 64
    MaxVersion,  \* no source is edited once one has reached this version
    HandWritten, \* configurations of each unit packed with nextcreator.py by hand
    None

VARIABLES
    src,     \* source of each unit: [prog, ver]
    bin,     \* u.bin, None if there is none
    cfg,     \* u.cfg
    nex,     \* u.nex
    data,    \* data/u.bin
    dest,    \* what '!copy= last put in the destination
    trims,   \* data/tr_<stem>0.bnk: the part it was last cut from and where
    job,     \* the nextbuild.py that runs
    outer,   \* the build.py that runs
    done,    \* exit status of the last nextbuild.py, None while one runs
    emu      \* unit whose NEX the last script gave to the emulator, if any

vars == <<src, bin, cfg, nex, data, dest, trims, job, outer, done, emu>>
files == <<bin, cfg, nex, data, dest, trims>>

MatchModule == Modules \cup OddModules
Address == {a \in Nat : a < 8 * Page}

-----------------------------------------------------------------------------
(* What may be written in a source.  A data file is <<"part", s, e>> with  *)
(* e the last four characters of its name and s the others (its stem), a   *)
(* binary <<"bin", u>>, a trimmed copy <<"tr", s>>.                        *)

Part == {"part"} \X STRING \X STRING

Switches == {"module", "noemu", "asm", "headerless", "nextzxos", "autostart",
             "bin", "nosys", "nonex"}

Directives == [op : {"org", "pc"}, at : Address] \cup [op : Switches]
              \cup [op : {"master", "origin"}, unit : Units]
              \cup [op : {"copy"}, kind : {"bin", "nex"}]
              \cup [op : {"bmp"}, file : Part]

LoadLines == [file : Part, addr : Nat, from : Nat, page : Nat]

Program == [head : Seq(Directives), loads : Seq(LoadLines), ok : BOOLEAN, size : Nat \ {0}]

\* The files of a folder, the cells in them, and the lines of a configuration
\* that nextcreator.py acts on.
Names == Part \cup ({"tr"} \X STRING) \cup ({"bin"} \X Units)

Cells == (Units \X Nat \X Nat) \cup (STRING \X Nat)

CfgLines == [op : {"file"}, file : Names, bank : Nat, addr : Nat]
            \cup [op : {"more"} \cup Kinds, file : Names]
            \cup [op : {"mmu"}, file : Names, page : Nat, addr : Nat]
            \cup [op : {"pcsp"}, pc : Nat, sp : Nat \X Int]
            \cup [op : {"bank"}, bank : Nat]

\* Tools/sysvars.bin, which is part of the repository.
SysVars == <<"part", "sysvars", ".bin">>

ASSUME UnitsAssumption == Targets \cup Modules \subseteq Units
ASSUME HeadLinesAssumption == HeadLines \in Nat
ASSUME ProgramsAssumption == \A u \in Units : Programs[u] \subseteq Program
ASSUME VersionAssumption == MaxVersion \in Nat \ {0}
ASSUME PartsAssumption ==
    /\ DOMAIN Parts \subseteq Part /\ \A p \in DOMAIN Parts : Parts[p] \in Seq(STRING \X Nat)
    /\ SysVars \in DOMAIN Parts
ASSUME HandWrittenAssumption == \A u \in Units : HandWritten[u] \subseteq Seq(CfgLines)

-----------------------------------------------------------------------------
(* Settings: the globals of nextbuild.py.                                  *)

Settings == [org : Address, pcadd : Address, noemu : BOOLEAN, noNex : BOOLEAN,
             isModule : BOOLEAN, noSys : BOOLEAN, asm : BOOLEAN,
             copy : {None, "bin", "nex"}, nextzxos : BOOLEAN, autostart : BOOLEAN,
             makebin : BOOLEAN, bmp : Part \cup {None}, master : Units \cup {None},
             headerless : BOOLEAN]

Defaults(flag) ==
    [org |-> 0, pcadd |-> 4 * Page, noemu |-> FALSE, noNex |-> FALSE,
     isModule |-> flag = "m", noSys |-> FALSE, asm |-> FALSE, copy |-> None,
     nextzxos |-> FALSE, autostart |-> FALSE, makebin |-> FALSE, bmp |-> None,
     master |-> None, headerless |-> FALSE]

\* One directive.  The three that should switch the emulator off compare
\* noemu where they mean to assign it, and so leave it.
Directive(s, d) ==
    CASE d.op = "org"       -> [s EXCEPT !.org = d.at]
      [] d.op = "module"    -> [s EXCEPT !.noemu = TRUE, !.noNex = TRUE,
                                         !.isModule = TRUE,
                                         !.pcadd = 3 * Page, !.org = 3 * Page]
      [] d.op = "noemu"     -> [s EXCEPT !.noemu = TRUE]
      [] d.op = "copy"      -> [s EXCEPT !.copy = d.kind]
      [] d.op = "asm"       -> [s EXCEPT !.noemu = TRUE, !.asm = TRUE]
      [] d.op = "headerless" -> [s EXCEPT !.headerless = TRUE]
      [] d.op = "bmp"       -> [s EXCEPT !.bmp = d.file]
      [] d.op = "nextzxos"  -> [s EXCEPT !.nextzxos = TRUE]
      [] d.op = "autostart" -> [s EXCEPT !.autostart = TRUE]
      [] d.op = "bin"       -> [s EXCEPT !.makebin = TRUE]
      [] d.op = "pc"        -> [s EXCEPT !.pcadd = d.at]
      [] d.op = "nosys"     -> [s EXCEPT !.noSys = TRUE]
      [] d.op = "master"    -> [s EXCEPT !.master = d.unit]
      [] d.op = "nonex"     -> [s EXCEPT !.noNex = TRUE]

Heading(u) == LET h == src[u].prog.head
              IN SubSeq(h, 1, IF Len(h) < HeadLines THEN Len(h) ELSE HeadLines)

Redirects(u) == {k \in DOMAIN Heading(u) : Heading(u)[k].op = "origin"}

\* A slip of Settle: -s keeps the master of the source.
SettleKeepsMaster(s, u, flag) ==
    LET single == IF flag = "s" THEN [s EXCEPT !.isModule = FALSE] ELSE s
    IN IF single.makebin
         THEN [single EXCEPT !.makebin = single.nextzxos, !.copy = None]
         ELSE single

\* What ParseDirectives does once the head is read.
Settle(s, u, flag) ==
    LET single == IF flag = "s" THEN [s EXCEPT !.isModule = FALSE, !.master = u]
                                ELSE s
    IN IF single.makebin
         THEN [single EXCEPT !.makebin = single.nextzxos, !.copy = None]
         ELSE single

-----------------------------------------------------------------------------
(* The configuration written by ParseNEXCfg.                               *)

\* Trimmed copies are named by the stem of the part.
Trimmed(name) == <<"tr", name[2]>>

Copies == [file : DOMAIN Parts, from : Nat \ {0}]
Cut(l) == [file |-> l.file, from |-> l.from]

RamBank(org) == CASE org \div Bank = 1 -> 5
                  [] org \div Bank = 2 -> 2
                  [] org \div Bank = 3 -> 0
                  [] org \div Bank = 0 -> 7

SysVarsLine == [op |-> "mmu", file |-> SysVars, page |-> 10,
                addr |-> (7 * Page) \div 8]

LoadLine(l) == [op |-> "mmu", page |-> l.page, addr |-> l.addr % Page,
                file |-> IF l.from > 0 THEN Trimmed(l.file) ELSE l.file]

\* The stack pointer is two bytes below org: <<org, -2>>.  The address of
\* '!pc only matters when it is 0.
NexCfg(s, u, input) ==
    (IF s.noSys THEN <<>> ELSE <<SysVarsLine>>)
    \o (IF s.bmp = None THEN <<>> ELSE <<[op |-> "bmp", file |-> s.bmp]>>)
    \o [k \in DOMAIN src[input].prog.loads |-> LoadLine(src[input].prog.loads[k])]
    \o <<IF s.pcadd = 0 THEN [op |-> "pcsp", pc |-> 0, sp |-> <<0, 0>>]
                        ELSE [op |-> "pcsp", pc |-> s.org, sp |-> <<s.org, -2>>]>>
    \o <<[op |-> "file", file |-> <<"bin", u>>, bank |-> RamBank(s.org),
          addr |-> s.org % Bank]>>

Missing(input) == {k \in DOMAIN src[input].prog.loads :
                     src[input].prog.loads[k].file \notin DOMAIN Parts}

\* A slip of TrimsBefore: a copy is made of every part.
TrimsBeforeAlways(input, k) ==
    FoldLeft(LAMBDA t, l : Store(t, Trimmed(l.file), Cut(l)),
             trims, SubSeq(src[input].prog.loads, 1, k - 1))

\* The trimmed copies written by the load lines before k.
TrimsBefore(input, k) ==
    FoldLeft(LAMBDA t, l : IF l.from > 0 THEN Store(t, Trimmed(l.file), Cut(l)) ELSE t,
             trims, SubSeq(src[input].prog.loads, 1, k - 1))

Code(b) == [n \in 1..b.size |-> <<b.unit, b.ver, n>>]

\* The files nextcreator.py can open.
OnDisk ==
    [name \in DOMAIN Parts \cup DOMAIN trims
                     \cup {<<"bin", u>> : u \in {v \in Units : bin[v] # None}}
       |-> CASE name[1] = "part" -> Parts[name]
             [] name[1] = "bin"  -> Code(bin[name[2]])
             [] name[1] = "tr"   -> LET whole == Parts[trims[name].file]
                                    IN SubSeq(whole, trims[name].from + 1, Len(whole))]

-----------------------------------------------------------------------------
(* What the machine is promised to find after loading a NEX: independent   *)
(* of banks and their order, cell by cell of the 8K pages.                 *)

\* LoadSDBank: from an address of a page on, and "increase bank every 8kb".
LoadSDBank(l) ==
    LET last == Len(Parts[l.file]) - l.from - 1
        a == l.addr % Page
    IN [at \in {<<l.page + (a + n) \div Page, (a + n) % Page>> : n \in 0..last}
          |-> Parts[l.file][l.from + 1 + (at[1] - l.page) * Page + at[2] - a]]

\* The program lies where it was assembled, as the processor addresses it.
ProgramCells(b) ==
    LET first == b.org - 2 * Page
    IN [at \in {<<2 * <<5, 2, 0>>[(first + n) \div Bank + 1]
                   + (((first + n) % Bank) \div Page), (first + n) % Page>> :
                 n \in {m \in 0..(b.size - 1) : first + m \in 0..(6 * Page - 1)}}
          |-> LET n == CHOOSE n \in 0..(b.size - 1) :
                         at = <<2 * <<5, 2, 0>>[(first + n) \div Bank + 1]
                                + (((first + n) % Bank) \div Page), (first + n) % Page>>
              IN <<b.unit, b.ver, n + 1>>]

\* Later loads go over earlier ones, and the program over everything.
Promised(s, b, loads) ==
    LET vars48 == [page |-> 10, addr |-> (7 * Page) \div 8, from |-> 0,
                   file |-> SysVars]
        from == IF s.noSys THEN <<>> ELSE LoadSDBank(vars48)
    IN Over(ProgramCells(b), FoldLeft(LAMBDA m, l : Over(LoadSDBank(l), m), from, loads))

-----------------------------------------------------------------------------
Idle == job = None /\ outer = None

Init ==
    /\ \E p \in [Units -> UNION {Programs[u] : u \in Units}] :
          /\ \A u \in Units : p[u] \in Programs[u]
          /\ src = [u \in Units |-> [prog |-> p[u], ver |-> 1]]
    /\ bin = [u \in Units |-> None] /\ cfg = [u \in Units |-> None]
    /\ nex = [u \in Units |-> None] /\ data = [u \in Units |-> None]
    /\ dest = None /\ trims = <<>> /\ job = None /\ outer = None
    /\ done = None /\ emu = None

\* The programmer changes a source between two builds.
Edit(u) ==
    /\ Idle /\ \A v \in Units : src[v].ver < MaxVersion
    /\ \E p \in Programs[u] : src' = [src EXCEPT ![u] = [prog |-> p, ver |-> @.ver + 1]]
    /\ UNCHANGED <<files, job, outer, done, emu>>

Start(u, flag) == [unit |-> u, input |-> u, flag |-> flag, set |-> Defaults(flag),
                   at |-> "parse", wrote |-> FALSE]

\* nextbuild.py from the command line: no flag, -m, -s, -l (run) or -t (tape).
RunNextBuild(u, flag) ==
    /\ Idle
    /\ job' = Start(u, flag) /\ done' = None /\ emu' = None
    /\ UNCHANGED <<src, files, outer>>

\* nextcreator.py from the command line, when it gets as far as to write.
RunNexCreator(u, lines) ==
    /\ Idle
    /\ LET n == ParseFile(lines, OnDisk)
       IN ~n.broken /\ ~Nothing(n) /\ nex' = [nex EXCEPT ![u] = GenerateFile(n)]
    /\ UNCHANGED <<src, bin, cfg, data, dest, trims, job, outer, done, emu>>

Flags == {"", "m", "s", "l", "t"}
Steps == {"parse", "compile", "cfg", "nex", "copy", "run", "launch"}
Jobs == [unit : Units, input : Units, flag : Flags, set : Settings, at : Steps,
         wrote : BOOLEAN]

Ended(status) == /\ job' = None
                 /\ done' = status

At(step) == job # None /\ job.at = step
Go(step) == job' = [job EXCEPT !.at = step] /\ UNCHANGED done

\* A new settings record with org at its default: ParseDirectives starts over.
Read(s, head) ==
    LET after[k \in 0..Len(head)] ==
          IF k = 0 THEN [s EXCEPT !.org = 4 * Page]
                   ELSE Directive(after[k - 1], head[k])
    IN after[Len(head)]

\* '!origin= : the rest of the build reads another file under the same name.
Origin ==
    /\ At("parse") /\ Redirects(job.input) # {}
    /\ LET k == CHOOSE k \in Redirects(job.input) : \A j \in Redirects(job.input) : k <= j
       IN job' = [job EXCEPT !.set = Read(@, SubSeq(Heading(job.input), 1, k - 1)),
                             !.input = Heading(job.input)[k].unit]
    /\ UNCHANGED <<src, files, outer, done, emu>>

ParseDirectives ==
    /\ At("parse") /\ Redirects(job.input) = {}
    /\ job' = [job EXCEPT !.set = Settle(Read(@, Heading(job.input)), job.unit, job.flag),
                          !.at = IF job.flag = "l" THEN "run" ELSE "compile"]
    /\ UNCHANGED <<src, files, outer, done, emu>>

CompileFails ==
    /\ At("compile") /\ ~src[job.input].prog.ok
    /\ Ended(-1)
    /\ UNCHANGED <<src, files, outer, emu>>

\* A binary that is assembled for the address of '!org.
Compiled == [unit |-> job.input, ver |-> src[job.input].ver,
             size |-> src[job.input].prog.size, org |-> job.set.org]

\* The compiler writes an assembler listing or a tape instead of u.bin.
OtherOutput == job.set.asm \/ (job.flag = "t" /\ ~job.set.headerless)

\* A tape ends the build; '!nextzxos leaves the rest to GenerateLoader.
Compile ==
    /\ At("compile") /\ src[job.input].prog.ok
    /\ bin' = IF OtherOutput THEN bin ELSE [bin EXCEPT ![job.unit] = Compiled]
    /\ CASE job.flag = "t"                    -> Ended(0)
         [] job.flag # "t" /\ job.set.nextzxos ->
              IF job.set.makebin THEN Go("launch")
              ELSE IF job.set.noNex THEN Ended(1) ELSE Go("cfg")
         [] job.flag # "t" /\ ~job.set.nextzxos ->
              IF job.set.asm THEN Ended(1) ELSE Go("cfg")
    /\ UNCHANGED <<src, cfg, nex, data, dest, trims, outer, emu>>

\* A module goes to data/ and leaves the configuration as it was; without a
\* binary the copy fails, and what was in data/ stays.
ParseNEXCfgModule ==
    /\ At("cfg") /\ job.set.isModule
    /\ data' = IF bin[job.unit] = None THEN data
               ELSE [data EXCEPT ![job.unit] = bin[job.unit]]
    /\ Go("nex")
    /\ UNCHANGED <<src, bin, cfg, nex, dest, trims, outer, emu>>

\* A part that is not in data/ ends the build; earlier trims stay.
ParseNEXCfgMissing ==
    /\ At("cfg") /\ ~job.set.isModule /\ Missing(job.input) # {}
    /\ LET k == CHOOSE k \in Missing(job.input) : \A j \in Missing(job.input) : k <= j
       IN trims' = TrimsBefore(job.input, k)
    /\ Ended(1)
    /\ UNCHANGED <<src, bin, cfg, nex, data, dest, outer, emu>>

\* A slip of ParseNEXCfg: an existing configuration is kept.
ParseNEXCfgKept ==
    /\ At("cfg") /\ ~job.set.isModule /\ Missing(job.input) = {}
    /\ trims' = TrimsBefore(job.input, Len(src[job.input].prog.loads) + 1)
    /\ cfg' = [cfg EXCEPT ![job.unit] = IF @ = None THEN NexCfg(job.set, job.unit, job.input)
                                                    ELSE @]
    /\ Go("nex")
    /\ UNCHANGED <<src, bin, nex, data, dest, outer, emu>>

ParseNEXCfg ==
    /\ At("cfg") /\ ~job.set.isModule /\ Missing(job.input) = {}
    /\ trims' = TrimsBefore(job.input, Len(src[job.input].prog.loads) + 1)
    /\ cfg' = [cfg EXCEPT ![job.unit] = NexCfg(job.set, job.unit, job.input)]
    /\ Go("nex")
    /\ UNCHANGED <<src, bin, nex, data, dest, outer, emu>>

AfterNex == IF job.set.nextzxos THEN "launch" ELSE "copy"

SkipNEXFile ==
    /\ At("nex") /\ job.set.noNex
    /\ Go(AfterNex)
    /\ UNCHANGED <<src, files, outer, emu>>

\* No configuration, or a file of it that cannot be opened: an exception.  So is
\* a NEX file that cannot be opened to write, which any build may come upon.
CreateNEXFails ==
    /\ At("nex") /\ ~job.set.noNex
    /\ Ended(1)
    /\ UNCHANGED <<src, files, outer, emu>>

\* A configuration of nextbuild.py has a line for the binary: there is something.
CreateNEXFile ==
    /\ At("nex") /\ ~job.set.noNex /\ cfg[job.unit] # None
    /\ LET n == ParseFile(cfg[job.unit], OnDisk)
       IN ~n.broken /\ nex' = [nex EXCEPT ![job.unit] = GenerateFile(n)]
    /\ job' = [job EXCEPT !.at = AfterNex, !.wrote = TRUE]
    /\ UNCHANGED <<src, bin, cfg, data, dest, trims, outer, done, emu>>

\* With '!nonex it is always the binary that goes to the destination.
Copied == IF job.set.copy = "bin" \/ job.set.noNex THEN bin[job.unit] ELSE nex[job.unit]

\* A copy that fails is reported and forgotten, but for the one of the binary.
CopyToDestination ==
    /\ At("copy")
    /\ \/ (job.set.copy = "bin" => job.set.noNex) /\ UNCHANGED dest
       \/ job.set.copy # None /\ dest' = Copied
    /\ Go("run")
    /\ UNCHANGED <<src, bin, cfg, nex, data, trims, outer, emu>>

\* What ends the build: loader.bas cannot be written, the message about the
\* binary adds a tuple to a string, or the copy of loader.bas that '!autostart
\* makes at the end fails.
CopyToDestinationFails ==
    /\ At("copy") /\ job.set.copy # None /\ ~job.set.noNex
    /\ \/ UNCHANGED dest
       \/ job.set.autostart /\ dest' = Copied
    /\ Ended(1)
    /\ UNCHANGED <<src, bin, cfg, nex, data, trims, outer, emu>>

AnythingToRun ==
    /\ At("run")
    /\ emu' = IF job.flag # "m" /\ job.set.master # None /\ ~job.set.noemu
                THEN job.set.master ELSE emu
    /\ Ended(0)
    /\ UNCHANGED <<src, files, outer>>

\* GenerateLoader puts the file on the card image and starts the emulator.
Launch ==
    /\ At("launch")
    /\ emu' = IF job.set.noemu THEN emu ELSE job.unit
    /\ Ended(1)
    /\ UNCHANGED <<src, files, outer>>

-----------------------------------------------------------------------------
(* build.py                                                                *)

Outers == [unit : Units, flag : {"m", "s", "e"}, at : {"compile", "emulate", "delete"},
           todo : SUBSET Units]

RunBuild(u, flag) ==
    /\ Idle
    /\ outer' = [unit |-> u, flag |-> flag, at |-> "compile",
                 todo |-> CASE flag = "m" -> Modules [] flag = "s" -> {u}
                            [] flag = "e" -> {}]
    /\ done' = None /\ emu' = None
    /\ UNCHANGED <<src, files, job>>

\* The next module, in the order of the directory; exit codes are not read.
BuildNext(u) ==
    /\ outer # None /\ job = None /\ outer.at = "compile" /\ u \in outer.todo
    /\ outer' = [outer EXCEPT !.todo = @ \ {u}]
    /\ job' = Start(u, outer.flag) /\ done' = None /\ emu' = None
    /\ UNCHANGED <<src, files>>

\* Everything that is there is copied, of this build or of an earlier one.
CopyModules(names) ==
    data' = [u \in Units |-> IF u \in names /\ bin[u] # None THEN bin[u] ELSE data[u]]

\* A slip of BuildCopy: it does not wait for the last module.
BuildCopyEarly ==
    /\ outer # None /\ job = None /\ outer.at = "compile"
    /\ CASE outer.flag = "m" -> CopyModules(Modules)
         [] outer.flag = "s" -> CopyModules(MatchModule)
         [] outer.flag = "e" -> UNCHANGED data
    /\ outer' = [outer EXCEPT !.at = IF outer.flag = "e" THEN "emulate" ELSE "delete"]
    /\ UNCHANGED <<src, bin, cfg, nex, dest, trims, job, done, emu>>

BuildCopy ==
    /\ outer # None /\ job = None /\ outer.at = "compile" /\ outer.todo = {}
    /\ CASE outer.flag = "m" -> CopyModules(Modules)
         [] outer.flag = "s" -> CopyModules(MatchModule)
         [] outer.flag = "e" -> UNCHANGED data
    /\ outer' = [outer EXCEPT !.at = IF outer.flag = "e" THEN "emulate" ELSE "delete"]
    /\ UNCHANGED <<src, bin, cfg, nex, dest, trims, job, done, emu>>

\* StartEmulator: the first '!master= anywhere in the file, or the file's own NEX.
Masters(u) == Keep(src[u].prog.head, [op : {"master"}, unit : Units])

StartEmulator ==
    /\ outer # None /\ outer.at = "emulate"
    /\ emu' = IF Masters(outer.unit) = <<>> THEN outer.unit
                                            ELSE Masters(outer.unit)[1].unit
    /\ outer' = [outer EXCEPT !.at = "delete"]
    /\ UNCHANGED <<src, files, job, done>>

DeleteRelatedFiles ==
    /\ outer # None /\ outer.at = "delete"
    /\ bin' = [bin EXCEPT ![outer.unit] = None]
    /\ cfg' = [cfg EXCEPT ![outer.unit] = None]
    /\ outer' = None
    /\ UNCHANGED <<src, nex, data, dest, trims, job, done, emu>>

Next ==
    \/ \E u \in Units : \/ Edit(u)
                        \/ \E lines \in HandWritten[u] : RunNexCreator(u, lines)
                        \/ BuildNext(u)
    \/ \E u \in Targets : \/ \E f \in {"", "s", "l", "t"} : RunNextBuild(u, f)
                          \/ \E f \in {"m", "s", "e"} : RunBuild(u, f)
    \/ \E u \in Targets \cap Modules : RunNextBuild(u, "m")
    \/ Origin \/ ParseDirectives \/ CompileFails \/ Compile
    \/ ParseNEXCfgModule \/ ParseNEXCfgMissing \/ ParseNEXCfg
    \/ SkipNEXFile \/ CreateNEXFails \/ CreateNEXFile
    \/ CopyToDestination \/ CopyToDestinationFails \/ AnythingToRun \/ Launch
    \/ BuildCopy \/ StartEmulator \/ DeleteRelatedFiles

Spec == Init /\ [][Next]_vars

-----------------------------------------------------------------------------
(* Type invariant.                                                         *)

Binaries == [unit : Units, ver : 1..MaxVersion, size : Nat \ {0}, org : Address]

Nexes == [flags : SUBSET (0..(Banks - 1)), blocks : Seq([0..(Bank - 1) -> {Blank} \cup Cells]),
          screens : SUBSET (Kinds \X ({Blank} \cup Names)),
          pc : Nat, sp : Nat \X Int, entry : Nat]

ASSUME NoneAssumption == None \notin Jobs \cup Outers \cup Binaries \cup Nexes

\* Sources, binaries and the two processes.
Typed ==
    /\ src \in [Units -> [prog : Program, ver : 1..MaxVersion]]
    /\ bin \in [Units -> Binaries \cup {None}]
    /\ data \in [Units -> Binaries \cup {None}]
    /\ job \in Jobs \cup {None}
    /\ outer \in Outers \cup {None}

\* What the two programs and the machine leave behind; a trimmed copy is one of
\* a part that is there.
FilesTyped ==
    /\ cfg \in [Units -> {None} \cup Seq(CfgLines)]
    /\ nex \in [Units -> {None} \cup Nexes]
    /\ dest \in {None} \cup Binaries \cup Nexes
    /\ \A t \in DOMAIN trims : t \in {"tr"} \X STRING /\ trims[t] \in Copies
    /\ done \in {None, -1, 0, 1} /\ emu \in Units \cup {None}

\* A NEX file has a block for every bank its header flags.
BlocksFlagged ==
    \A u \in Units : nex[u] # None => /\ nex[u].flags \subseteq 0..(Banks - 1)
                                      /\ Len(nex[u].blocks) = Cardinality(nex[u].flags)

\* The files, processes and records have the shape the scripts give them.
TypeOK == Typed /\ FilesTyped /\ BlocksFlagged

-----------------------------------------------------------------------------
(* What a folder has to keep to; the code relies on each.                  *)

\* A module says so, where it is read and before it sends the build to another file:
\* without it -m packs with the configuration of an earlier build.
MarkedModules ==
    \A u \in Modules : \A p \in Programs[u] :
      \E k \in DOMAIN p.head : /\ k <= HeadLines /\ p.head[k].op = "module"
                             /\ \A j \in 1..(k - 1) : p.head[j].op # "origin"

\* One trimmed copy of a stem at a time: all copies of the parts with this stem
\* have one name.
OneTrim ==
    \A u \in Units : \A p \in Programs[u] : \A j, k \in DOMAIN p.loads :
      LET a == p.loads[j]
          b == p.loads[k] IN
      (a.from > 0 /\ b.from > 0 /\ Trimmed(a.file) = Trimmed(b.file)) => Cut(a) = Cut(b)

\* A part that starts below page 16 stays in its 16K bank, as the system variables do.
StaysInBank ==
    /\ (7 * Page) \div 8 + Len(Parts[SysVars]) <= Bank
    /\ \A u \in Units : \A p \in Programs[u] : \A k \in DOMAIN p.loads :
         LET l == p.loads[k] IN
         (l.page < 16 /\ l.file \in DOMAIN Parts) =>
           (l.page % 2) * Page + (l.addr % Page) + Len(Parts[l.file]) - l.from <= Bank

\* No part goes on beyond the banks the header has flags for.
StaysInMachine ==
    \A u \in Units : \A p \in Programs[u] : \A k \in DOMAIN p.loads :
      LET l == p.loads[k] IN
      l.file \in DOMAIN Parts =>
        l.page * Page + (l.addr % Page) + Len(Parts[l.file]) - l.from <= Banks * Bank

\* '!slr reads its picture over those of '!scr and '!shr and keeps it nowhere else: a
\* configuration packed by hand names none that is there.
NoLowRes ==
    \A u \in Units : \A lines \in HandWritten[u] : \A k \in DOMAIN lines :
      lines[k].op = "slr" => lines[k].file \in Part \ DOMAIN Parts

FolderRules == MarkedModules /\ OneTrim /\ StaysInBank /\ StaysInMachine

-----------------------------------------------------------------------------
(* Properties.                                                             *)

Wrote == job # None /\ job.wrote

Current(u) == [unit |-> u, ver |-> src[u].ver, size |-> src[u].prog.size,
               org |-> job.set.org]

\* The program lies in the RAM the processor has at 16384 and up, and is compiled to
\* a binary: with '!asm and '!nextzxos the binary of an earlier build is packed.
InRam == /\ job.set.org >= 2 * Page
         /\ job.set.org + src[job.input].prog.size <= 8 * Page
         /\ ~job.set.asm

\* The first cell of the program the running job compiles.
FirstCell == <<job.input, src[job.input].ver, 1>>

\* A NEX file just written loads to what the source asks for: the program
\* compiled from this version at the address it was assembled for, every part
\* where LoadSDBank would have put it, the system variables below, and an
\* entry point in the program (directives, '!origin, the configuration, the
\* order of banks and their crossing, all in one).
ImageAsPromised ==
    (Wrote /\ InRam) =>
      LET n == nex[job.unit]
          m == Promised(job.set, Current(job.input), src[job.input].prog.loads)
      IN /\ \A at \in DOMAIN m : InPage(n, at[1], at[2]) = m[at]
         /\ n.pc \in {0, job.set.org}
         /\ n.pc >= 2 * Page => Seen(n, n.pc) = FirstCell

\* Every picture a configuration names is the one in the file, under the kind
\* it was loaded as, and pictures of different kinds do not meet.
ScreensKept ==
    \A lines \in UNION {HandWritten[u] : u \in Units} :
      LET n == ParseFile(lines, OnDisk)
      IN ~n.broken =>
           \A k \in DOMAIN lines :
             (/\ lines[k].op \in {"bmp", "scr", "slr", "shr", "shc"}
              /\ \A j \in (k + 1)..Len(lines) : lines[j].op # lines[k].op
              /\ lines[k].file \in DOMAIN Parts)
             => <<lines[k].op, lines[k].file>> \in GenerateFile(n).screens

CleanExit == job # None /\ job' = None /\ done' = 0
ModuleDelivered == /\ data[job.unit] # None
                   /\ data[job.unit].ver = src[job.input].ver

\* A nextbuild.py that ends with 0 has done what it was asked for with the
\* source as it is: a NEX file with its program, or for -m a module in data/.
CleanExitMeansBuilt ==
    [][CleanExit =>
         /\ (job.flag \in {"", "s"} /\ ~job.set.noNex /\ job.set.org >= 2 * Page)
              => nex[job.unit] # None /\ Seen(nex[job.unit], job.set.org) = FirstCell
         /\ job.flag = "m" => ModuleDelivered]_vars

\* What a build can deliver: a source that compiles, under its own name, to a
\* binary; '!asm asks for a listing instead.
Buildable(u) == /\ src[u].prog.ok
                /\ \A k \in DOMAIN Heading(u) : Heading(u)[k].op \notin {"origin", "asm"}

InData(u) == data[u] # None /\ data[u].ver = src[u].ver

\* When build.py -m is through, every module that can be built is in data/ as
\* its source is now, whichever of the other modules failed.
ModulesUpToDate ==
    [][(outer # None /\ outer' = None /\ outer.flag = "m") =>
         \A u \in Modules : Buildable(u) => InData(u)]_vars

\* nextbuild.py -s asks for one file to be built and run: the emulator then
\* gets the NEX file of this build, unless no NEX was to be made.
EmulatorRunsThisBuild ==
    [][(At("run") /\ emu' # None /\ job.flag = "s" /\ ~job.set.noNex
        /\ job.set.org >= 2 * Page)
         => nex[emu'] # None /\ Seen(nex[emu'], job.set.org) = FirstCell]_vars
=============================================================================
