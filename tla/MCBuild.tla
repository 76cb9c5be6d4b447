------------------------------- MODULE MCBuild -------------------------------
(***************************************************************************)
(* Instance of Build for TLC: pages of two cells (4K each), a main         *)
(* program, a second source it may redirect to and one module.             *)
(***************************************************************************)
EXTENDS Build

Org(a) == [op |-> "org", at |-> a]
Do(o) == [op |-> o]
Prog(head, loads, ok, size) == [head |-> head, loads |-> loads, ok |-> ok, size |-> size]
Load(file, addr, from, page) ==
    [file |-> file, addr |-> addr, from |-> from, page |-> page]

\* The map of the level fills two pages and a half, its tiles one and a half;
\* they have one stem.
Map == <<"part", "level", ".map">>
Tiles == <<"part", "level", ".til">>
Logo == <<"part", "logo", ".bmp">>
Title == <<"part", "title", ".scr">>
Lost == <<"part", "lost", ".bin">>

MCParts == [p \in {SysVars, Map, Tiles, Logo, Title} |->
              [n \in 1..(CASE p = Map -> 5 [] p = Tiles -> 3 [] OTHER -> 1) |-> <<p[3], n>>]]

MapAt16   == Load(Map, 0, 0, 17)
TilesLow  == Load(Tiles, 1, 1, 0)
TilesOver == Load(Tiles, 0, 0, 18)

MainPrograms ==
    {Prog(<<[op |-> "master", unit |-> "Other"], [op |-> "copy", kind |-> "nex"], Do("autostart")>>,
          <<MapAt16, TilesOver>>, TRUE, 3),
     Prog(<<Org(7), Do("nosys"), [op |-> "bmp", file |-> Logo]>>, <<TilesLow>>, TRUE, 6),
     Prog(<<Org(12), [op |-> "pc", at |-> 0], [op |-> "copy", kind |-> "nex"], Do("noemu")>>,
          <<>>, TRUE, 3),
     Prog(<<Do("nonex"), [op |-> "copy", kind |-> "bin"]>>, <<>>, TRUE, 2),
     Prog(<<Do("nextzxos"), Do("autostart")>>, <<Load(Lost, 0, 0, 20)>>, TRUE, 2),
     Prog(<<Do("nextzxos"), Do("bin"), Do("headerless")>>, <<>>, TRUE, 2),
     Prog(<<Do("asm"), Do("noemu")>>, <<>>, TRUE, 2),
     Prog(<<Do("nosys"), [op |-> "origin", unit |-> "Other"], Do("asm")>>, <<>>, TRUE, 2),
     Prog(<<[op |-> "bmp", file |-> Lost]>>, <<>>, TRUE, 2),
     Prog(<<>>, <<>>, FALSE, 2)}

OtherPrograms == {Prog(<<Org(6)>>, <<Load(Map, 0, 1, 22)>>, TRUE, 3)}

ModulePrograms ==
    {Prog(<<Do("module"), Org(8)>>, <<>>, TRUE, 2),
     Prog(<<Do("module"), Do("asm")>>, <<>>, TRUE, 2),
     Prog(<<Do("module")>>, <<>>, FALSE, 2)}

MCPrograms == [u \in {"Main", "Other", "Module1", "Module2"} |->
                 CASE u = "Main" -> MainPrograms [] u = "Other" -> OtherPrograms
                   [] OTHER -> ModulePrograms]

Pic(o, p) == [op |-> o, file |-> p]
MCHandWritten == [u \in {"Main", "Other", "Module1", "Module2"} |->
    IF u # "Other" THEN {} ELSE
    {<<Pic("scr", Title), Pic("shc", Logo), [op |-> "bank", bank |-> 3],
       [op |-> "file", file |-> Tiles, bank |-> 7, addr |-> 2],
       [op |-> "more", file |-> Map], Pic("shr", Map),
       Pic("bmp", Tiles), Pic("slr", Lost)>>,
     <<Pic("shc", Lost), Pic("slr", Lost)>>}]

ASSUME Rules == FolderRules /\ NoLowRes
=============================================================================
