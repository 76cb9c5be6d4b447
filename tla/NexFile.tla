------------------------------- MODULE NexFile -------------------------------
(***************************************************************************)
(* nextcreator.py: packing files into a NEX file.  A configuration is a    *)
(* sequence of lines; every line acts on the header and on one flat image  *)
(* in which the 16K banks lie in the order a NEX file has them.  Memory is *)
(* counted in cells, Page of them to an 8K page, and a file is a sequence  *)
(* of cells.  Header fields that no line of this repository's              *)
(* configurations depends on (colours, delays, core version) are left out, *)
(* and so are snapshots.                                                   *)
(***************************************************************************)
EXTENDS Integers, Sequences, FiniteSets, TLC, SequencesExt

CONSTANTS
    Page,     \* cells in an 8K page
    Banks     \* banks the header has a flag for: 112

ASSUME PageAssumption == Page \in Nat \ {0}
ASSUME BanksAssumption == Banks \in Nat /\ Banks >= 8

Bank == 2 * Page
Blank == <<>>                 \* a cell nothing was loaded to

Kinds == {"bmp", "scr", "slr", "shr", "shc"}    \* of loading screens

\* f laid over g, and one value put into g.
Over(f, g) == [x \in DOMAIN f \cup DOMAIN g |-> IF x \in DOMAIN f THEN f[x] ELSE g[x]]
Store(g, x, v) == Over([y \in {x} |-> v], g)

\* The members of a sequence that are in S, in their order.
Keep(seq, S) ==
    LET kept[k \in 0..Len(seq)] ==
          IF k = 0 THEN <<>>
          ELSE IF seq[k] \in S THEN Append(kept[k - 1], seq[k]) ELSE kept[k - 1]
    IN kept[Len(seq)]

-----------------------------------------------------------------------------
(* The order of the banks in the image.  The tables are those of the code. *)

RealBank(b) == IF b > 7 THEN b ELSE <<2, 3, 1, 4, 5, 0, 6, 7>>[b + 1]
BankOrder(i) == IF i > 7 THEN i ELSE <<5, 2, 0, 1, 3, 4, 6, 7>>[i + 1]
\* A slip of NextBank: the banks follow one another by number.
NextBankByNumber(b) == b + 1

NextBank(b) == IF b > 7 THEN b + 1 ELSE <<1, 3, 0, 4, 6, 2, 7, 8>>[b + 1]

Fresh == [bank |-> 0, addr |-> 0, big |-> <<>>, flags |-> {}, shots |-> <<>>,
          screens |-> {}, pc |-> 0, sp |-> <<0, 0>>, entry |-> 0, broken |-> FALSE]

\* The next 16K window, and the bank that follows in a NEX file.
Advance(n) == [n EXCEPT !.addr = ((@ \div Bank + 1) % 4) * Bank,
                        !.bank = NextBank(@)]

\* One cell of a file into the image, in the bank and at the address reached.
PutCell(n, c) ==
    LET offset == RealBank(n.bank) * Bank + (n.addr % Bank)
        put == [n EXCEPT !.big = Store(@, offset, c),
                         !.flags = @ \cup ({n.bank} \cap 0..(Banks - 1)),
                         !.addr = @ + 1]
    IN IF put.addr % Bank = 0 THEN Advance([put EXCEPT !.addr = @ - 1])
                              ELSE put

\* A file that cannot be opened ends the program with an exception.
AddFile(n, name, files) ==
    IF name \notin DOMAIN files THEN [n EXCEPT !.broken = TRUE]
    ELSE LET put == FoldLeft(PutCell, n, files[name])
         IN IF put.addr % Bank = 0 \/ files[name] = <<>> THEN put
                                                        ELSE Advance(put)

\* The 8K pages of the !MMU lines: the odd page is the upper half of a bank.
LoadMMU(n, line, files) ==
    AddFile([n EXCEPT !.bank = line.page \div 2,
                      !.addr = line.addr + (line.page % 2) * Page],
            line.file, files)

-----------------------------------------------------------------------------
(* Loading screens.  Each kind has a buffer; !SLR fills those of !SCR and  *)
(* of the high resolution screen and not its own, as the code does.        *)

Shot(n, kind, buffer, name, files) ==
    IF name \in DOMAIN files
      THEN [n EXCEPT !.shots = Store(@, buffer, name), !.screens = @ \cup {kind}]
      ELSE n

LoadBmp(n, name, files) ==
    IF name \in DOMAIN files THEN Shot(n, "bmp", "bmp", name, files)
                             ELSE [n EXCEPT !.broken = TRUE]
\* A slip of LoadScr: the picture goes to the buffer of another kind.
LoadScrOther(n, name, files) == Shot(n, "scr", "shc", name, files)

LoadScr(n, name, files) == Shot(n, "scr", "scr", name, files)
LoadSlr(n, name, files) == Shot(Shot(n, "slr", "scr", name, files), "slr", "shr", name, files)
LoadShr(n, name, files) ==
    [Shot(n, "shr", "shr", name, files) EXCEPT !.screens = @ \cup {"shr"}]
LoadShc(n, name, files) == Shot(n, "shc", "shc", name, files)

SetEntryBank(n, b) == [n EXCEPT !.entry = b]
SetPCSP(n, line) == [n EXCEPT !.pc = line.pc, !.sp = line.sp]

ParseLine(n, line, files) ==
    IF n.broken THEN n
    ELSE CASE line.op = "file" -> AddFile([n EXCEPT !.bank = line.bank,
                                                    !.addr = line.addr],
                                          line.file, files)
           [] line.op = "more" -> AddFile(n, line.file, files)
           [] line.op = "mmu"  -> LoadMMU(n, line, files)
           [] line.op = "pcsp" -> SetPCSP(n, line)
           [] line.op = "bank" -> SetEntryBank(n, line.bank)
           [] line.op = "bmp"  -> LoadBmp(n, line.file, files)
           [] line.op = "scr"  -> LoadScr(n, line.file, files)
           [] line.op = "slr"  -> LoadSlr(n, line.file, files)
           [] line.op = "shr"  -> LoadShr(n, line.file, files)
           [] line.op = "shc"  -> LoadShc(n, line.file, files)

ParseFile(cfg, files) ==
    FoldLeft(LAMBDA n, line : ParseLine(n, line, files), Fresh, cfg)

-----------------------------------------------------------------------------
(* The file written: header, screens and the 16K blocks of flagged banks.  *)

Block(n, i) ==
    [c \in 0..(Bank - 1) |-> LET at == i * Bank + c
                             IN IF at \in DOMAIN n.big THEN n.big[at] ELSE Blank]

\* No file is written when no line has put a cell or a screen.
Nothing(n) == DOMAIN n.big = {} /\ n.screens = {}

GenerateFile(n) ==
    LET kept == Keep([k \in 1..Banks |-> k - 1],
                     {i \in 0..(Banks - 1) : BankOrder(i) \in n.flags})
    IN [flags   |-> n.flags,
        blocks  |-> [k \in DOMAIN kept |-> Block(n, kept[k])],
        screens |-> {<<kind, IF kind \in DOMAIN n.shots THEN n.shots[kind] ELSE Blank>> :
                       kind \in n.screens},
        pc |-> n.pc, sp |-> n.sp, entry |-> n.entry]

-----------------------------------------------------------------------------
(* The machine that loads the file (external): flagged banks are filled in *)
(* the order 5, 2, 0, 1, 3, 4, 6, 7, 8 and up, and the program starts with *)
(* banks 5, 2 and 0 at 16384, 32768 and 49152.                             *)

LoadOrder == <<5, 2, 0, 1, 3, 4, 6, 7>> \o [k \in 1..(Banks - 8) |-> k + 7]

Loaded(nex) ==
    LET fill == Keep(LoadOrder, nex.flags)
    IN [b \in nex.flags |->
          LET k == CHOOSE k \in DOMAIN fill : fill[k] = b
          IN IF k <= Len(nex.blocks) THEN nex.blocks[k] ELSE Blank]

\* What the machine has in a cell of an 8K page.
InPage(nex, page, c) ==
    LET bank == page \div 2
    IN IF bank \in nex.flags THEN Loaded(nex)[bank][(page % 2) * Page + c] ELSE Blank

\* What the processor sees at an address from 16384 up.
Seen(nex, a) ==
    InPage(nex, 2 * <<5, 2, 0>>[a \div Bank] + (a % Bank) \div Page, a % Page)
=============================================================================
