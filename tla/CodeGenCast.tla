---------------------------- MODULE CodeGenCast ----------------------------
(***************************************************************************)
(* The conversions between the types of numbers, _cast of                  *)
(* backend/generic.py: the operand in the registers of its type, what      *)
(* common.py adds for the type it becomes, and the push of that type.      *)
(* A type is "8", "16", "32" or "f16"; signed is about the first.          *)
(***************************************************************************)
EXTENDS CodeGenF16

LoadAs(type, o) == CASE type = "8"   -> Oper(o)
                     [] type = "16"  -> LoadHL(o)
                     [] type = "32"  -> LoadDEHL(o)
                     [] type = "f16" -> LoadFixed(o)

ToByte(type) == CASE type = "8" -> <<>>
                  [] type \in {"16", "32"} -> <<N("ld", "a", "l")>>
                  [] type = "f16" -> <<N("ld", "a", "e")>>

\* All ones if A is negative, else 0.
SignOfA == <<R("add", "a")>> \o SbcA

ToWord(type, signed) ==
    CASE type = "8" /\ ~signed -> <<N("ld", "l", "a"), N("ldn", "h", 0)>>
      [] type = "8" /\ signed  -> <<N("ld", "l", "a")>> \o SignOfA \o <<N("ld", "h", "a")>>
      [] type = "f16" -> <<Ins("exdehl")>>
      [] type \in {"16", "32"} -> <<>>

SignOfH == <<N("ld", "a", "h")>> \o SignOfA \o <<N("ld", "e", "a"), N("ld", "d", "a")>>
ToLong(type, signed) ==
    CASE type = "8" -> ToWord(type, signed) \o <<N("ld", "e", "h"), N("ld", "d", "h")>>
      [] type = "f16" -> ToWord(type, signed) \o SignOfH
      [] type = "16" /\ signed  -> SignOfH
      [] type = "16" /\ ~signed -> LoadN("de", 0)
      [] type = "32" -> <<>>

ToFixed(type, signed) ==
    IF type = "f16" THEN <<>>
    ELSE ToWord(type, signed) \o <<Ins("exdehl")>> \o LoadN("hl", 0)

Cast(type, signed, to, x) ==
    CASE to = "8"   -> PushAF(LoadAs(type, x) \o ToByte(type))
      [] to = "16"  -> PushHL(LoadAs(type, x) \o ToWord(type, signed))
      [] to = "32"  -> PushDEHL(LoadAs(type, x) \o ToLong(type, signed))
      [] to = "f16" -> PushDEHL(LoadAs(type, x) \o ToFixed(type, signed))
=============================================================================
