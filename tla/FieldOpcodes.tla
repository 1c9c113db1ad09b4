---------------------------- MODULE FieldOpcodes ----------------------------
(***************************************************************************)
(* The instructions of field scripts as FF7Disassembler decodes them       *)
(* (decompiler/ff7_field/ff7_field_disassembler.cpp): for every mnemonic   *)
(* the format of its parameters.  An opcode is its mnemonic: the numbers   *)
(* of eOpcodes are left out, as two equal ones do not compile.             *)
(***************************************************************************)
EXTENDS SimpleDisassembler

FlowFormats ==
  Each({"RET", "NOP"}, <<>>)
  ++ Each({"REQ", "REQSW", "REQEW", "PREQ", "PRQSW", "PRQEW"}, <<"B", "U">>)
  ++ Each({"RETTO"}, <<"U">>)
  ++ Each({"JMPF", "JMPB"}, <<"B">>)
  ++ Each({"JMPFL", "JMPBL", "WAIT"}, <<"w">>)
  ++ Each({"IFUB"}, <<"N", "B", "B", "B", "B">>)
  ++ Each({"IFUBL"}, <<"N", "B", "B", "B", "w">>)
  ++ Each({"IFSW", "IFUW"}, <<"N", "w", "w", "B", "B">>)
  ++ Each({"IFSWL", "IFUWL"}, <<"N", "w", "w", "B", "w">>)
  ++ Each({"IFKEY", "IFKEYON", "IFKEYOFF"}, <<"w", "B">>)
  ++ Each({"IFPRTYQ", "IFMEMBQ"}, <<"B", "B">>)

\* ARROW to CLITM are sub-opcodes of SPECIAL.
SpecialOpcodes == {"ARROW", "PNAME", "GMSPD", "SMSPD", "FLMAT", "FLITM",
                   "BTLCK", "MVLCK", "SPCNM", "RSGLB", "CLITM"}
ModuleFormats ==
  Each({"DSKCG", "ARROW", "PNAME", "GMSPD", "BTLCK", "MVLCK", "BTLTB", "BTLON",
        "MPJPO"}, <<"B">>)
  ++ Each({"SMSPD", "SPCNM"}, <<"B", "B">>)
  ++ Each({"FLMAT", "FLITM", "RSGLB", "CLITM", "PMJMP2", "GAMEOVER"}, <<>>)
  ++ Each({"MINIGAME"}, <<"w", "s", "s", "w", "B", "B">>)
  ++ Each({"BTMD2"}, <<"d">>)
  ++ Each({"BTRLD", "LSTMP"}, <<"N", "B">>)
  ++ Each({"MAPJUMP"}, <<"w", "s", "s", "w", "B">>)
  ++ Each({"BATTLE"}, <<"N", "w">>)
  ++ Each({"BTLMD", "PMJMP"}, <<"w">>)

MathFormats ==
  Each({"PLUS!", "MINUS!", "SETBYTE", "BITON", "BITOFF", "BITXOR", "PLUS", "MINUS",
        "MUL", "DIV", "MOD", "AND", "OR", "XOR", "LBYTE"}, <<"N", "B", "B">>)
  ++ Each({"PLUS2!", "MINUS2!", "SETWORD", "PLUS2", "MINUS2", "MUL2", "DIV2", "MOD2",
           "AND2", "OR2", "XOR2", "HBYTE"}, <<"N", "B", "w">>)
  ++ Each({"INC!", "INC2!", "DEC!", "DEC2!", "INC", "INC2", "DEC", "DEC2", "RANDOM"},
          <<"B", "B">>)
  ++ Each({"RDMSD"}, <<"N", "B">>)
  ++ Each({"2BYTE"}, <<"N", "N", "B", "B", "B">>)
  ++ Each({"SIN", "COS"}, <<"N", "N", "w", "w", "w", "B">>)

WindowFormats ==
  Each({"TUTOR", "WCLS", "MPNAM", "MENU2", "WREST", "WCLSE"}, <<"B">>)
  ++ Each({"WSIZW", "WINDOW"}, <<"B", "w", "w", "w", "w">>)
  ++ Each({"WSPCL"}, <<"B", "B", "B", "B">>)
  ++ Each({"WNUMB"}, <<"N", "B", "w", "w", "B">>)
  ++ Each({"STTIM"}, <<"N", "N", "B", "B", "B">>)
  ++ Each({"MESSAGE", "WROW"}, <<"B", "B">>)
  ++ Each({"MPARA"}, <<"N", "B", "B", "B">>)
  ++ Each({"MPRA2"}, <<"N", "B", "B", "w">>)
  ++ Each({"ASK"}, <<"N", "B", "B", "B", "B", "B">>)
  ++ Each({"MENU"}, <<"N", "B", "B">>)
  ++ Each({"WMOVE"}, <<"B", "s", "s">>)
  ++ Each({"WMODE"}, <<"B", "B", "B">>)
  ++ Each({"GWCOL", "SWCOL"}, <<"N", "N", "B", "B", "B", "B">>)

PartyFormats ==
  Each({"SPTYE", "GTPYE"}, <<"N", "N", "B", "B", "B">>)
  ++ Each({"GOLDU", "GOLDD"}, <<"N", "w", "w">>)
  ++ Each({"CHGLD", "GETPC"}, <<"N", "B", "B">>)
  ++ Each({"HMPMAX1", "HMPMAX2", "MHMMX", "HMPMAX3"}, <<>>)
  ++ Each({"MPU", "MPD", "HPU", "HPD"}, <<"N", "B", "w">>)
  ++ Each({"STITM", "DLITM", "CKITM"}, <<"N", "w", "B">>)
  ++ Each({"SMTRA"}, <<"N", "N", "B", "B", "B", "B">>)
  ++ Each({"DMTRA"}, <<"N", "N", "B", "B", "B", "B", "B">>)
  ++ Each({"CMTRA"}, <<"N", "N", "N", "B", "B", "B", "B", "B", "B">>)
  ++ Each({"PRTYP", "PRTYM", "MMBLK", "MMBUK"}, <<"B">>)
  ++ Each({"PRTYE"}, <<"B", "B", "B">>)
  ++ Each({"MMBUD"}, <<"B", "B">>)

\* The sub-opcodes of KAWAI: the length byte counts the opcode, itself and the
\* sub-opcode, the rest are bytes.  assert(length >= 3).
KawaiOpcodes == {"EYETX", "TRNSP", "AMBNT", "Unknown03", "Unknown04", "Unknown05",
                 "LIGHT", "Unknown07", "Unknown08", "Unknown09", "SBOBJ", "Unknown0B",
                 "Unknown0C", "SHINE", "RESET"}
KawaiFormat(length) == [i \in 1 .. length - 3 |-> "B"]

ModelFormats ==
  Each({"JOIN", "BLINK", "PMOVA", "PDIRA", "TLKON", "PC", "CHAR", "VISI", "MOVA",
        "DIRA", "CC", "SOLID", "FCFIX"}, <<"B">>)
  ++ Each({"SPLIT"}, <<"N", "N", "N", "s", "s", "B", "s", "s", "B", "B">>)
  ++ Each({"KAWIW", "ANIMW", "OFSTW", "ANIMB", "TURNW"}, <<>>)
  ++ Each({"PTURA", "TURA", "CCANM"}, <<"B", "B", "B">>)
  ++ Each({"PGTDR", "GETDIR", "GETAI"}, <<"N", "B", "B">>)
  ++ Each({"PXYZI", "AXYZI"}, <<"N", "N", "B", "B", "B", "B", "B">>)
  ++ Each({"DFANM", "ANIME1", "ANIME2", "ANIM!1", "DIR", "ANIM!2"}, <<"B", "B">>)
  ++ Each({"XYZI"}, <<"N", "N", "s", "s", "s", "w">>)
  ++ Each({"XYI"}, <<"N", "N", "s", "s", "w">>)
  ++ Each({"XYZ"}, <<"N", "N", "s", "s", "s">>)
  ++ Each({"MOVE", "CMOVE", "FMOVE"}, <<"N", "s", "s">>)
  ++ Each({"CANIM1", "CANM!1", "CANIM2", "CANM!2"}, <<"B", "B", "B", "B">>)
  ++ Each({"MSPED", "ASPED", "TLKR2", "SLDR2"}, <<"N", "w">>)
  ++ Each({"TURNGEN", "TURN"}, <<"N", "B", "B", "B", "B">>)
  ++ Each({"GETAXY"}, <<"N", "B", "B", "B">>)
  ++ Each({"JUMP"}, <<"N", "N", "s", "s", "w", "w">>)
  ++ Each({"LADER"}, <<"N", "N", "s", "s", "s", "w", "B", "B", "B", "B">>)
  ++ Each({"OFST"}, <<"N", "N", "B", "s", "s", "s", "w">>)
  ++ Each({"TALKR", "SLIDR"}, <<"N", "B">>)

WalkmeshFormats ==
  Each({"SLIP", "UC", "LINON"}, <<"B">>)
  ++ Each({"IDLCK"}, <<"w", "B">>)
  ++ Each({"LINE"}, <<"s", "s", "s", "s", "s", "s">>)
  ++ Each({"SLINE"}, <<"N", "N", "N", "s", "s", "s", "s", "s", "s">>)

BackgroundFormats ==
  Each({"BGPDH"}, <<"N", "B", "s">>)
  ++ Each({"BGSCR"}, <<"N", "B", "s", "s">>)
  ++ Each({"MPPAL"}, <<"N", "N", "N", "B", "B", "B", "B", "B", "B", "B">>)
  ++ Each({"BGON", "BGOFF"}, <<"N", "B", "B">>)
  ++ Each({"BGROL", "BGROL2", "BGCLR"}, <<"N", "B">>)
  ++ Each({"STPAL", "LDPAL", "CPPAL"}, <<"N", "B", "B", "B">>)
  ++ Each({"RTPAL"}, <<"N", "N", "B", "B", "B", "B">>)
  ++ Each({"ADPAL", "MPPAL2"}, <<"N", "N", "N", "B", "B", "B", "B", "B", "B">>)
  ++ Each({"STPLS", "LDPLS"}, <<"B", "B", "B", "B">>)
  ++ Each({"CPPAL2", "RTPAL2"}, <<"B", "B", "B", "B", "B", "B", "B">>)
  ++ Each({"ADPAL2"}, <<"B", "B", "B", "B", "B", "B", "B", "B", "B", "B">>)

CameraFormats ==
  Each({"NFADE", "FADE"}, <<"N", "N", "B", "B", "B", "B", "B", "B">>)
  ++ Each({"SHAKE"}, <<"B", "B", "B", "B", "B", "B", "B">>)
  ++ Each({"SCRLO", "MVCAM"}, <<"B">>)
  ++ Each({"SCRLC"}, <<"B", "B", "B", "B">>)
  ++ Each({"SCRLA", "SCRLP"}, <<"N", "w", "B", "B">>)
  ++ Each({"SCR2D"}, <<"N", "s", "s">>)
  ++ Each({"SCRCC", "SCRLW", "FADEW"}, <<>>)
  ++ Each({"SCR2DC", "SCR2DL"}, <<"N", "N", "s", "s", "w">>)
  ++ Each({"VWOFT"}, <<"N", "s", "s", "B">>)

AudioVideoFormats ==
  Each({"BGMOVIE", "MUSIC", "MUSVT", "MUSVM", "MULCK", "BMUSC", "PMVIE", "FMUSC"},
       <<"B">>)
  ++ Each({"AKAO2"}, <<"N", "N", "N", "B", "w", "w", "w", "w", "w">>)
  ++ Each({"SOUND"}, <<"N", "w", "B">>)
  ++ Each({"AKAO"}, <<"N", "N", "N", "B", "B", "w", "w", "w", "w">>)
  ++ Each({"CHMPH"}, <<"B", "B", "B">>)
  ++ Each({"MOVIE"}, <<>>)
  ++ Each({"MVIEF", "CHMST"}, <<"N", "B">>)
  ++ Each({"CMUSC"}, <<"B", "B", "B", "B", "B", "B", "B">>)

UncategorizedFormats ==
  Each({"MPDSP"}, <<"B">>)
  ++ Each({"SETX", "GETX"}, <<"B", "B", "B", "B", "B", "B">>)
  ++ Each({"SEARCHX"}, <<"B", "B", "B", "B", "B", "B", "B", "B", "B", "B">>)
-----------------------------------------------------------------------------
FlowOpcodes == DOMAIN FlowFormats
CondJumpOpcodes == {"IFUB", "IFUBL", "IFSW", "IFSWL", "IFUW", "IFUWL", "IFKEY",
                    "IFKEYON", "IFKEYOFF", "IFPRTYQ", "IFMEMBQ"}
UncondJumpOpcodes == {"JMPF", "JMPFL", "JMPB", "JMPBL"}

FieldFormats ==
  FlowFormats ++ ModuleFormats ++ MathFormats ++ WindowFormats ++ PartyFormats
  ++ ModelFormats ++ WalkmeshFormats ++ BackgroundFormats ++ CameraFormats
  ++ AudioVideoFormats ++ UncategorizedFormats

FormatOf(op, length) == IF op \in KawaiOpcodes THEN KawaiFormat(length) ELSE FieldFormats[op]

\* The bytes of an instruction: the opcode, the sub-opcode of SPECIAL and KAWAI,
\* the length byte of KAWAI, and the parameters.
InstBytes(op, length) ==
  1 + (IF op \in SpecialOpcodes THEN 1 ELSE IF op \in KawaiOpcodes THEN 2 ELSE 0)
    + FormatBytes(FormatOf(op, length))
=============================================================================
