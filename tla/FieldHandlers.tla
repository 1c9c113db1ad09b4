---------------------------- MODULE FieldHandlers ---------------------------
(***************************************************************************)
(* What the instructions of field scripts print (processInst and its       *)
(* handlers in decompiler/ff7_field/ff7_field_engine.cpp).  ...Cases give  *)
(* the handler a class of instructions switches to on the opcode, "todo"   *)
(* for WriteTodo, which prints the name only; an opcode without a case is  *)
(* printed as not implemented.  ...Reads give the parameters a handler     *)
(* prints: by themselves, or as a value or variable whose bank is another  *)
(* parameter (FormatValueOrVariable).  The wording of the lines is left    *)
(* out, and so are the values: of a handler that prints less for some      *)
(* values, the table has all it may read.  Parameters count from 0.        *)
(***************************************************************************)
EXTENDS FieldOpcodes

NoBank == -1
Plain(i) == [bank |-> NoBank, at |-> i]
Banked(b, i) == [bank |-> b, at |-> i]
Plains(n) == [i \in 1 .. n |-> Plain(i - 1)]

\* The banks of the two values the other way round.
BanksSwapped(op) ==
  IF op \in {"IFKEYON", "IFKEYOFF", "IFKEY", "IFMEMBQ", "IFPRTYQ"} THEN <<Plain(0)>>
  ELSE <<Plain(4), Banked(1, 2), Banked(0, 3)>>

\* FF7CondJumpInstruction::processInst: the tests of keys and party print their
\* first parameter, the others compare two values by the operator in the fifth.
ConditionReads(op) ==
  IF op \in {"IFKEYON", "IFKEYOFF", "IFKEY", "IFMEMBQ", "IFPRTYQ"} THEN <<Plain(0)>>
  ELSE <<Plain(4), Banked(0, 2), Banked(1, 3)>>

\* Comparisons 0 to 10 are known, another throws UnknownConditionalOperatorException.
KnownComparisons == 0 .. 10

ControlFlowCases ==
  Each({"RET"}, "return")
  ++ Each({"REQ"}, "processREQ") ++ Each({"REQSW"}, "processREQSW")
  ++ Each({"REQEW"}, "processREQEW") ++ Each({"RETTO"}, "processRETTO")
  ++ Each({"WAIT"}, "processWAIT")
  ++ Each({"PREQ", "PRQSW", "PRQEW"}, "todo")
\* Entity, function, priority.
ControlFlowReads ==
  Each({"return"}, <<>>)
  ++ Each({"processREQ", "processREQSW", "processREQEW"}, <<Plain(0), Plain(2), Plain(1)>>)
  ++ Each({"processRETTO"}, <<Plain(0), Plain(1)>>)
  ++ Each({"processWAIT"}, <<Plain(0)>>)

ModuleCases ==
  Each({"ARROW", "BTLCK", "MVLCK", "MPJPO"}, "switch")
  ++ Each({"FLMAT", "RSGLB", "PMJMP", "PMJMP2"}, "line")
  ++ Each({"MAPJUMP"}, "processMAPJUMP") ++ Each({"BATTLE"}, "processBATTLE")
  ++ Each({"BTLON"}, "processBTLON")
  ++ Each({"DSKCG", "PNAME", "GMSPD", "SMSPD", "FLITM", "SPCNM", "CLITM", "MINIGAME",
           "BTMD2", "BTRLD", "BTLTB", "LSTMP", "BTLMD", "GAMEOVER"}, "todo")
ModuleReads ==
  Each({"switch", "processBTLON"}, <<Plain(0)>>)
  ++ Each({"line"}, <<>>)
  ++ Each({"processBATTLE"}, <<Banked(0, 1)>>)
  ++ Each({"processMAPJUMP"}, Plains(5))

MathCases ==
  Each({"PLUS!"}, "processSaturatedPLUS") ++ Each({"PLUS2!"}, "processSaturatedPLUS2")
  ++ Each({"MINUS!"}, "processSaturatedMINUS")
  ++ Each({"MINUS2!"}, "processSaturatedMINUS2")
  ++ Each({"INC!"}, "processSaturatedINC") ++ Each({"INC2!"}, "processSaturatedINC2")
  ++ Each({"DEC!"}, "processSaturatedDEC") ++ Each({"DEC2!"}, "processSaturatedDEC2")
  ++ Each({"RDMSD"}, "processRDMSD")
  ++ Each({"SETBYTE", "SETWORD"}, "processSETBYTE_SETWORD")
  ++ Each({"BITON"}, "processBITON")
  ++ Each({"PLUS", "PLUS2", "MINUS", "MINUS2"}, "processPLUSx_MINUSx")
  ++ Each({"MOD"}, "modulo")
  ++ Each({"INC", "INC2", "DEC", "DEC2"}, "processINCx_DECx")
  ++ Each({"RANDOM"}, "processRANDOM")
  ++ Each({"BITOFF", "BITXOR", "MUL", "MUL2", "DIV", "DIV2", "MOD2", "AND", "AND2",
           "OR", "OR2", "XOR", "XOR2", "LBYTE", "HBYTE", "2BYTE", "SIN", "COS"}, "todo")
MathReads ==
  Each({"processSaturatedPLUS", "processSaturatedPLUS2", "processSaturatedMINUS",
        "processSaturatedMINUS2", "processSETBYTE_SETWORD", "processBITON",
        "processPLUSx_MINUSx", "modulo"}, <<Banked(0, 2), Banked(1, 3)>>)
  ++ Each({"processSaturatedINC", "processSaturatedINC2", "processSaturatedDEC",
           "processSaturatedDEC2", "processINCx_DECx", "processRANDOM"},
          <<Banked(0, 1)>>)
  ++ Each({"processRDMSD"}, <<>>)

WindowCases ==
  Each({"MESSAGE"}, "processMESSAGE") ++ Each({"MPNAM"}, "processMPNAM")
  ++ Each({"MENU2"}, "processMENU2") ++ Each({"WINDOW"}, "processWINDOW")
  ++ Each({"WCLSE"}, "processWCLSE")
  ++ Each({"TUTOR", "WCLS", "WSIZW", "WSPCL", "WNUMB", "STTIM", "MPARA", "MPRA2", "ASK",
           "MENU", "WMOVE", "WMODE", "WREST", "WROW", "GWCOL", "SWCOL"}, "todo")
WindowReads ==
  Each({"processMESSAGE"}, Plains(2)) ++ Each({"processWINDOW"}, Plains(5))
  ++ Each({"processMPNAM", "processMENU2", "processWCLSE"}, Plains(1))

PartyCases ==
  Each({"STITM"}, "processSTITM") ++ Each({"PRTYE"}, "processPRTYE")
  ++ Each({"SPTYE", "GTPYE", "GOLDU", "GOLDD", "HMPMAX1", "HMPMAX2", "MHMMX", "HMPMAX3",
           "MPU", "MPD", "HPU", "HPD", "DLITM", "CKITM", "SMTRA", "DMTRA", "CMTRA",
           "GETPC", "PRTYP", "PRTYM", "MMBUD", "MMBLK", "MMBUK", "CHGLD"}, "todo")
PartyReads ==
  Each({"processSTITM"}, <<Banked(0, 2), Banked(1, 3)>>)
  ++ Each({"processPRTYE"}, Plains(3))

\* The switch of FF7ModelInstruction, up to KAWIW and from there to GETAXY and on.
KawaiCases == Each({"JOIN", "SPLIT", "BLINK"} \cup KawaiOpcodes, "todo")
MovementCases ==
  Each({"TLKON"}, "processTLKON") ++ Each({"PC"}, "processPC")
  ++ Each({"CHAR"}, "processCHAR") ++ Each({"DFANM"}, "processDFANM")
  ++ Each({"ANIME1"}, "processANIME1") ++ Each({"VISI"}, "processVISI")
  ++ Each({"XYZI"}, "processXYZI") ++ Each({"MOVE"}, "processMOVE")
  ++ Each({"MSPED"}, "processMSPED") ++ Each({"DIR"}, "processDIR")
  ++ Each({"TURNGEN"}, "processTURNGEN")
  ++ Each({"KAWIW", "PMOVA", "PDIRA", "PTURA", "PGTDR", "PXYZI", "XYI", "XYZ", "CMOVE",
           "MOVA", "TURA", "ANIMW", "FMOVE", "ANIME2", "ANIM!1", "CANIM1", "CANM!1",
           "TURN", "DIRA", "GETDIR", "GETAXY"}, "todo")
AnimationCases ==
  Each({"GETAI"}, "processGETAI") ++ Each({"ANIM!2"}, "processANIM_2")
  ++ Each({"CANIM2"}, "processCANIM2") ++ Each({"CANM!2"}, "processCANM_2")
  ++ Each({"CC"}, "processCC") ++ Each({"OFSTW"}, "line")
  ++ Each({"SOLID"}, "processSOLID")
  ++ Each({"ASPED", "JUMP", "AXYZI", "LADER", "OFST", "TALKR", "SLIDR", "TLKR2", "SLDR2",
           "CCANM", "FCFIX", "ANIMB", "TURNW"}, "todo")
MovementReads ==
  Each({"processTLKON", "processVISI"}, Plains(1))
  ++ Each({"processPC", "processCHAR"}, <<>>)
  ++ Each({"processDFANM", "processANIME1"}, Plains(2))
  ++ Each({"processXYZI"}, <<Banked(0, 4), Banked(1, 5), Banked(2, 6), Banked(3, 7)>>)
  ++ Each({"processMOVE"}, <<Banked(0, 2), Banked(1, 3)>>)
  ++ Each({"processMSPED"}, <<Banked(1, 2)>>)
  ++ Each({"processDIR"}, <<Banked(0, 1)>>)
  ++ Each({"processTURNGEN"}, <<Banked(1, 2), Plain(3), Plain(5), Plain(4)>>)
AnimationReads ==
  Each({"processGETAI"}, <<Banked(1, 3), Plain(2)>>)
  ++ Each({"processANIM_2"}, Plains(2))
  ++ Each({"processCANIM2", "processCANM_2"}, Plains(4))
  ++ Each({"processCC", "processSOLID"}, Plains(1))
  ++ Each({"line"}, <<>>)

WalkmeshCases ==
  Each({"UC"}, "processUC") ++ Each({"IDLCK"}, "lock")
  ++ Each({"SLIP", "LINE", "LINON", "SLINE"}, "todo")
WalkmeshReads == Each({"processUC"}, Plains(1)) ++ Each({"lock"}, Plains(2))

BackgroundCases ==
  Each({"BGON"}, "processBGON") ++ Each({"BGOFF"}, "processBGOFF")
  ++ Each({"BGCLR"}, "processBGCLR") ++ Each({"STPAL"}, "processSTPAL")
  ++ Each({"LDPAL"}, "processLDPAL") ++ Each({"CPPAL"}, "processCPPAL")
  ++ Each({"ADPAL"}, "processADPAL") ++ Each({"MPPAL2"}, "processMPPAL2")
  ++ Each({"STPLS"}, "processSTPLS") ++ Each({"LDPLS"}, "processLDPLS")
  ++ Each({"BGPDH", "BGSCR", "MPPAL", "BGROL", "BGROL2", "RTPAL", "CPPAL2", "ADPAL2",
           "RTPAL2"}, "todo")
BackgroundReads ==
  Each({"processBGON", "processBGOFF"}, <<Banked(0, 2), Banked(1, 3)>>)
  ++ Each({"processBGCLR"}, <<Banked(1, 2)>>)
  ++ Each({"processSTPAL", "processLDPAL", "processCPPAL"},
          <<Banked(0, 2), Banked(1, 3), Plain(4)>>)
  ++ Each({"processADPAL", "processMPPAL2"},
          <<Banked(0, 6), Banked(1, 7), Banked(4, 10), Banked(3, 9), Banked(2, 8),
            Plain(11)>>)
  ++ Each({"processSTPLS", "processLDPLS"}, Plains(4))

CameraCases ==
  Each({"NFADE"}, "processNFADE") ++ Each({"SCR2D"}, "processSCR2D")
  ++ Each({"SCR2DC"}, "processSCR2DC") ++ Each({"FADE"}, "processFADE")
  ++ Each({"SHAKE", "SCRLO", "SCRLC", "SCRCC", "SCRLW", "SCR2DL", "VWOFT", "FADEW",
           "SCRLP", "MVCAM", "SCRLA"}, "todo")
CameraReads ==
  Each({"processNFADE"},
       <<Plain(4), Banked(0, 5), Banked(1, 6), Banked(2, 7), Banked(3, 8)>>)
  ++ Each({"processSCR2D"}, <<Banked(0, 2), Banked(1, 3)>>)
  ++ Each({"processSCR2DC"}, <<Banked(0, 4), Banked(1, 5), Banked(3, 6)>>)
  ++ Each({"processFADE"},
          <<Plain(8), Banked(0, 4), Banked(1, 5), Banked(2, 6), Plain(7), Plain(9)>>)

AudioVideoCases ==
  Each({"AKAO2"}, "processAKAO2") ++ Each({"MUSIC"}, "processMUSIC")
  ++ Each({"SOUND"}, "processSOUND") ++ Each({"AKAO"}, "processAKAO")
  ++ Each({"MULCK"}, "processMULCK") ++ Each({"PMVIE"}, "processPMVIE")
  ++ Each({"MOVIE"}, "processMOVIE") ++ Each({"MVIEF"}, "processMVIEF")
  ++ Each({"BGMOVIE", "MUSVT", "MUSVM", "BMUSC", "CHMPH", "FMUSC", "CMUSC", "CHMST"},
          "todo")
AudioVideoReads ==
  Each({"processAKAO2", "processAKAO"},
       <<Banked(0, 7), Banked(1, 8), Banked(2, 9), Banked(3, 10), Banked(5, 11), Plain(6)>>)
  ++ Each({"processMUSIC", "processMULCK", "processPMVIE"}, Plains(1))
  ++ Each({"processSOUND"}, <<Banked(0, 2), Banked(1, 3)>>)
  ++ Each({"processMOVIE"}, <<>>)
  ++ Each({"processMVIEF"}, <<Banked(1, 2)>>)

UncategorizedCases == Each({"MPDSP", "SETX", "GETX", "SEARCHX"}, "todo")
-----------------------------------------------------------------------------
\* The classes the disassembler makes instructions of, besides the two kinds of
\* jumps and FF7NoOperationInstruction, with the opcodes it gives each.
FieldClasses ==
  [ControlFlow |-> FlowOpcodes \ (CondJumpOpcodes \cup UncondJumpOpcodes \cup {"NOP"}),
   Module |-> DOMAIN ModuleFormats, Math |-> DOMAIN MathFormats,
   Window |-> DOMAIN WindowFormats, Party |-> DOMAIN PartyFormats,
   Model |-> DOMAIN ModelFormats \cup KawaiOpcodes, Walkmesh |-> DOMAIN WalkmeshFormats,
   Background |-> DOMAIN BackgroundFormats, Camera |-> DOMAIN CameraFormats,
   AudioVideo |-> DOMAIN AudioVideoFormats,
   Uncategorized |-> DOMAIN UncategorizedFormats]

Cases ==
  [ControlFlow |-> ControlFlowCases, Module |-> ModuleCases, Math |-> MathCases,
   Window |-> WindowCases, Party |-> PartyCases,
   Model |-> KawaiCases ++ MovementCases ++ AnimationCases, Walkmesh |-> WalkmeshCases,
   Background |-> BackgroundCases, Camera |-> CameraCases,
   AudioVideo |-> AudioVideoCases, Uncategorized |-> UncategorizedCases]

Reads ==
  [ControlFlow |-> ControlFlowReads, Module |-> ModuleReads, Math |-> MathReads,
   Window |-> WindowReads, Party |-> PartyReads, Model |-> MovementReads ++ AnimationReads,
   Walkmesh |-> WalkmeshReads, Background |-> BackgroundReads, Camera |-> CameraReads,
   AudioVideo |-> AudioVideoReads, Uncategorized |-> <<>>]

ClassOf(op) ==
  IF op \in CondJumpOpcodes THEN "CondJump"
  ELSE IF op \in UncondJumpOpcodes THEN "UncondJump"
  ELSE IF op = "NOP" THEN "NoOperation"
  ELSE CHOOSE class \in DOMAIN FieldClasses : op \in FieldClasses[class]

\* The handler of an instruction: the jumps and NOP have one processInst for all.
HandlerOf(op) ==
  LET class == ClassOf(op)
  IN IF class \notin DOMAIN Cases THEN class
     ELSE IF op \in DOMAIN Cases[class] THEN Cases[class][op] ELSE "not implemented"

\* What processInst reads of the parameters of an instruction.  An unconditional
\* jump prints its destination, which getDestAddress makes of its parameter.
ReadsOf(op) ==
  LET handler == HandlerOf(op)
  IN CASE handler = "CondJump" -> ConditionReads(op)
       [] handler = "UncondJump" -> <<Plain(0)>>
       [] handler \in {"NoOperation", "todo", "not implemented"} -> <<>>
       [] OTHER -> Reads[ClassOf(op)][handler]
=============================================================================
