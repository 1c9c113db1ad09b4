---------------------------- MODULE ScummOpcodes ----------------------------
(***************************************************************************)
(* The opcodes of SCUMM v6 (the tables of Scummv6Disassembler in           *)
(* decompiler/scummv6/disassembler.cpp).  An opcode is its name, with the  *)
(* prefix of its group; to each belong the class of its instructions, the  *)
(* stack effect, the format of the parameters, and _codeGenData: a letter  *)
(* for each argument of a call, after "r" if the call returns a value, or  *)
(* an operator.  A stack effect of 1000 and more, in base 16, is one of a  *)
(* call with a list: fixStackEffect takes it apart.                        *)
(***************************************************************************)
EXTENDS SimpleDisassembler

\* sub: the opcode has two bytes.
Opcode(class, change, params, data) ==
  [class |-> class, change |-> change, params |-> params, data |-> data, sub |-> FALSE]
Call(change, data) == Opcode("Call", change, <<>>, data)
Suboption(change, params, data) == [Opcode("Call", change, params, data) EXCEPT !.sub = TRUE]
SubCall(change, data) == Suboption(change, <<>>, data)

Prefixed(prefix, table) ==
  [name \in {prefix \o n : n \in DOMAIN table} |->
     table[CHOOSE n \in DOMAIN table : prefix \o n = name]]

LoadOpcodes ==
  Each({"pushByte"}, Opcode("Push", 1, <<"B">>, <<>>))
  ++ Each({"pushWord"}, Opcode("Push", 1, <<"s">>, <<>>))
  ++ Each({"pushByteVar"}, Opcode("PushVar", 1, <<"B">>, <<>>))
  ++ Each({"pushWordVar"}, Opcode("PushVar", 1, <<"w">>, <<>>))
  ++ Each({"byteArrayRead"}, Opcode("ArrayRead", 0, <<"B">>, <<>>))
  ++ Each({"wordArrayRead"}, Opcode("ArrayRead", 0, <<"w">>, <<>>))
  ++ Each({"byteArrayIndexedRead"}, Opcode("IndexedRead", -1, <<"B">>, <<>>))
  ++ Each({"wordArrayIndexedRead"}, Opcode("IndexedRead", -1, <<"w">>, <<>>))

OperatorOpcodes ==
  [name \in {"eq", "neq", "gt", "lt", "le", "ge", "add", "sub", "mul", "div", "land", "lor",
             "band", "bor"} |->
     Opcode("Binary", -1, <<>>,
       CASE name = "eq" -> <<"==">> [] name = "neq" -> <<"!=">> [] name = "gt" -> <<">">>
         [] name = "lt" -> <<"<">> [] name = "le" -> <<"<=">> [] name = "ge" -> <<">=">>
         [] name = "add" -> <<"+">> [] name = "sub" -> <<"-">> [] name = "mul" -> <<"*">>
         [] name = "div" -> <<"/">> [] name = "land" -> <<"&&">> [] name = "lor" -> <<"||">>
         [] name = "band" -> <<"&">> [] name = "bor" -> <<"|">>)]
  ++ Each({"dup"}, Opcode("Dup", 1, <<>>, <<>>)) ++ Each({"not"}, Opcode("Not", 0, <<>>, <<>>))
  ++ Each({"pop"}, Opcode("Pop", -1, <<>>, <<>>))

StoreOpcodes ==
  Each({"writeByteVar"}, Opcode("Write", -1, <<"B">>, <<>>))
  ++ Each({"writeWordVar"}, Opcode("Write", -1, <<"w">>, <<>>))
  ++ Each({"byteArrayWrite"}, Opcode("ArrayWrite", -2, <<"B">>, <<>>))
  ++ Each({"wordArrayWrite"}, Opcode("ArrayWrite", -2, <<"w">>, <<>>))
  ++ Each({"byteArrayIndexedWrite"}, Opcode("IndexedWrite", -3, <<"B">>, <<>>))
  ++ Each({"wordArrayIndexedWrite"}, Opcode("IndexedWrite", -3, <<"w">>, <<>>))
  ++ Each({"byteVarInc", "byteVarDec"}, Opcode("VarInc", 0, <<"B">>, <<>>))
  ++ Each({"wordVarInc", "wordVarDec"}, Opcode("VarInc", 0, <<"w">>, <<>>))
  ++ Each({"byteArrayInc", "byteArrayDec"}, Opcode("ArrayInc", -1, <<"B">>, <<>>))
  ++ Each({"wordArrayInc", "wordArrayDec"}, Opcode("ArrayInc", -1, <<"w">>, <<>>))

JumpOpcodes ==
  Each({"jumpTrue", "jumpFalse"}, Opcode("CondJump", -1, <<"a">>, <<>>))
  ++ Each({"jump"}, Opcode("Jump", 0, <<"a">>, <<>>))

ScriptCalls ==
  Each({"startScript", "startObjectQuick", "jumpToScript"}, Call(\h1020, <<"l", "p", "p">>))
  ++ Each({"startScriptQuick", "setClass", "pseudoRoom", "startScriptQuick2"},
          Call(\h1010, <<"l", "p">>))
  ++ Each({"startObject"}, Call(\h1030, <<"l", "p", "p", "p">>))
  ++ Each({"beginCutscene", "soundKludge", "kernelGetFunctions", "kernelSetFunctions"},
          Call(\h1000, <<"l">>))
  ++ Each({"ifClassOfIs", "isAnyOf", "pickOneOf"}, Call(\h1011, <<"r", "l", "p">>))
  ++ Each({"setBoxFlags"}, Call(\h1100, <<"p", "l">>))
  ++ Each({"pickOneOfDefault"}, Call(\h111, <<"r", "p", "l", "p">>))
  ++ Each({"pickVarRandom"}, Opcode("Call", \h1001, <<"w">>, <<"r", "l", "w">>))

KernelCalls ==
  Each({"stopObjectCodeA", "stopObjectCodeB", "endCutscene", "stopMusic", "breakHere",
        "beginOverride", "endOverride", "createBoxMatrix", "stopSentence", "getDateTime",
        "stopTalking"}, Call(0, <<>>))
  ++ Each({"freezeUnfreeze", "startSound", "stopSound", "startMusic", "stopObjectScript",
           "panCameraTo", "actorFollowCamera", "setCameraAt", "loadRoom", "stopScript",
           "delay", "delaySeconds", "delayMinutes", "delayFrames", "setBoxSet"},
          Call(-1, <<"p">>))
  ++ Each({"drawObject", "setState", "setOwner", "faceActor", "animateActor"},
          Call(-2, <<"p", "p">>))
  ++ Each({"drawObjectAt", "walkActorToObj", "walkActorTo"}, Call(-3, <<"p", "p", "p">>))
  ++ Each({"setBlastObjectWindow", "putActorAtXY", "doSentence", "stampObject"},
          Call(-4, <<"p", "p", "p", "p">>))
  ++ Each({"drawBlastObject", "drawBox"}, Call(-5, <<"p", "p", "p", "p", "p">>))
  ++ Each({"pickupObject"}, Call(-2, <<"z">>))
  ++ Each({"putActorAtObject"}, Call(-3, <<"z", "p">>))
  ++ Each({"loadRoomWithEgo"}, Call(-4, <<"p", "p", "z">>))
  ++ Each({"setObjectName", "talkActor"}, Opcode("Call", -1, <<"c">>, <<"p", "s">>))
  ++ Each({"talkEgo"}, Opcode("Call", 0, <<"c">>, <<"s">>))
  ++ Each({"shuffle"}, Opcode("Call", -2, <<"w">>, <<"v", "p", "p">>))

ValueCalls ==
  Each({"getState", "getOwner", "getRandomNumber", "getActorMoving", "isScriptRunning",
        "getActorRoom", "getObjectX", "getObjectY", "getObjectDir", "getActorWalkBox",
        "getActorCostume", "getInventoryCount", "isSoundRunning", "getActorElevation",
        "getActorWidth", "getActorScaleX", "getActorAnimCounter", "abs",
        "isRoomScriptRunning", "findAllObjects", "getActorLayer", "getObjectNewDir"},
       Call(0, <<"r", "p">>))
  ++ Each({"getRandomNumberRange", "findInventory", "getVerbFromXY", "getActorFromXY",
           "findObject", "getVerbEntrypoint", "isActorInBox", "getDistObjObj",
           "getAnimateVariable", "getPixel"}, Call(-1, <<"r", "p", "p">>))
  ++ Each({"getDistObjPt"}, Call(-2, <<"r", "p", "p", "p">>))
  ++ Each({"getDistPtPt"}, Call(-3, <<"r", "p", "p", "p", "p">>))

CursorCommands ==
  Prefixed("cursorCommand.",
    Each({"cursorOn", "cursorOff", "userputOn", "userputOff", "softCursorOn",
          "softCursorOff", "softUserputOn", "softUserputOff"}, SubCall(0, <<>>))
    ++ Each({"setCursorImg"}, SubCall(-2, <<"z">>))
    ++ Each({"setCursorHotspot"}, SubCall(-2, <<"p", "p">>))
    ++ Each({"initCharset", "setCursorTransparency"}, SubCall(-1, <<"p">>))
    ++ Each({"charsetColors"}, SubCall(\h1000, <<"l">>)))

ResourceRoutines ==
  Prefixed("resourceRoutines.",
    Each({"loadScript", "loadSound", "loadCostume", "loadRoom", "nukeScript", "nukeSound",
          "nukeCostume", "nukeRoom", "lockScript", "lockSound", "lockCostume", "lockRoom",
          "unlockScript", "unlockSound", "unlockCostume", "unlockRoom", "loadCharset",
          "nukeCharset"}, SubCall(-1, <<"p">>))
    ++ Each({"loadFlObject"}, SubCall(-2, <<"p", "p">>)))

RoomOps ==
  Prefixed("roomOps.",
    Each({"shakeOn", "shakeOff"}, SubCall(0, <<>>))
    ++ Each({"screenEffect", "setPalette"}, SubCall(-1, <<"p">>))
    ++ Each({"roomScroll", "setScreen", "saveLoadRoom", "colorCycleDelay", "copyPalColor"},
            SubCall(-2, <<"p", "p">>))
    ++ Each({"darkenPalette"}, SubCall(-3, <<"p", "p", "p">>))
    ++ Each({"setPalColor", "palManipulate"}, SubCall(-4, <<"p", "p", "p", "p">>))
    ++ Each({"darkenPaletteRGB", "setupShadowPalette"},
            SubCall(-5, <<"p", "p", "p", "p", "p">>)))

ActorOps ==
  Prefixed("actorOps.",
    Each({"init", "setDefAnim", "setNeverZClip", "setIgnoreBoxes", "setFollowBoxes",
          "setIgnoreTurnsOn", "setIgnoreTurnsOff", "initLittle", "setStanding", "freeze",
          "unfreeze"}, SubCall(0, <<>>))
    ++ Each({"setCostume", "setWalkFrame", "setStandFrame", "setElevation", "setTalkColor",
             "setInitFrame", "setWidth", "setScale", "setAlwaysZClip", "setAnimSpeed",
             "setShadowMode", "setCurActor", "setAlwaysZClip?", "setLayer", "setWalkScript",
             "setDirection", "turnToDirection", "setTalkScript"}, SubCall(-1, <<"p">>))
    ++ Each({"setWalkSpeed", "setTalkFrame", "setPalette", "setTalkPos", "setAnimVar"},
            SubCall(-2, <<"p", "p">>))
    ++ Each({"82?"}, SubCall(-3, <<"p", "p", "p">>))
    ++ Each({"setSound"}, SubCall(\h1000, <<"l">>))
    ++ Each({"setName"}, Suboption(0, <<"c">>, <<"s">>)))

VerbOps ==
  Prefixed("verbOps.",
    Each({"setOn", "setOff", "kill", "init", "setDimmed", "setCenter", "redraw"},
         SubCall(0, <<>>))
    ++ Each({"loadImg", "setColor", "setHiColor", "setDimColor", "setKey", "setToString",
             "setBkColor", "setCurVerb"}, SubCall(-1, <<"p">>))
    ++ Each({"setXY", "setToObject"}, SubCall(-2, <<"p", "p">>))
    ++ Each({"loadString"}, Suboption(0, <<"c">>, <<"s">>)))

PrintOps ==
  Each({"XY"}, SubCall(-2, <<"p", "p">>))
  ++ Each({"color", "right"}, SubCall(-1, <<"p">>))
  ++ Each({"center", "left", "overhead", "mumble", "begin", "end"}, SubCall(0, <<>>))
  ++ Each({"msg"}, Suboption(0, <<"c">>, <<"s">>))
PrintCommands ==
  Prefixed("printLine.", PrintOps) ++ Prefixed("printText.", PrintOps)
  ++ Prefixed("printDebug.", PrintOps) ++ Prefixed("printSystem.", PrintOps)
  ++ Prefixed("printActor.", Each({"begin"}, SubCall(-1, <<"p">>)) ++ PrintOps)
  ++ Prefixed("printEgo.", PrintOps)

ArrayOps ==
  Each({"arrayOps.assignString"},
       [Opcode("AssignString", -1, <<"w", "c">>, <<>>) EXCEPT !.sub = TRUE])
  ++ Each({"arrayOps.assignIntList"},
          [Opcode("AssignList", \h1100, <<"w">>, <<>>) EXCEPT !.sub = TRUE])
  ++ Each({"arrayOps.assign2DimList"},
          [Opcode("AssignLists", \h1100, <<"w">>, <<>>) EXCEPT !.sub = TRUE])

OtherSubCalls ==
  Each({"saveRestoreVerbs.saveVerbs", "saveRestoreVerbs.restoreVerbs",
        "saveRestoreVerbs.deleteVerbs"}, SubCall(-3, <<"p", "p", "p">>))
  ++ Each({"waitForActor", "waitUntilActorDrawn", "waitUntilActorTurned"},
          Suboption(-1, <<"s">>, <<"p", "j">>))
  ++ Each({"waitForMessage", "waitForCamera", "waitForSentence", "systemOps.restartGame",
           "systemOps.pauseGame", "systemOps.shutDown"}, SubCall(0, <<>>))
  ++ Each({"dimArrayInt", "dimArrayBit", "dimArrayNibble", "dimArrayByte", "dimArrayString"},
          Suboption(-1, <<"w">>, <<"p", "v">>))
  ++ Each({"dimArray_nukeArray"}, Suboption(0, <<"w">>, <<"v">>))
  ++ Each({"dim2DimArrayInt", "dim2DimArrayBit", "dim2DimArrayNibble", "dim2DimArrayByte",
           "dim2DimArrayString"}, Suboption(-2, <<"w">>, <<"p", "p", "v">>))

ScummOpcodeTable ==
  LoadOpcodes ++ OperatorOpcodes ++ StoreOpcodes ++ JumpOpcodes ++ ScriptCalls
  ++ KernelCalls ++ ValueCalls ++ CursorCommands ++ ResourceRoutines ++ RoomOps
  ++ ActorOps ++ VerbOps ++ PrintCommands ++ ArrayOps ++ OtherSubCalls

\* Scummv6LoadInstruction.
LoadClasses == {"Push", "PushVar", "ArrayRead", "IndexedRead"}
-----------------------------------------------------------------------------
(* The 'c' of Scummv6Disassembler::readParameter: a string with escapes.   *)

Escapes == {"newline", "keeptext", "wait", "addToStack", "startanim", "setcolor", "unk2",
            "setfont", "unk", "sound"}

\* The bytes read for a character or an escape; a sound is 16 bytes in the file, of
\* which two have been read when the code seeks.
ItemBytes(item) ==
  CASE item \notin Escapes -> 1
    [] item \in {"newline", "keeptext", "wait"} -> 2
    [] item = "sound" -> 16
    [] OTHER -> 4

\* By how much _address moves.
ItemAddress(item) ==
  CASE item \in {"newline", "keeptext", "wait"} -> 2
    [] item \in {"addToStack", "startanim", "setcolor", "unk2", "setfont", "unk"} -> 4
    [] item = "sound" -> 16
    [] OTHER -> 1
=============================================================================
