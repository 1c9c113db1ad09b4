----------------------------- MODULE RingWindow -----------------------------
(***************************************************************************)
(* What an LZS decoder promises: every byte it puts out is also written to *)
(* a ring of WindowSize bytes, which begins with zeros and is first        *)
(* written Ahead bytes before its end; an item of the compressed text is a *)
(* byte, or a number of bytes to be read from a place in the ring on.      *)
(***************************************************************************)
EXTENDS Integers, Sequences

CONSTANTS
  WindowSize,  \* 4096
  Ahead        \* 18, the longest reference

VARIABLES
  items,   \* what is left of the text; of a reference, the bytes still to be copied
  ring,    \* the window
  output   \* the bytes put out

ringVars == <<items, ring, output>>

Item == [copied : BOOLEAN, byte : Nat, at : 0 .. WindowSize - 1, left : Nat \ {0}]

RingInit ==
  /\ items \in Seq(Item)
  /\ ring = [i \in 0 .. WindowSize - 1 |-> 0]
  /\ output = <<>>

WritePlace == (WindowSize - Ahead + Len(output)) % WindowSize

Emit ==
  LET item == Head(items)
      byte == IF item.copied THEN ring[item.at] ELSE item.byte
  IN /\ items # <<>>
     /\ output' = Append(output, byte)
     /\ ring' = [ring EXCEPT ![WritePlace] = byte]
     /\ items' = IF item.left = 1 THEN Tail(items)
                 ELSE [items EXCEPT ![1].at = (@ + 1) % WindowSize, ![1].left = @ - 1]

RingSpec == RingInit /\ [][Emit]_ringVars /\ WF_ringVars(Emit)
=============================================================================
