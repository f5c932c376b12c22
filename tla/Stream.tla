------------------------------- MODULE Stream -------------------------------
(***************************************************************************)
(* What a queue of port/qio.c promises to its users: a stream of bytes.    *)
(* Blocks are put at its end and bytes are taken from its beginning.  A    *)
(* close or a flush drops bytes from the end, never from the middle.       *)
(***************************************************************************)
EXTENDS Naturals, Sequences

CONSTANT Blocks    \* the strings of bytes that are put

VARIABLE pending   \* the bytes not yet taken

Init == pending = <<>>

Put == \E d \in Blocks : pending' = pending \o d

Take == \E n \in 1 .. Len(pending) : pending' = SubSeq(pending, n + 1, Len(pending))

Drop == \E n \in 1 .. Len(pending) : pending' = SubSeq(pending, 1, n - 1)

Next == Put \/ Take \/ Drop

Spec == Init /\ [][Next]_pending
=============================================================================
