------------------------------- MODULE Comparing -------------------------------
(***************************************************************************)
(* Output compared with the reference answer as it arrives: `Comparing` of *)
(* compare.rs.  A byte is a letter, an ASCII space, or half of a space that*)
(* takes two bytes; half of one alone is a letter nobody wrote.            *)
(***************************************************************************)
EXTENDS Integers, SequencesExt

Letter == "a"
AsciiSpace == "space"
First == "lead"
Second == "tail"
Bytes == {Letter, AsciiSpace, First, Second}
Replacement == "lost"

(* from_utf8_lossy, a position a byte.                                     *)
Decoded(bytes) ==
    [i \in DOMAIN bytes |->
        IF \/ bytes[i] = First /\ i < Len(bytes) /\ bytes[i + 1] = Second
           \/ bytes[i] = Second /\ i > 1 /\ bytes[i - 1] = First
        THEN AsciiSpace
        ELSE IF bytes[i] \in {First, Second} THEN Replacement ELSE bytes[i]]

(* split_whitespace: the runs between spaces.                              *)
Tokens(bytes) ==
    LET closed(split) == IF split.run = <<>> THEN split.whole ELSE Append(split.whole, split.run)
        read(split, char) ==
            IF char = AsciiSpace THEN [whole |-> closed(split), run |-> <<>>]
            ELSE [split EXCEPT !.run = Append(@, char)]
    IN closed(FoldLeft(read, [whole |-> <<>>, run |-> <<>>], Decoded(bytes)))

(* Undecided is 0; Equal is -1; a difference is the token it is at.        *)
Undecided == 0
Equal == -1

Against(expected) ==
    [ours |-> Tokens(expected), holding |-> <<>>, index |-> 0, decided |-> Undecided]

(* Both sides ran out, or one did, or the tokens differ.                   *)
Exhausted == <<>>
Want(c) == IF c.index < Len(c.ours) THEN c.ours[c.index + 1] ELSE Exhausted
Settle(c, got) ==
    IF c.decided # Undecided \/ (Want(c) = Exhausted /\ got = Exhausted) THEN c
    ELSE [c EXCEPT !.index = @ + 1,
                   !.decided = IF Want(c) = got THEN Undecided ELSE c.index + 1]

(* Mutant of Cut: everything that has arrived is whole.                    *)
CutAnywhere(held, bytes) == held + Len(bytes)

(* The last ASCII space of what arrived; only that is searched.            *)
Cut(held, bytes) ==
    LET spaces == {i \in DOMAIN bytes : bytes[i] = AsciiSpace}
    IN IF spaces = {} THEN 0 ELSE held + Max(spaces)

(* What is before the cut is split and settled; the rest is held.          *)
Feed(c, bytes) ==
    LET all == c.holding \o bytes
        cut == Cut(Len(c.holding), bytes)
    IN IF c.decided # Undecided THEN c
       ELSE FoldLeft(Settle, [c EXCEPT !.holding = SubSeq(all, cut + 1, Len(all))],
                     Tokens(SubSeq(all, 1, cut)))

Finish(c) ==
    LET last == Settle(FoldLeft(Settle, c, Tokens(c.holding)), Exhausted)
    IN IF last.decided = Undecided THEN Equal ELSE last.decided

(* The whole of both sides at once.                                        *)
Compare(expected, actual) == Finish(Feed(Against(expected), actual))

-----------------------------------------------------------------------------
(* What a comparison means: the first place where the tokens differ.       *)
Meaning(expected, actual) ==
    LET ours == Tokens(expected)
        theirs == Tokens(actual)
        differ == {i \in 1..Max({Len(ours), Len(theirs)} \cup {1}) :
                     \/ (i <= Len(ours)) # (i <= Len(theirs))
                     \/ i <= Len(ours) /\ i <= Len(theirs) /\ ours[i] # theirs[i]}
    IN IF differ = {} THEN Equal ELSE Min(differ)

(* However the output is cut into chunks, the answer is that of the whole; *)
(* and what is settled before the end stays settled whatever still comes.  *)
AsWhole(expected, chunks) ==
    LET after(k) == FoldLeft(Feed, Against(expected), SubSeq(chunks, 1, k))
        answer == Meaning(expected, FlattenSeq(chunks))
    IN /\ Finish(after(Len(chunks))) = answer
       /\ Compare(expected, FlattenSeq(chunks)) = answer
       /\ \A k \in 0..Len(chunks) : after(k).decided \in {Undecided, answer}
================================================================================
