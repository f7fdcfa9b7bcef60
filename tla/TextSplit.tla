------------------------------ MODULE TextSplit ------------------------------
(***************************************************************************)
(* text::split_for_synthesis: a fragment is cut into pieces of at most     *)
(* soft_limit characters, after the last sentence end in the window, else  *)
(* after the last clause mark, else at the last space, else at its end.    *)
(* One action is one turn of the loop.                                     *)
(*                                                                         *)
(* A character is what the function tells apart.  text[p] is the p-th      *)
(* character, the code's text[p - 1]; a position, such as start or a cut,  *)
(* is the number of characters before it, as in the code.  A piece is the  *)
(* range of its characters.                                                *)
(***************************************************************************)
EXTENDS Integers, Sequences

CONSTANTS
    Limit,      \* soft_limit
    MaxText     \* bound: characters of the text

ASSUME SplitAssumption == Limit \in Nat \ {0} /\ MaxText \in Nat

VARIABLES text, start, pieces, done

vars == <<text, start, pieces, done>>

\* A stop is . ! or ?, a clause mark ; : or a comma.
Characters == {"letter", "stop", "clause", "space"}

Texts == UNION {[1..n -> Characters] : n \in 0..MaxText}
Piece(a, b) == [first |-> a, last |-> b]
Within(piece) == piece.first..piece.last

Init ==
    /\ text \in Texts
    /\ start = 0
    /\ pieces = <<>>
    /\ done = FALSE

-----------------------------------------------------------------------------
WindowEnd == start + Limit

\* What is left is a piece of its own, to the end of the text (a mutant: one
\* character longer).
NearlyFits == Len(text) - start <= Limit + 1
RestFits == Len(text) - start <= Limit
RestEnd == Len(text)

\* Cuts that leave more than a quarter of the limit before them.
Window == start + Limit \div 4 + 1..WindowEnd

\* "3.14" has no sentence end in it (for a mutant it has).
AnyStop(p) == text[p] = "stop"
SentenceEnd(p) ==
    /\ text[p] = "stop"
    /\ p >= Len(text) \/ text[p + 1] = "space"

\* Only a space past start is of use (a mutant takes any).
FromTheTop == 0
FirstSpaceOfUse == start + 1

SentenceEnds == {p \in Window : SentenceEnd(p)}
ClauseEnds == {p \in Window : text[p] = "clause"}
Spaces == {p \in FirstSpaceOfUse..WindowEnd : text[p + 1] = "space"}

IsLast(p, S) == p \in S /\ \A q \in S : q <= p

IsCut(p) ==
    \/ IsLast(p, SentenceEnds)
    \/ SentenceEnds = {} /\ IsLast(p, ClauseEnds)
    \/ SentenceEnds \cup ClauseEnds = {} /\ IsLast(p, Spaces)
    \/ SentenceEnds \cup ClauseEnds \cup Spaces = {} /\ p = WindowEnd

\* The characters of start..cut that a trimmed piece is made of.
Inked(cut) == {q \in start + 1..cut : text[q] # "space"}

IsTrimmed(piece, cut) ==
    /\ {piece.first, piece.last} \subseteq Inked(cut)
    /\ Inked(cut) \subseteq Within(piece)

\* The next piece starts past the spaces after the cut (a mutant: and past
\* the character that follows).
SkipsOneMore(cut, s) == \A q \in cut + 1..s - 1 : text[q] = "space"
SkipsSpaces(cut, s) == \A q \in cut + 1..s : text[q] = "space"
NextStarts(cut) ==
    {s \in cut..Len(text) :
        SkipsSpaces(cut, s) /\ (s < Len(text) => text[s + 1] # "space")}

CutPiece ==
    /\ ~done
    /\ ~RestFits
    /\ \E cut \in {p \in 0..WindowEnd : IsCut(p)} :
          /\ \/ /\ Inked(cut) = {}
                /\ UNCHANGED pieces
             \/ \E a, b \in Inked(cut) :
                   /\ IsTrimmed(Piece(a, b), cut)
                   /\ pieces' = Append(pieces, Piece(a, b))
          /\ start' \in NextStarts(cut)
    /\ UNCHANGED <<text, done>>

\* What is left fits, or nothing is left.
TakeRest ==
    /\ ~done
    /\ RestFits
    /\ pieces' = IF start < Len(text) THEN Append(pieces, Piece(start + 1, RestEnd))
                 ELSE pieces
    /\ start' = Len(text)
    /\ done' = TRUE
    /\ UNCHANGED text

Next == CutPiece \/ TakeRest

Spec == Init /\ [][Next]_vars

FairSpec == Spec /\ WF_vars(Next)

-----------------------------------------------------------------------------
TypeOK ==
    /\ text \in Texts
    /\ start \in 0..Len(text)
    /\ pieces \in Seq([first : 1..Len(text), last : 1..Len(text)])
    /\ done \in BOOLEAN

\* No piece is longer than the limit the engine's latency depends on, and
\* none is empty.
PiecesFit ==
    \A i \in DOMAIN pieces :
        /\ pieces[i].first <= pieces[i].last
        /\ pieces[i].last - pieces[i].first + 1 <= Limit

\* Nothing is spoken twice or out of order: each piece begins after the one
\* before it ends, and ends before the loop goes on.
InOrder ==
    /\ \A i, j \in DOMAIN pieces : i < j => pieces[i].last < pieces[j].first
    /\ \A i \in DOMAIN pieces : pieces[i].last <= start

\* Nothing is left unspoken: every character up to start is a space or in a
\* piece, and in the end that is the whole text.
NothingLost ==
    /\ \A q \in 1..start :
          text[q] = "space" \/ \E i \in DOMAIN pieces : q \in Within(pieces[i])
    /\ done => start = Len(text)

\* Two pieces with no space between them: a word was cut in two there.
Halved(i) ==
    /\ {i, i + 1} \subseteq DOMAIN pieces
    /\ pieces[i + 1].first = pieces[i].last + 1
    /\ text[pieces[i].last] # "space"
    /\ text[pieces[i + 1].first] # "space"

\* Unless there is a clause mark in it, a word is cut only when there is no
\* space anywhere in the piece to cut at: "one very long token".
OnlyLongTokensHalved ==
    \A i \in DOMAIN pieces :
        Halved(i) =>
            \/ text[pieces[i].last] = "clause"
            \/ \A q \in Within(pieces[i]) : text[q] # "space"

\* The loop ends, whatever the text.
SplitEnds == <>done

=============================================================================
