-------------------------- MODULE TextSplit_proofs --------------------------
(***************************************************************************)
(* What split_for_synthesis promises, for every limit and every text: its  *)
(* pieces fit, they are in order, and nothing is lost between them.        *)
(***************************************************************************)
EXTENDS TextSplit, TLAPS

SplitInv == TypeOK /\ PiecesFit /\ InOrder /\ NothingLost

-----------------------------------------------------------------------------
\* A text is a sequence.
LEMMA TextIsSequence ==
    ASSUME NEW t \in Texts
    PROVE  t \in Seq(Characters) /\ Len(t) \in Nat /\ DOMAIN t = 1..Len(t)
<1>1. PICK n \in 0..MaxText : t \in [1..n -> Characters]
  BY DEF Texts
<1>2. n \in Nat
  BY SplitAssumption
<1> QED  BY <1>1, <1>2

\* A cut is past the start of its window and not past its end, so that every
\* turn of the loop gets on.
LEMMA CutInWindow ==
    ASSUME start \in Nat, NEW cut \in 0..WindowEnd, IsCut(cut)
    PROVE  start < cut /\ cut <= start + Limit /\ cut \in Nat
<1>1. Limit \in Nat /\ Limit > 0
  BY SplitAssumption
<1>2. Limit \div 4 \in Nat
  BY <1>1
<1> QED
  BY <1>1, <1>2 DEF IsCut, IsLast, SentenceEnds, ClauseEnds, Spaces, Window, WindowEnd,
                    FirstSpaceOfUse

\* An element of a sequence of pieces has its ends in the text.
LEMMA PieceInText ==
    ASSUME NEW n \in Nat, NEW s \in Seq([first : 1..n, last : 1..n]), NEW i \in DOMAIN s
    PROVE  s[i].first \in 1..n /\ s[i].last \in 1..n
<1> DEFINE R == [first : 1..n, last : 1..n]
<1>1. s[i] \in R
  <2>1. s \in Seq(R) /\ i \in DOMAIN s
    OBVIOUS
  <2> HIDE DEF R
  <2> QED  BY <2>1
<1> QED  BY <1>1

-----------------------------------------------------------------------------
LEMMA SplitInit == Init => SplitInv
<1> SUFFICES ASSUME Init PROVE SplitInv
  OBVIOUS
<1>1. text \in Texts /\ start = 0 /\ done = FALSE /\ DOMAIN pieces = {}
      /\ pieces \in Seq([first : 1..Len(text), last : 1..Len(text)])
  BY DEF Init
<1>2. Len(text) \in Nat
  BY <1>1, TextIsSequence
<1>3. TypeOK
  <2>1. start \in 0..Len(text)
    BY <1>1, <1>2
  <2>2. done \in BOOLEAN
    BY <1>1
  <2> QED  BY <1>1, <2>1, <2>2, Zenon DEF TypeOK
<1>4. PiecesFit /\ InOrder /\ NothingLost
  BY <1>1 DEF PiecesFit, InOrder, NothingLost
<1> QED  BY <1>3, <1>4 DEF SplitInv

\* A turn of the loop that adds no piece skips only spaces.
LEMMA SkipKeeps ==
    ASSUME SplitInv, NEW cut \in Nat, start < cut, cut <= start + Limit,
           Len(text) - start > Limit, Inked(cut) = {},
           start' \in NextStarts(cut), ~done, UNCHANGED <<text, pieces, done>>
    PROVE  SplitInv'
<1>1. Len(text) \in Nat /\ start \in 0..Len(text) /\ start' \in cut..Len(text)
  BY TextIsSequence DEF SplitInv, TypeOK, NextStarts
<1>2. \A q \in start + 1..start' : text[q] = "space"
  BY <1>1 DEF Inked, NextStarts, SkipsSpaces
<1>3. TypeOK'
  BY <1>1 DEF SplitInv, TypeOK
<1>4. PiecesFit'
  BY DEF SplitInv, PiecesFit
<1>5. InOrder'
  <2>1. ASSUME NEW i \in DOMAIN pieces PROVE pieces[i].last <= start'
    <3>1. pieces[i].last \in 1..Len(text)
      BY <1>1, PieceInText DEF SplitInv, TypeOK
    <3>2. pieces[i].last \in Nat /\ pieces[i].last <= start
      BY <3>1, <1>1 DEF SplitInv, InOrder
    <3> QED  BY <3>2, <1>1
  <2> QED  BY <2>1 DEF SplitInv, InOrder
<1>6. NothingLost'
  BY <1>1, <1>2 DEF SplitInv, NothingLost, Within
<1> QED  BY <1>3, <1>4, <1>5, <1>6 DEF SplitInv

\* A piece cut from start..cut, or the rest of the text, joins the others.
LEMMA PieceKeeps ==
    ASSUME SplitInv, UNCHANGED text,
           NEW a \in 1..Len(text), NEW b \in 1..Len(text),
           start < a, a <= b, b - a + 1 <= Limit,
           pieces' = Append(pieces, Piece(a, b)),
           start' \in b..Len(text),
           \A q \in start + 1..start' : text[q] = "space" \/ q \in a..b,
           done' \in BOOLEAN, done' => start' = Len(text)
    PROVE  SplitInv'
<1> DEFINE m == Len(pieces)
<1>0. pieces \in Seq([first : 1..Len(text), last : 1..Len(text)])
  BY DEF SplitInv, TypeOK
<1>1. Len(text) \in Nat /\ start \in 0..Len(text) /\ start' \in Nat
  BY TextIsSequence DEF SplitInv, TypeOK
<1>2. /\ Piece(a, b) \in [first : 1..Len(text), last : 1..Len(text)]
      /\ Piece(a, b).first = a /\ Piece(a, b).last = b
  BY DEF Piece
<1>3. /\ m \in Nat
      /\ DOMAIN pieces = 1..m
      /\ DOMAIN pieces' = 1..m + 1
      /\ pieces'[m + 1] = Piece(a, b)
      /\ \A i \in 1..m : pieces'[i] = pieces[i]
  BY <1>0, <1>2
<1>4. \A i \in 1..m : pieces[i].first \in Nat /\ pieces[i].last \in Nat
  <2> SUFFICES ASSUME NEW i \in 1..m
               PROVE  pieces[i].first \in Nat /\ pieces[i].last \in Nat
    OBVIOUS
  <2>1. pieces[i].first \in 1..Len(text) /\ pieces[i].last \in 1..Len(text)
    BY <1>0, <1>1, <1>3, PieceInText
  <2> QED  BY <2>1, <1>1
<1> HIDE DEF m
<1>5. TypeOK'
  <2>1. pieces' \in Seq([first : 1..Len(text), last : 1..Len(text)])
    BY <1>0, <1>2
  <2> QED  BY <1>1, <2>1 DEF SplitInv, TypeOK
<1>6. PiecesFit'
  <2> SUFFICES ASSUME NEW i \in 1..m + 1
               PROVE  /\ pieces'[i].first <= pieces'[i].last
                      /\ pieces'[i].last - pieces'[i].first + 1 <= Limit
    BY <1>3 DEF PiecesFit
  <2>1. CASE i = m + 1
    BY <2>1, <1>2, <1>3
  <2>2. CASE i # m + 1
    BY <2>2, <1>3 DEF SplitInv, PiecesFit
  <2> QED  BY <2>1, <2>2
<1>7. InOrder'
  <2>1. ASSUME NEW i \in 1..m + 1, NEW j \in 1..m + 1, i < j
        PROVE  pieces'[i].last < pieces'[j].first
    <3>1. i \in 1..m /\ pieces'[i] = pieces[i] /\ pieces[i].last <= start
      BY <2>1, <1>3 DEF SplitInv, InOrder
    <3>2. CASE j = m + 1
      BY <3>1, <3>2, <1>1, <1>2, <1>3, <1>4
    <3>3. CASE j # m + 1
      <4>1. j \in 1..m /\ pieces'[j] = pieces[j]
        BY <3>3, <1>3
      <4> QED  BY <3>1, <4>1, <2>1, <1>3 DEF SplitInv, InOrder
    <3> QED  BY <3>2, <3>3
  <2>2. ASSUME NEW i \in 1..m + 1
        PROVE  pieces'[i].last <= start'
    <3>1. CASE i = m + 1
      <4>1. pieces'[i].last = b
        BY <3>1, <1>2, <1>3
      <4>2. b =< start'
        BY <1>1
      <4> QED  BY <4>1, <4>2
    <3>2. CASE i # m + 1
      <4>1. i \in 1..m /\ pieces'[i] = pieces[i] /\ pieces[i].last <= start
        BY <3>2, <1>3 DEF SplitInv, InOrder
      <4> QED  BY <4>1, <1>1, <1>4
    <3> QED  BY <3>1, <3>2
  <2> QED  BY <2>1, <2>2, <1>3 DEF InOrder
<1>8. NothingLost'
  <2> SUFFICES ASSUME NEW q \in 1..start', text[q] # "space"
               PROVE  \E i \in 1..m + 1 : q \in Within(pieces'[i])
    BY <1>3 DEF NothingLost
  <2>1. CASE q <= start
    <3>1. PICK i \in 1..m : q \in Within(pieces[i])
      BY <2>1, <1>1, <1>3 DEF SplitInv, NothingLost
    <3>2. i \in 1..m + 1 /\ pieces'[i] = pieces[i]
      BY <1>3
    <3>3. q \in Within(pieces'[i])
      BY <3>1, <3>2 DEF Within
    <3> QED  BY <3>2, <3>3
  <2>2. CASE q > start
    <3>1. q \in a..b
      BY <2>2, <1>1
    <3>2. m + 1 \in 1..m + 1 /\ q \in Within(pieces'[m + 1])
      BY <3>1, <1>2, <1>3 DEF Within
    <3> QED  BY <3>2
  <2>3. q <= start \/ q > start
    BY <1>1
  <2> QED  BY <2>1, <2>2, <2>3, Zenon
<1> QED  BY <1>5, <1>6, <1>7, <1>8 DEF SplitInv

LEMMA SplitStep == SplitInv /\ [Next]_vars => SplitInv'
<1> SUFFICES ASSUME SplitInv, [Next]_vars PROVE SplitInv'
  OBVIOUS
<1>0. Len(text) \in Nat /\ start \in 0..Len(text) /\ Limit \in Nat /\ Limit > 0
  BY TextIsSequence, SplitAssumption DEF SplitInv, TypeOK
<1>1. CASE CutPiece
  <2>1. PICK cut \in 0..WindowEnd :
           /\ IsCut(cut)
           /\ \/ Inked(cut) = {} /\ UNCHANGED pieces
              \/ \E a, b \in Inked(cut) :
                    /\ IsTrimmed(Piece(a, b), cut)
                    /\ pieces' = Append(pieces, Piece(a, b))
           /\ start' \in NextStarts(cut)
    BY <1>1 DEF CutPiece
  <2>2. start < cut /\ cut <= start + Limit /\ cut \in Nat
    BY <2>1, <1>0, CutInWindow
  <2>3. CASE Inked(cut) = {} /\ UNCHANGED pieces
    BY <2>1, <2>2, <2>3, <1>0, <1>1, SkipKeeps DEF CutPiece, RestFits
  <2>4. ASSUME NEW a \in Inked(cut), NEW b \in Inked(cut),
               IsTrimmed(Piece(a, b), cut), pieces' = Append(pieces, Piece(a, b))
        PROVE  SplitInv'
    <3>1. Piece(a, b).first = a /\ Piece(a, b).last = b
      BY DEF Piece
    <3>2. /\ a \in start + 1..cut /\ b \in start + 1..cut
          /\ \A q \in start + 1..cut : text[q] = "space" \/ q \in a..b
      BY <2>4, <3>1 DEF IsTrimmed, Inked, Within
    <3>3. /\ start' \in cut..Len(text)
          /\ \A q \in cut + 1..start' : text[q] = "space"
      BY <2>1 DEF NextStarts, SkipsSpaces
    <3>4. a <= b
      BY <2>4, <3>1, <3>2, <2>2, <1>0 DEF IsTrimmed, Within
    <3>5. \A q \in start + 1..start' : text[q] = "space" \/ q \in a..b
      BY <3>2, <3>3, <2>2, <1>0
    <3>6. a \in 1..Len(text) /\ b \in 1..Len(text) /\ start < a /\ b - a + 1 <= Limit
      BY <3>2, <3>3, <2>2, <1>0
    <3>7. start' \in b..Len(text)
      BY <3>2, <3>3, <2>2, <1>0
    <3>8. UNCHANGED <<text, done>> /\ ~done /\ done \in BOOLEAN
      BY <1>1 DEF CutPiece, SplitInv, TypeOK
    <3> QED  BY <2>4, <3>4, <3>5, <3>6, <3>7, <3>8, PieceKeeps
  <2> QED  BY <2>1, <2>3, <2>4
<1>2. CASE TakeRest
  <2>1. UNCHANGED text /\ start' = Len(text) /\ done' = TRUE /\ Len(text) - start <= Limit
    BY <1>2 DEF TakeRest, RestFits
  <2>2. CASE start < Len(text)
    <3>1. pieces' = Append(pieces, Piece(start + 1, Len(text)))
      BY <1>2, <2>2 DEF TakeRest, RestEnd
    <3> DEFINE a == start + 1
               b == Len(text)
    <3>2. /\ a \in 1..Len(text) /\ b \in 1..Len(text)
          /\ start < a /\ a <= b /\ b - a + 1 <= Limit
          /\ start' \in b..Len(text)
          /\ \A q \in start + 1..start' : text[q] = "space" \/ q \in a..b
      BY <2>1, <2>2, <1>0
    <3>3. pieces' = Append(pieces, Piece(a, b))
      BY <3>1
    <3> HIDE DEF a, b
    <3> QED  BY <2>1, <3>2, <3>3, PieceKeeps
  <2>3. CASE ~(start < Len(text))
    <3>1. UNCHANGED <<pieces, start>>
      BY <1>2, <2>3, <1>0 DEF TakeRest
    <3> QED
      BY <2>1, <3>1 DEF SplitInv, TypeOK, PiecesFit, InOrder, NothingLost, Within
  <2> QED  BY <2>2, <2>3
<1>3. CASE UNCHANGED vars
  BY <1>3 DEF vars, SplitInv, TypeOK, PiecesFit, InOrder, NothingLost, Within
<1> QED  BY <1>1, <1>2, <1>3 DEF Next

-----------------------------------------------------------------------------
\* Every reachable state of split_for_synthesis satisfies its invariant.
LEMMA SplitInvariant == Spec => []SplitInv
<1> QED  BY SplitInit, SplitStep, PTL DEF Spec

\* The variables have their types: the loop stays inside the text.
THEOREM SplitTypeOK == Spec => []TypeOK
<1>1. SplitInv => TypeOK
  BY DEF SplitInv
<1> QED  BY <1>1, SplitInvariant, PTL

\* No piece is empty or longer than soft_limit, whatever the text.
THEOREM PiecesAlwaysFit == Spec => []PiecesFit
<1>1. SplitInv => PiecesFit
  BY DEF SplitInv
<1> QED  BY <1>1, SplitInvariant, PTL

\* The pieces are in the order of the text and do not overlap.
THEOREM PiecesInOrder == Spec => []InOrder
<1>1. SplitInv => InOrder
  BY DEF SplitInv
<1> QED  BY <1>1, SplitInvariant, PTL

\* Every character that is not a space is in a piece once the loop has passed
\* it, and at the end it has passed them all.
THEOREM NothingIsLost == Spec => []NothingLost
<1>1. SplitInv => NothingLost
  BY DEF SplitInv
<1> QED  BY <1>1, SplitInvariant, PTL

-----------------------------------------------------------------------------
(* Where a word is cut in two.                                             *)

\* A piece with no space in it, or that ends after a clause mark.
LongToken(piece) ==
    \/ text[piece.last] = "clause"
    \/ \A q \in Within(piece) : text[q] # "space"

\* The last piece may still turn out to be half a word if the loop goes on at
\* its very end.
LastIsLong ==
    LET m == Len(pieces)
    IN  m > 0 /\ pieces[m].last = start /\ start < Len(text) => LongToken(pieces[m])

HalvesInv == OnlyLongTokensHalved /\ LastIsLong

\* A cut that comes neither after a clause mark nor before a space is one at
\* the end of the window, with no space there to cut at.
LEMMA CutWithinWord ==
    ASSUME SplitInv, NEW cut \in Nat, IsCut(cut), cut \in NextStarts(cut),
           cut < Len(text), text[cut] # "clause",
           NEW a \in Inked(cut), NEW q \in a..cut
    PROVE  text[q] # "space"
<1>1. Len(text) \in Nat /\ start \in Nat /\ Limit \in Nat /\ Limit > 0
  BY TextIsSequence, SplitAssumption DEF SplitInv, TypeOK
<1>2. text[cut + 1] # "space"
  BY DEF NextStarts
<1>3. cut \notin SentenceEnds
  BY <1>1, <1>2 DEF SentenceEnds, SentenceEnd
<1>4. cut \notin ClauseEnds
  BY DEF ClauseEnds
<1>5. cut \notin Spaces
  BY <1>2 DEF Spaces
<1>6. Spaces = {} /\ cut = WindowEnd
  BY <1>3, <1>4, <1>5 DEF IsCut, IsLast
<1>7. a \in start + 1..cut /\ text[a] # "space"
  BY DEF Inked
<1>8. CASE q = a
  BY <1>7, <1>8
<1>9. CASE q # a
  <2>1. q - 1 \in FirstSpaceOfUse..WindowEnd /\ q - 1 + 1 = q
    BY <1>1, <1>6, <1>7, <1>9 DEF FirstSpaceOfUse
  <2> QED  BY <1>6, <2>1 DEF Spaces
<1> QED  BY <1>8, <1>9

\* Another piece joins the others.
LEMMA PieceHalves ==
    ASSUME SplitInv, HalvesInv, UNCHANGED text,
           NEW a \in 1..Len(text), NEW b \in 1..Len(text), start < a,
           pieces' = Append(pieces, Piece(a, b)),
           b = start' /\ start' < Len(text) => LongToken(Piece(a, b))
    PROVE  HalvesInv'
<1> DEFINE m == Len(pieces)
<1>0. pieces \in Seq([first : 1..Len(text), last : 1..Len(text)])
  BY DEF SplitInv, TypeOK
<1>1. Len(text) \in Nat /\ start \in 0..Len(text)
  BY TextIsSequence DEF SplitInv, TypeOK
<1>2. /\ Piece(a, b) \in [first : 1..Len(text), last : 1..Len(text)]
      /\ Piece(a, b).first = a /\ Piece(a, b).last = b
  BY DEF Piece
<1>3. /\ m \in Nat
      /\ DOMAIN pieces = 1..m
      /\ DOMAIN pieces' = 1..m + 1 /\ Len(pieces') = m + 1
      /\ pieces'[m + 1] = Piece(a, b)
      /\ \A i \in 1..m : pieces'[i] = pieces[i]
  BY <1>0, <1>2
<1> HIDE DEF m
<1>4. \A piece : LongToken(piece)' <=> LongToken(piece)
  BY DEF LongToken, Within
<1>5. LastIsLong'
  BY <1>2, <1>3, <1>4 DEF LastIsLong
<1>6. ASSUME NEW i \in 1..m + 1, Halved(i)'
      PROVE  LongToken(pieces'[i])
  <2>1. i \in 1..m /\ i + 1 \in 1..m + 1 /\ pieces'[i] = pieces[i]
    BY <1>3, <1>6 DEF Halved
  <2>2. CASE i = m
    <3>1. pieces[m].last \in 1..Len(text) /\ pieces[m].last <= start
      BY <1>0, <1>1, <1>3, <2>1, <2>2, PieceInText DEF SplitInv, InOrder
    <3>2. a = pieces[m].last + 1
      BY <1>2, <1>3, <1>6, <2>1, <2>2 DEF Halved
    <3>3. pieces[m].last = start /\ start < Len(text)
      BY <1>1, <3>1, <3>2
    <3>4. LongToken(pieces[m])
      BY <1>3, <2>1, <2>2, <3>3 DEF HalvesInv, LastIsLong, m
    <3> QED  BY <2>1, <2>2, <3>4
  <2>3. CASE i # m
    <3>1. i + 1 \in 1..m /\ pieces'[i + 1] = pieces[i + 1]
      BY <1>3, <2>1, <2>3
    <3>2. Halved(i)
      BY <1>3, <1>6, <2>1, <3>1 DEF Halved
    <3> QED
      BY <1>3, <2>1, <3>2 DEF HalvesInv, OnlyLongTokensHalved, LongToken
  <2> QED  BY <2>2, <2>3
<1>7. OnlyLongTokensHalved'
  BY <1>3, <1>6 DEF OnlyLongTokensHalved, LongToken, Within
<1> QED  BY <1>5, <1>7 DEF HalvesInv

LEMMA HalvesStep == SplitInv /\ HalvesInv /\ [Next]_vars => HalvesInv'
<1> SUFFICES ASSUME SplitInv, HalvesInv, [Next]_vars PROVE HalvesInv'
  OBVIOUS
<1>0. Len(text) \in Nat /\ start \in 0..Len(text) /\ Limit \in Nat /\ Limit > 0
  BY TextIsSequence, SplitAssumption DEF SplitInv, TypeOK
<1>1. CASE CutPiece
  <2>1. PICK cut \in 0..WindowEnd :
           /\ IsCut(cut)
           /\ \/ Inked(cut) = {} /\ UNCHANGED pieces
              \/ \E a, b \in Inked(cut) :
                    /\ IsTrimmed(Piece(a, b), cut)
                    /\ pieces' = Append(pieces, Piece(a, b))
           /\ start' \in NextStarts(cut)
    BY <1>1 DEF CutPiece
  <2>2. start < cut /\ cut <= start + Limit /\ cut \in Nat
    BY <2>1, <1>0, CutInWindow
  <2>3. start' \in cut..Len(text) /\ UNCHANGED text
    BY <1>1, <2>1 DEF NextStarts, CutPiece
  <2>4. CASE UNCHANGED pieces
    <3>1. Len(pieces) > 0 => pieces[Len(pieces)].last # start'
      <4> SUFFICES ASSUME Len(pieces) > 0 PROVE pieces[Len(pieces)].last # start'
        OBVIOUS
      <4>1. Len(pieces) \in DOMAIN pieces
        BY DEF SplitInv, TypeOK
      <4>2. pieces[Len(pieces)].last \in 1..Len(text) /\ pieces[Len(pieces)].last <= start
        BY <4>1, <1>0, PieceInText DEF SplitInv, TypeOK, InOrder
      <4> QED  BY <4>2, <2>2, <2>3, <1>0
    <3> QED
      BY <2>3, <2>4, <3>1
         DEF HalvesInv, LastIsLong, OnlyLongTokensHalved, Halved, Within
  <2>5. ASSUME NEW a \in Inked(cut), NEW b \in Inked(cut),
               IsTrimmed(Piece(a, b), cut), pieces' = Append(pieces, Piece(a, b))
        PROVE  HalvesInv'
    <3>1. a \in start + 1..cut /\ b \in start + 1..cut
      BY DEF Inked
    <3>2. a \in 1..Len(text) /\ b \in 1..Len(text) /\ start < a
      BY <3>1, <2>2, <2>3, <1>0
    <3>3. ASSUME b = start', start' < Len(text)
          PROVE  LongToken(Piece(a, b))
      <4>1. b = cut /\ start' = cut /\ cut < Len(text)
        BY <3>1, <3>3, <2>2, <2>3, <1>0
      <4>2. text[cut] # "clause" => \A q \in a..cut : text[q] # "space"
        BY <4>1, <2>1, <2>2, CutWithinWord
      <4> QED  BY <4>1, <4>2 DEF LongToken, Within, Piece
    <3> QED  BY <2>3, <2>5, <3>2, <3>3, PieceHalves
  <2> QED  BY <2>1, <2>4, <2>5
<1>2. CASE TakeRest
  <2>1. UNCHANGED text /\ start' = Len(text)
    BY <1>2 DEF TakeRest
  <2>2. CASE start < Len(text)
    <3>1. pieces' = Append(pieces, Piece(start + 1, Len(text)))
      BY <1>2, <2>2 DEF TakeRest, RestEnd
    <3>2. start + 1 \in 1..Len(text) /\ Len(text) \in 1..Len(text) /\ start < start + 1
      BY <2>2, <1>0
    <3>3. ~(start' < Len(text))
      BY <2>1, <1>0
    <3> QED  BY <2>1, <3>1, <3>2, <3>3, PieceHalves
  <2>3. CASE ~(start < Len(text))
    <3>1. UNCHANGED <<pieces, start>>
      BY <1>2, <2>3, <1>0 DEF TakeRest
    <3> QED
      BY <2>1, <3>1
         DEF HalvesInv, LastIsLong, LongToken, OnlyLongTokensHalved, Halved, Within
  <2> QED  BY <2>2, <2>3
<1>3. CASE UNCHANGED vars
  BY <1>3 DEF vars, HalvesInv, LastIsLong, LongToken, OnlyLongTokensHalved, Halved, Within
<1> QED  BY <1>1, <1>2, <1>3 DEF Next

\* A word is cut in two only after a clause mark, or when the piece before
\* the cut has no space anywhere to cut at: for every limit and every text.
THEOREM OnlyLongTokensAreHalved == Spec => []OnlyLongTokensHalved
<1>1. Init => HalvesInv
  <2> SUFFICES ASSUME Init PROVE HalvesInv
    OBVIOUS
  <2>1. pieces = <<>>
    BY DEF Init
  <2> QED  BY <2>1 DEF HalvesInv, LastIsLong, OnlyLongTokensHalved
<1>2. HalvesInv => OnlyLongTokensHalved
  BY DEF HalvesInv
<1> QED  BY <1>1, <1>2, HalvesStep, SplitInvariant, PTL DEF Spec

\* Every turn of the loop gets on: it is over, or start is further into the
\* text than it was, so that there are at most as many turns as characters.
THEOREM EveryTurnGetsOn == Spec => [][done' \/ start' > start]_vars
<1>1. SplitInv /\ Next => (done' \/ start' > start)
  <2> SUFFICES ASSUME SplitInv, Next, ~done' PROVE start' > start
    OBVIOUS
  <2>1. CutPiece
    BY DEF Next, TakeRest
  <2>2. PICK cut \in 0..WindowEnd : IsCut(cut) /\ start' \in NextStarts(cut)
    BY <2>1 DEF CutPiece
  <2>3. Len(text) \in Nat /\ start \in 0..Len(text)
    BY TextIsSequence DEF SplitInv, TypeOK
  <2>4. start < cut /\ cut \in Nat
    BY <2>2, <2>3, CutInWindow
  <2> QED  BY <2>2, <2>3, <2>4 DEF NextStarts
<1> QED  BY <1>1, SplitInvariant, PTL DEF Spec

=============================================================================
