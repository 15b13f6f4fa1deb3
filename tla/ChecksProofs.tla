----------------------------- MODULE ChecksProofs -----------------------------
(* What the operations on single boxes and the checks of the decks and the   *)
(* repository promise, for any boxes, decks and trees.                       *)
EXTENDS ToolsProofs

LEMMA FunctionIsSeq == ASSUME NEW S, NEW n \in Nat, NEW f \in [1..n -> S] PROVE f \in Seq(S) /\ Len(f) = n
BY SeqDef, LenProperties

LEMMA SeqWider ==
  ASSUME NEW S, NEW T, S \subseteq T, NEW s \in Seq(S) PROVE s \in Seq(T)
<1>1. Len(s) \in Nat /\ s \in [1..Len(s) -> S]
  OBVIOUS
<1>2. s \in [1..Len(s) -> T]
  BY <1>1
<1>3. QED
  BY <1>1, <1>2, SeqDef

-------------------------------------------------------------------------------
(* The code box.                                                             *)
CodeRuns == [kind : {"code", "comment"}, rgb : CB!Palette]
CodeLines == Seq(CodeRuns)
CodeBoxes == Seq(Seq(CodeLines))

CodeBoxInv ==
  /\ box \in CodeBoxes
  /\ boxSize \in CodeSizes /\ height \in CodeHeights
  /\ CB!CodeFits

LEMMA CodeLinesTyped == ASSUME NEW b \in CodeBoxes PROVE CB!Lines(b) \in Seq(CodeLines)
BY FlatTyped DEF CodeBoxes, CB!Lines

LEMMA CodeHasText ==
  ASSUME NEW b \in CodeBoxes
  PROVE  CB!HasText(b) <=> \E i \in 1..Len(CB!Lines(b)) : CB!Lines(b)[i] # <<>>
<1>1. DOMAIN CB!Lines(b) = 1..Len(CB!Lines(b))
  BY CodeLinesTyped, LenProperties
<1>2. QED
  BY <1>1 DEF CB!HasText, CB!Range

(* Recolouring keeps the lines, and which of them are blank.                 *)
LEMMA CodeRecoloured ==
  ASSUME NEW b \in CodeBoxes, NEW code \in CB!Palette, NEW comment \in CB!Palette, NEW force
  PROVE  /\ CB!Recoloured(b, code, comment, force) \in CodeBoxes
         /\ Len(CB!Lines(CB!Recoloured(b, code, comment, force))) = Len(CB!Lines(b))
         /\ CB!HasText(CB!Recoloured(b, code, comment, force)) <=> CB!HasText(b)
<1> DEFINE Want(l, i) == IF \E j \in 1..i : l[j].kind = "comment" THEN comment ELSE code
           ours == {code, comment, CB!CODE_RGB, CB!COMMENT_RGB}
           Line(l) == [i \in DOMAIN l |-> IF l[i].rgb \in ours \/ force THEN [l[i] EXCEPT !.rgb = Want(l, i)] ELSE l[i]]
           r == CB!Recoloured(b, code, comment, force)
<1>1. r = [p \in DOMAIN b |-> [k \in DOMAIN b[p] |-> Line(b[p][k])]]
  BY DEF CB!Recoloured
<1>2. ASSUME NEW l \in CodeLines PROVE Line(l) \in CodeLines /\ Len(Line(l)) = Len(l) /\ DOMAIN Line(l) = 1..Len(l)
  <2>1. Len(l) \in Nat /\ DOMAIN l = 1..Len(l) /\ \A i \in 1..Len(l) : l[i] \in CodeRuns
    BY LenProperties DEF CodeLines
  <2>2. \A i \in 1..Len(l) : Want(l, i) \in CB!Palette
    OBVIOUS
  <2> HIDE DEF Want, ours
  <2>3. Line(l) \in [1..Len(l) -> CodeRuns]
    BY <2>1, <2>2 DEF CodeRuns
  <2> HIDE DEF Line
  <2>4. QED
    BY <2>1, <2>3, SeqDef, LenProperties DEF CodeLines
<1> HIDE DEF Line, r
<1>3. Len(b) \in Nat /\ DOMAIN b = 1..Len(b) /\ \A p \in 1..Len(b) : b[p] \in Seq(CodeLines)
  BY LenProperties DEF CodeBoxes
<1>4. \A p \in 1..Len(b) : /\ Len(b[p]) \in Nat /\ DOMAIN b[p] = 1..Len(b[p])
                           /\ \A k \in 1..Len(b[p]) : b[p][k] \in CodeLines
  BY <1>3, LenProperties
<1>5. ASSUME NEW p \in 1..Len(b)
      PROVE  r[p] \in Seq(CodeLines) /\ Len(r[p]) = Len(b[p]) /\ \A k \in 1..Len(b[p]) : r[p][k] = Line(b[p][k])
  <2>1. r[p] = [k \in 1..Len(b[p]) |-> Line(b[p][k])]
    BY <1>1, <1>3, <1>4
  <2>2. r[p] \in [1..Len(b[p]) -> CodeLines]
    BY <1>2, <1>4, <2>1
  <2>3. Len(b[p]) \in Nat
    BY <1>4
  <2>4. QED
    BY <2>1, <2>2, <2>3, SeqDef, LenProperties
<1>6. r \in Seq(Seq(CodeLines)) /\ Len(r) = Len(b)
  <2>1. r \in [1..Len(b) -> Seq(CodeLines)]
    BY <1>1, <1>3, <1>5
  <2>2. QED
    BY <1>3, <2>1, SeqDef, LenProperties
<1> DEFINE R == {x \in CodeLines \X CodeLines : Len(x[1]) = Len(x[2])}
<1>7. \A p \in 1..Len(b) : Len(b[p]) = Len(r[p]) /\ \A k \in 1..Len(b[p]) : <<b[p][k], r[p][k]>> \in R
  BY <1>2, <1>4, <1>5
<1>8. /\ Len(CB!FlattenSeq(b)) = Len(CB!FlattenSeq(r))
      /\ \A i \in 1..Len(CB!FlattenSeq(b)) : <<CB!FlattenSeq(b)[i], CB!FlattenSeq(r)[i]>> \in R
  <2> HIDE DEF R
  <2>1. b \in Seq(Seq(CodeLines))
    BY DEF CodeBoxes
  <2>2. QED
    BY <1>6, <1>7, <2>1, FlatAlike
<1>9. r \in CodeBoxes
  BY <1>6 DEF CodeBoxes
<1>10. \A i \in 1..Len(CB!Lines(b)) : CB!Lines(b)[i] = <<>> <=> CB!Lines(r)[i] = <<>>
  <2>1. ASSUME NEW l \in CodeLines, NEW m \in CodeLines, Len(l) = Len(m) PROVE l = <<>> <=> m = <<>>
    BY <2>1, EmptySeq DEF CodeLines
  <2>2. QED
    <3>1. SUFFICES ASSUME NEW i \in 1..Len(CB!Lines(b)) PROVE CB!Lines(b)[i] = <<>> <=> CB!Lines(r)[i] = <<>>
      OBVIOUS
    <3>2. <<CB!Lines(b)[i], CB!Lines(r)[i]>> \in R
      BY <1>8, <3>1 DEF CB!Lines
    <3>3. CB!Lines(b)[i] \in CodeLines /\ CB!Lines(r)[i] \in CodeLines /\ Len(CB!Lines(b)[i]) = Len(CB!Lines(r)[i])
      BY <3>2
    <3>4. QED
      BY <2>1, <3>3
<1>11. CB!HasText(r) <=> CB!HasText(b)
  <2>1. Len(CB!Lines(b)) = Len(CB!Lines(r))
    BY <1>8 DEF CB!Lines
  <2>2. QED
    BY <1>9, <1>10, <2>1, CodeHasText
<1>12. QED
  BY <1>8, <1>9, <1>11 DEF r, CB!Lines

LEMMA CodeColours == {CB!CODE_RGB, CB!COMMENT_RGB, CB!OTHER_RGB} \subseteq CB!Palette
BY DEF CB!Palette

LEMMA CodeBoxInitially == CB!Init => CodeBoxInv
<1> SUFFICES ASSUME CB!Init PROVE CodeBoxInv
  OBVIOUS
<1>1. PICK l \in CB!SomeLines, m \in CB!SomeLines : box \in {<<<<l>>, <<m>>>>, <<<<l, m>>>>}
  BY DEF CB!Init
<1>2. \A n \in CB!SomeLines : n \in CodeLines
  <2>1. \A k \in {"code", "comment"}, c \in CB!Palette : CB!Run(k, c) \in CodeRuns
    BY DEF CB!Run, CodeRuns
  <2>2. \A r \in CodeRuns : <<r>> \in CodeLines
    BY DEF CodeLines
  <2>3. \A r, s \in CodeRuns : <<r, s>> \in CodeLines
    BY DEF CodeLines
  <2>4. <<>> \in CodeLines
    BY DEF CodeLines
  <2>5. QED
    BY <2>1, <2>2, <2>3, <2>4, CodeColours DEF CB!SomeLines
<1>3. l \in CodeLines /\ m \in CodeLines
  BY <1>1, <1>2
<1>4. box \in CodeBoxes
  <2>1. <<l>> \in Seq(CodeLines) /\ <<m>> \in Seq(CodeLines) /\ <<l, m>> \in Seq(CodeLines)
    BY <1>3
  <2> DEFINE L == Seq(CodeLines)
             u == <<l>>
             v == <<m>>
             w == <<l, m>>
  <2>2. u \in L /\ v \in L /\ w \in L /\ box \in {<<u, v>>, <<w>>}
    BY <1>1, <2>1
  <2> HIDE DEF L, u, v, w
  <2>3. box \in Seq(L)
    <3>1. <<u, v>> \in Seq(L)
      BY <2>2
    <3>2. <<w>> \in Seq(L)
      BY <2>2
    <3>3. QED
      BY <2>2, <3>1, <3>2
  <2>4. QED
    BY <2>3 DEF L, CodeBoxes
<1>5. boxSize \in CodeSizes /\ height \in CodeHeights /\ boxChecked = FALSE
  BY DEF CB!Init
<1>6. QED
  BY <1>4, <1>5 DEF CodeBoxInv, CB!CodeFits

LEMMA CodeRecolours ==
  ASSUME CodeBoxInv, NEW code \in CB!Palette, NEW comment \in CB!Palette, NEW force \in BOOLEAN,
         CB!RecolourCode(code, comment, force)
  PROVE  CodeBoxInv'
<1> DEFINE r == CB!Recoloured(box, code, comment, force)
<1>1. box' = r /\ boxSize' = boxSize /\ height' = height /\ boxChecked' = boxChecked
  BY DEF CB!RecolourCode, CB!Edit
<1>2. box \in CodeBoxes
  BY DEF CodeBoxInv
<1>3. r \in CodeBoxes /\ Len(CB!Lines(r)) = Len(CB!Lines(box)) /\ (CB!HasText(r) <=> CB!HasText(box))
  BY <1>2, CodeRecoloured
<1> HIDE DEF r
<1>4. CB!CodeFits'
  BY <1>1, <1>3 DEF CodeBoxInv, CB!CodeFits
<1>5. QED
  BY <1>1, <1>3, <1>4 DEF CodeBoxInv

(* The first line of a kind, if there is one.                                *)
LEMMA CodeFirstLine ==
  ASSUME NEW ls \in Seq(CodeLines)
  PROVE  /\ CB!SelectInSeq(ls, CB!IsCode) # 0 =>
              CB!SelectInSeq(ls, CB!IsCode) \in 1..Len(ls) /\ CB!IsCode(ls[CB!SelectInSeq(ls, CB!IsCode)])
         /\ CB!SelectInSeq(ls, CB!IsComment) # 0 =>
              CB!SelectInSeq(ls, CB!IsComment) \in 1..Len(ls) /\ CB!IsComment(ls[CB!SelectInSeq(ls, CB!IsComment)])
<1> DEFINE I == {i \in 1..Len(ls) : CB!IsCode(ls[i])}
           J == {i \in 1..Len(ls) : CB!IsComment(ls[i])}
<1>1. CB!SelectInSeq(ls, CB!IsCode) = IF I # {} THEN CB!Min(I) ELSE 0
  BY DEF CB!SelectInSeq
<1>2. CB!SelectInSeq(ls, CB!IsComment) = IF J # {} THEN CB!Min(J) ELSE 0
  BY DEF CB!SelectInSeq
<1>3. ASSUME NEW T \in SUBSET (1..Len(ls)), T # {} PROVE CB!Min(T) \in T
  <2>1. T \in SUBSET Nat
    OBVIOUS
  <2>2. \E m \in T : \A k \in T : m <= k
    BY <1>3, <2>1, Least
  <2>3. QED
    BY <2>2 DEF CB!Min
<1>4. CB!SelectInSeq(ls, CB!IsCode) # 0 => CB!SelectInSeq(ls, CB!IsCode) \in I
  <2>1. I \in SUBSET (1..Len(ls))
    OBVIOUS
  <2> HIDE DEF I
  <2>2. QED
    BY <1>1, <1>3, <2>1
<1>5. CB!SelectInSeq(ls, CB!IsComment) # 0 => CB!SelectInSeq(ls, CB!IsComment) \in J
  <2>1. J \in SUBSET (1..Len(ls))
    OBVIOUS
  <2> HIDE DEF J
  <2>2. QED
    BY <1>2, <1>3, <2>1
<1>6. QED
  BY <1>4, <1>5

LEMMA CodeRunTyped == ASSUME NEW l \in CodeLines, l # <<>> PROVE l[1] \in CodeRuns
BY DEF CodeLines

(* The colours that set_code gives are those of the first lines of a kind.   *)
CodeRgb(code_l) == IF code_l[1].rgb # CB!COMMENT_RGB THEN code_l[1].rgb ELSE CB!CODE_RGB
CodeNewLine(k, code_l, comment_l) ==
  IF k = "blank" THEN <<>> ELSE <<CB!Run(k, (IF k = "comment" THEN comment_l ELSE code_l)[1].rgb)>>
CodePlain(kinds, code_l, comment_l) ==
  LET new == [i \in DOMAIN kinds |-> CodeNewLine(kinds[i], code_l, comment_l)]
  IN  IF \E p \in DOMAIN box : Len(box[p]) > 1 THEN <<new>> ELSE [i \in DOMAIN new |-> <<new[i]>>]

CodeSetsFrom(kinds, colour, code_l, comment_l) ==
  /\ code_l # <<>> /\ comment_l # <<>> /\ (CB!IsComment(comment_l) \/ comment_l = code_l)
  /\ CB!IsCode(code_l) \/ CB!IsComment(code_l)
  /\ box' = IF colour
            THEN CB!Recoloured(CodePlain(kinds, code_l, comment_l), CodeRgb(code_l),
                               CB!CommentRgb(CodeRgb(code_l), comment_l, code_l), FALSE)
            ELSE CodePlain(kinds, code_l, comment_l)

LEMMA CodeSetLines ==
  ASSUME NEW X \in SUBSET CodeLines, box \in Seq(Seq(X)),
         NEW kinds, NEW pt, NEW colour \in BOOLEAN, CB!SetCode(kinds, pt, colour)
  PROVE  \E code_l \in X : \E comment_l \in X : CodeSetsFrom(kinds, colour, code_l, comment_l)
<1> DEFINE ls == CB!Lines(box)
           c == CB!SelectInSeq(ls, CB!IsCode)
           m == CB!SelectInSeq(ls, CB!IsComment)
           code_l == IF c # 0 THEN CB!LineAt(c) ELSE CB!LineAt(m)
           comment_l == IF m # 0 THEN CB!LineAt(m) ELSE code_l
<1>1. c + m # 0
  BY DEF CB!SetCode
<1>2. box' = IF colour
             THEN CB!Recoloured(CodePlain(kinds, code_l, comment_l), CodeRgb(code_l),
                                CB!CommentRgb(CodeRgb(code_l), comment_l, code_l), FALSE)
             ELSE CodePlain(kinds, code_l, comment_l)
  BY DEF CB!SetCode, CB!Edit, CodePlain, CodeNewLine, CodeRgb
<1>3. ls \in Seq(X) /\ ls \in Seq(CodeLines)
  <2>1. ls \in Seq(X)
    BY FlatTyped DEF CB!Lines
  <2>2. QED
    BY <2>1, SeqWider
<1>4. c # 0 => CB!LineAt(c) \in X /\ CB!LineAt(c) # <<>> /\ CB!IsCode(CB!LineAt(c))
  <2>1. c # 0 => c \in 1..Len(ls) /\ CB!IsCode(ls[c])
    BY <1>3, CodeFirstLine
  <2> HIDE DEF c
  <2>2. QED
    BY <1>3, <2>1 DEF CB!LineAt, CB!IsCode
<1>5. m # 0 => CB!LineAt(m) \in X /\ CB!LineAt(m) # <<>> /\ CB!IsComment(CB!LineAt(m))
  <2>1. m # 0 => m \in 1..Len(ls) /\ CB!IsComment(ls[m])
    BY <1>3, CodeFirstLine
  <2> HIDE DEF m
  <2>2. QED
    BY <1>3, <2>1 DEF CB!LineAt, CB!IsComment
<1> HIDE DEF ls, c, m
<1>6. c # 0 \/ m # 0
  BY <1>1
<1>7. /\ code_l \in X /\ code_l # <<>> /\ comment_l \in X /\ comment_l # <<>>
      /\ CB!IsComment(comment_l) \/ comment_l = code_l
      /\ CB!IsCode(code_l) \/ CB!IsComment(code_l)
  BY <1>4, <1>5, <1>6
<1> HIDE DEF code_l, comment_l
<1>8. QED
  BY <1>2, <1>7 DEF CodeSetsFrom

(* What the box becomes, before it is coloured, has a line for each kind.    *)
LEMMA CodePlainTyped ==
  ASSUME NEW X, NEW kinds \in Seq({"code", "comment", "blank"}), NEW code_l, NEW comment_l,
         \A k \in {"code", "comment", "blank"} : CodeNewLine(k, code_l, comment_l) \in X
  PROVE  /\ CodePlain(kinds, code_l, comment_l) \in Seq(Seq(X))
         /\ Len(CB!Lines(CodePlain(kinds, code_l, comment_l))) = Len(kinds)
<1> DEFINE Line(k) == CodeNewLine(k, code_l, comment_l)
           new == [i \in DOMAIN kinds |-> Line(kinds[i])]
           plain == CodePlain(kinds, code_l, comment_l)
<1>1. Len(kinds) \in Nat /\ DOMAIN kinds = 1..Len(kinds) /\ \A i \in 1..Len(kinds) : Line(kinds[i]) \in X
  BY LenProperties
<1>2. plain = <<new>> \/ plain = [i \in DOMAIN new |-> <<new[i]>>]
  BY DEF CodePlain
<1> HIDE DEF Line, plain
<1>3. new \in Seq(X) /\ Len(new) = Len(kinds) /\ DOMAIN new = 1..Len(kinds)
  <2>1. new \in [1..Len(kinds) -> X]
    BY <1>1
  <2> HIDE DEF new
  <2>2. QED
    BY <1>1, <2>1, SeqDef, LenProperties
<1> HIDE DEF new
<1> DEFINE L == Seq(X)
<1>4. CASE plain = <<new>>
  <2>1. CB!FlattenSeq(<<new>>) = new
    BY <1>3, FlatSingle
  <2>2. new \in L
    BY <1>3
  <2> HIDE DEF L
  <2>3. <<new>> \in Seq(L)
    BY <2>2
  <2>4. QED
    BY <1>3, <1>4, <2>1, <2>3 DEF CB!Lines, L, plain
<1>5. CASE plain = [i \in DOMAIN new |-> <<new[i]>>]
  <2>1. \A i \in 1..Len(kinds) : new[i] \in X
    BY <1>3
  <2>2. \A i \in 1..Len(kinds) : <<new[i]>> \in L /\ Len(<<new[i]>>) = 1
    BY <2>1
  <2>3. plain \in [1..Len(kinds) -> L] /\ \A i \in 1..Len(kinds) : plain[i] = <<new[i]>>
    BY <1>3, <1>5, <2>2
  <2> HIDE DEF L
  <2>4. plain \in Seq(L) /\ Len(plain) = Len(kinds)
    BY <1>1, <2>3, SeqDef, LenProperties
  <2>5. \A i \in 1..Len(plain) : Len(plain[i]) = 1
    BY <2>2, <2>3, <2>4
  <2>6. Len(CB!FlattenSeq(plain)) = Len(plain)
    BY <2>4, <2>5, FlatOnes DEF L
  <2>7. QED
    BY <2>4, <2>6 DEF CB!Lines, L, plain
<1>6. QED
  BY <1>2, <1>4, <1>5

LEMMA CodeKinds ==
  ASSUME NEW kinds \in CB!BoundedSeq({"code", "comment", "blank"}, MaxCodeLines)
  PROVE  kinds \in Seq({"code", "comment", "blank"})
<1>1. kinds \in UNION {[1..n -> {"code", "comment", "blank"}] : n \in 0..MaxCodeLines}
  BY DEF CB!BoundedSeq, CB!SeqOf
<1>2. QED
  BY <1>1, SeqDef, CodeBoxAssumption

LEMMA CodeSetColours ==
  ASSUME NEW code_l \in CodeLines, NEW comment_l \in CodeLines, code_l # <<>>, comment_l # <<>>
  PROVE  /\ code_l[1] \in CodeRuns /\ comment_l[1] \in CodeRuns
         /\ CodeRgb(code_l) \in CB!Palette /\ CB!CommentRgb(CodeRgb(code_l), comment_l, code_l) \in CB!Palette
         /\ \A k \in {"code", "comment"} :
              \E rgb \in {code_l[1].rgb, comment_l[1].rgb} :
                rgb \in CB!Palette /\ CodeNewLine(k, code_l, comment_l) = <<[kind |-> k, rgb |-> rgb]>>
         /\ CodeNewLine("blank", code_l, comment_l) = <<>>
<1>1. code_l[1] \in CodeRuns /\ comment_l[1] \in CodeRuns
  BY CodeRunTyped
<1>2. CodeRgb(code_l) \in CB!Palette
  BY <1>1, CodeColours DEF CodeRuns, CodeRgb
<1>3. CB!CommentRgb(CodeRgb(code_l), comment_l, code_l) \in CB!Palette
  BY <1>1, CodeColours DEF CodeRuns, CB!CommentRgb
<1>4. ASSUME NEW k \in {"code", "comment"}
      PROVE  \E rgb \in {code_l[1].rgb, comment_l[1].rgb} :
               rgb \in CB!Palette /\ CodeNewLine(k, code_l, comment_l) = <<[kind |-> k, rgb |-> rgb]>>
  <2> DEFINE x == (IF k = "comment" THEN comment_l ELSE code_l)[1].rgb
  <2>1. x \in {code_l[1].rgb, comment_l[1].rgb} /\ x \in CB!Palette
    BY <1>1 DEF CodeRuns
  <2>2. CodeNewLine(k, code_l, comment_l) = <<[kind |-> k, rgb |-> x]>>
    BY DEF CodeNewLine, CB!Run
  <2> HIDE DEF x
  <2>3. QED
    BY <2>1, <2>2
<1>5. QED
  BY <1>1, <1>2, <1>3, <1>4 DEF CodeNewLine

LEMMA CodeSets ==
  ASSUME CodeBoxInv, NEW kinds \in CB!BoundedSeq({"code", "comment", "blank"}, MaxCodeLines), NEW pt \in CodeSizes,
         NEW colour \in BOOLEAN, CB!SetCode(kinds, pt, colour)
  PROVE  CodeBoxInv'
<1>1. box \in Seq(Seq(CodeLines))
  BY DEF CodeBoxInv, CodeBoxes
<1>2. PICK code_l \in CodeLines, comment_l \in CodeLines : CodeSetsFrom(kinds, colour, code_l, comment_l)
  <2>1. CodeLines \in SUBSET CodeLines
    OBVIOUS
  <2>2. QED
    BY <1>1, <2>1, CodeSetLines
<1> DEFINE plain == CodePlain(kinds, code_l, comment_l)
           code_rgb == CodeRgb(code_l)
           comment_rgb == CB!CommentRgb(code_rgb, comment_l, code_l)
<1>3. /\ code_l # <<>> /\ comment_l # <<>>
      /\ box' = IF colour THEN CB!Recoloured(plain, code_rgb, comment_rgb, FALSE) ELSE plain
  BY <1>2 DEF CodeSetsFrom
<1>4. Len(kinds) <= CB!Capacity(height, pt) /\ boxSize' = pt /\ height' = height
  BY DEF CB!SetCode
<1>5. \A k \in {"code", "comment", "blank"} : CodeNewLine(k, code_l, comment_l) \in CodeLines
  <2>1. ASSUME NEW k \in {"code", "comment"}, NEW rgb \in CB!Palette PROVE <<[kind |-> k, rgb |-> rgb]>> \in CodeLines
    <3> DEFINE run == [kind |-> k, rgb |-> rgb]
    <3>1. run \in CodeRuns
      BY DEF CodeRuns
    <3> HIDE DEF run
    <3>2. QED
      BY <3>1 DEF CodeLines, run
  <2>2. <<>> \in CodeLines
    BY DEF CodeLines
  <2>3. ASSUME NEW k \in {"code", "comment"} PROVE CodeNewLine(k, code_l, comment_l) \in CodeLines
    <3>1. \E rgb \in {code_l[1].rgb, comment_l[1].rgb} :
            rgb \in CB!Palette /\ CodeNewLine(k, code_l, comment_l) = <<[kind |-> k, rgb |-> rgb]>>
      BY <1>3, CodeSetColours
    <3>2. QED
      BY <2>1, <3>1
  <2>4. CodeNewLine("blank", code_l, comment_l) \in CodeLines
    BY <1>3, <2>2, CodeSetColours
  <2>5. QED
    BY <2>3, <2>4
<1>6. plain \in CodeBoxes /\ Len(CB!Lines(plain)) = Len(kinds)
  BY <1>5, CodeKinds, CodePlainTyped DEF CodeBoxes
<1>7. code_rgb \in CB!Palette /\ comment_rgb \in CB!Palette
  BY <1>3, CodeSetColours
<1> HIDE DEF plain, code_rgb, comment_rgb
<1>8. box' \in CodeBoxes /\ Len(CB!Lines(box')) = Len(kinds)
  <2>1. /\ CB!Recoloured(plain, code_rgb, comment_rgb, FALSE) \in CodeBoxes
        /\ Len(CB!Lines(CB!Recoloured(plain, code_rgb, comment_rgb, FALSE))) = Len(CB!Lines(plain))
    BY <1>6, <1>7, CodeRecoloured
  <2>2. QED
    BY <1>3, <1>6, <2>1
<1>9. CB!CodeFits'
  BY <1>4, <1>8 DEF CB!CodeFits
<1>10. QED
  BY <1>4, <1>8, <1>9 DEF CodeBoxInv

(* A cut leaves lines of the box and ellipses.                               *)
LEMMA CodeCutTyped ==
  ASSUME NEW X, box \in Seq(Seq(X)), <<CB!Run("comment", CB!COMMENT_RGB)>> \in X, NEW cuts, NEW pt, CB!CutCode(cuts, pt)
  PROVE  /\ box' \in Seq(Seq(X))
         /\ CB!HasText(box') => Len(CB!Lines(box')) <= CB!Capacity(height, pt)
         /\ boxSize' = pt /\ height' = height /\ coloured' = coloured
         /\ boxChecked' = (boxChecked \/ CB!HasText(box'))
<1> DEFINE ellipsis == <<CB!Run("comment", CB!COMMENT_RGB)>>
           Cut(i, l) == (IF \E c \in cuts : c.from = i /\ c.ellipsis THEN <<ellipsis>> ELSE <<>>)
                        \o (IF CB!Removed(i, cuts) THEN <<>> ELSE <<l>>)
           Lines(p) == [k \in DOMAIN box[p] |-> Cut(CB!Offset(box, p) + k, box[p][k])]
           Paragraph(p) == CB!FlattenSeq(Lines(p))
           Whole(p) == IF Paragraph(p) = <<>> THEN <<>> ELSE <<Paragraph(p)>>
           all == [p \in DOMAIN box |-> Whole(p)]
           new == CB!FlattenSeq(all)
<1>1. /\ CB!HasText(new) => Len(CB!Lines(new)) <= CB!Capacity(height, pt)
      /\ box' = new /\ boxSize' = pt /\ height' = height /\ coloured' = coloured
      /\ boxChecked' = (boxChecked \/ CB!HasText(new))
  BY DEF CB!CutCode, CB!Edit
<1>2. Len(box) \in Nat /\ DOMAIN box = 1..Len(box) /\ \A p \in 1..Len(box) : box[p] \in Seq(X)
  BY LenProperties
<1>3. ellipsis \in X
  OBVIOUS
<1> HIDE DEF ellipsis
<1>4. \A i, l : l \in X => Cut(i, l) \in Seq(X)
  BY <1>3
<1> HIDE DEF Cut
<1>5. ASSUME NEW p \in 1..Len(box) PROVE Paragraph(p) \in Seq(X)
  <2>1. Len(box[p]) \in Nat /\ DOMAIN box[p] = 1..Len(box[p]) /\ \A k \in 1..Len(box[p]) : box[p][k] \in X
    BY <1>2, LenProperties
  <2>2. Lines(p) \in [1..Len(box[p]) -> Seq(X)]
    BY <1>4, <2>1
  <2> HIDE DEF Lines
  <2>3. Lines(p) \in Seq(Seq(X))
    BY <2>1, <2>2, FunctionIsSeq
  <2>4. QED
    BY <2>3, FlatTyped
<1> HIDE DEF Paragraph
<1>6. \A p \in 1..Len(box) : Whole(p) \in Seq(Seq(X))
  BY <1>5
<1> HIDE DEF Whole
<1>7. all \in Seq(Seq(Seq(X)))
  <2>1. all \in [1..Len(box) -> Seq(Seq(X))]
    BY <1>2, <1>6
  <2> HIDE DEF all
  <2>2. QED
    BY <1>2, <2>1, FunctionIsSeq
<1> HIDE DEF all
<1>8. new \in Seq(Seq(X))
  BY <1>7, FlatTyped
<1> HIDE DEF new
<1>9. QED
  BY <1>1, <1>8

LEMMA CodeEllipsis == CB!Run("comment", CB!COMMENT_RGB) \in CodeRuns /\ <<CB!Run("comment", CB!COMMENT_RGB)>> \in CodeLines
<1>1. CB!Run("comment", CB!COMMENT_RGB) \in CodeRuns
  BY CodeColours DEF CodeRuns, CB!Run
<1>2. QED
  BY <1>1 DEF CodeLines

LEMMA CodeCuts ==
  ASSUME CodeBoxInv, NEW cuts, NEW pt \in CodeSizes, CB!CutCode(cuts, pt)
  PROVE  CodeBoxInv'
<1>1. box \in Seq(Seq(CodeLines))
  BY DEF CodeBoxInv, CodeBoxes
<1>2. /\ box' \in Seq(Seq(CodeLines))
      /\ CB!HasText(box') => Len(CB!Lines(box')) <= CB!Capacity(height, pt)
      /\ boxSize' = pt /\ height' = height
  BY <1>1, CodeEllipsis, CodeCutTyped
<1>3. CB!CodeFits'
  BY <1>2 DEF CB!CodeFits
<1>4. QED
  BY <1>2, <1>3 DEF CodeBoxInv, CodeBoxes

LEMMA CodeBoxSteps == CodeBoxInv /\ [CB!Next]_codebox => CodeBoxInv'
<1> SUFFICES ASSUME CodeBoxInv, [CB!Next]_codebox PROVE CodeBoxInv'
  OBVIOUS
<1>1. CASE UNCHANGED codebox
  BY <1>1 DEF codebox, CodeBoxInv, CB!CodeFits
<1>2. ASSUME NEW p \in {<<CB!CODE_RGB, CB!COMMENT_RGB>>, <<CB!OTHER_RGB, CB!COMMENT_RGB>>}, NEW f \in BOOLEAN,
             CB!RecolourCode(p[1], p[2], f)
      PROVE CodeBoxInv'
  <2>1. p[1] \in CB!Palette /\ p[2] \in CB!Palette
    BY CodeColours
  <2>2. QED
    BY <1>2, <2>1, CodeRecolours
<1>3. ASSUME NEW cuts, NEW pt \in CodeSizes, CB!CutCode(cuts, pt) PROVE CodeBoxInv'
  BY <1>3, CodeCuts
<1>4. ASSUME NEW pt \in CodeSizes, CB!FitFont(pt) PROVE CodeBoxInv'
  BY <1>4 DEF CB!FitFont, CB!Edit, CodeBoxInv, CB!CodeFits
<1>5. ASSUME NEW h \in CodeHeights, CB!ResizeShape(h) PROVE CodeBoxInv'
  BY <1>5 DEF CB!ResizeShape, CB!Edit, CodeBoxInv, CB!CodeFits
<1>6. boxSize \in CodeSizes
  BY DEF CodeBoxInv
<1>7. QED
  BY <1>1, <1>2, <1>3, <1>4, <1>5, <1>6, CodeSets DEF CB!Next

(* A code box that the tool has checked holds its lines, whatever the edits. *)
THEOREM CodeBoxInvariance == Spec => []CodeBoxInv
BY Behaviours, CodeBoxInitially, CodeBoxSteps, PTL DEF Spec

-------------------------------------------------------------------------------
(* The colours of the box: what follows the first run of a line is comment,  *)
(* and once coloured by line type there are colours that its comments have   *)
(* and its code has not.                                                     *)
CodeInComment(l, i) == \E j \in 1..i : l[j].kind = "comment"
CodeShaped == {l \in CodeLines : \A i \in 2..Len(l) : l[i].kind = "comment"}
CodeApart(T) == {l \in CodeShaped : \A i \in 1..Len(l) : CodeInComment(l, i) <=> l[i].rgb \in T}

CodeColourInv ==
  /\ box \in Seq(Seq(CodeShaped))
  /\ coloured => \E T \in SUBSET CB!Palette : CB!COMMENT_RGB \in T /\ box \in Seq(Seq(CodeApart(T)))

LEMMA CodeShapedLine ==
  ASSUME NEW l \in CodeShaped
  PROVE  /\ l \in CodeLines /\ Len(l) \in Nat /\ DOMAIN l = 1..Len(l) /\ \A i \in 1..Len(l) : l[i] \in CodeRuns
         /\ \A i \in 1..Len(l) : i # 1 => l[i].kind = "comment"
<1>1. l \in CodeLines /\ \A i \in 2..Len(l) : l[i].kind = "comment"
  BY DEF CodeShaped
<1>2. Len(l) \in Nat /\ DOMAIN l = 1..Len(l) /\ \A i \in 1..Len(l) : l[i] \in CodeRuns
  BY <1>1, LenProperties DEF CodeLines
<1>3. ASSUME NEW i \in 1..Len(l), i # 1 PROVE l[i].kind = "comment"
  BY <1>1, <1>2, <1>3
<1>4. QED
  BY <1>1, <1>2, <1>3

LEMMA CodeSingle ==
  ASSUME NEW k \in {"code", "comment"}, NEW rgb \in CB!Palette
  PROVE  /\ <<[kind |-> k, rgb |-> rgb]>> \in CodeShaped
         /\ \A i \in 1..1 : CodeInComment(<<[kind |-> k, rgb |-> rgb]>>, i) <=> k = "comment"
<1> DEFINE r == [kind |-> k, rgb |-> rgb]
           l == <<r>>
<1>1. r \in CodeRuns /\ r.kind = k
  BY DEF CodeRuns
<1> HIDE DEF r
<1>2. l \in Seq(CodeRuns) /\ Len(l) = 1 /\ l[1] = r
  BY <1>1
<1> HIDE DEF l
<1>3. l \in CodeShaped
  <2>1. \A i \in 2..Len(l) : l[i].kind = "comment"
    <3>1. 2..Len(l) = {}
      BY <1>2
    <3>2. QED
      BY <3>1
  <2>2. QED
    BY <1>2, <2>1 DEF CodeShaped, CodeLines
<1>4. \A i \in 1..1 : CodeInComment(l, i) <=> k = "comment"
  BY <1>1, <1>2 DEF CodeInComment
<1>5. QED
  BY <1>3, <1>4 DEF l, r

LEMMA CodeBlank == <<>> \in CodeShaped /\ \A T : <<>> \in CodeApart(T)
<1>1. <<>> \in CodeLines /\ Len(<<>>) = 0
  BY DEF CodeLines
<1>2. <<>> \in CodeShaped
  BY <1>1 DEF CodeShaped
<1>3. QED
  BY <1>1, <1>2 DEF CodeApart

(* recolour_box() line by line.                                              *)
CodeRecolour(l, code, comment, force) ==
  [i \in DOMAIN l |->
     IF l[i].rgb \in {code, comment, CB!CODE_RGB, CB!COMMENT_RGB} \/ force
     THEN [l[i] EXCEPT !.rgb = IF CodeInComment(l, i) THEN comment ELSE code] ELSE l[i]]

LEMMA CodeRecolourTyped ==
  ASSUME NEW X, NEW Y, NEW b \in Seq(Seq(X)), NEW code, NEW comment, NEW force,
         \A l \in X : CodeRecolour(l, code, comment, force) \in Y
  PROVE  CB!Recoloured(b, code, comment, force) \in Seq(Seq(Y))
<1> DEFINE Line(l) == CodeRecolour(l, code, comment, force)
           r == CB!Recoloured(b, code, comment, force)
<1>1. r = [p \in DOMAIN b |-> [k \in DOMAIN b[p] |-> Line(b[p][k])]]
  BY DEF CB!Recoloured, CodeRecolour, CodeInComment
<1>2. \A l \in X : Line(l) \in Y
  OBVIOUS
<1> HIDE DEF Line, r
<1>3. Len(b) \in Nat /\ DOMAIN b = 1..Len(b) /\ \A p \in 1..Len(b) : b[p] \in Seq(X)
  BY LenProperties
<1>4. ASSUME NEW p \in 1..Len(b) PROVE r[p] \in Seq(Y)
  <2> DEFINE s == b[p]
  <2>1. Len(s) \in Nat /\ DOMAIN s = 1..Len(s) /\ \A k \in 1..Len(s) : s[k] \in X
    BY <1>3, LenProperties
  <2>2. r[p] = [k \in DOMAIN s |-> Line(s[k])]
    BY <1>1, <1>3
  <2> HIDE DEF s
  <2>3. r[p] \in [1..Len(s) -> Y]
    BY <1>2, <2>1, <2>2
  <2>4. QED
    BY <2>1, <2>3, FunctionIsSeq
<1>5. r \in [1..Len(b) -> Seq(Y)]
  BY <1>1, <1>3, <1>4
<1>6. r \in Seq(Seq(Y))
  BY <1>3, <1>5, FunctionIsSeq
<1>7. QED
  BY <1>6 DEF r

CodeRecolouredTo(r, l, code, comment, force) ==
  /\ r \in CodeShaped /\ Len(r) = Len(l)
  /\ \A i \in 1..Len(l) :
       /\ CodeInComment(r, i) <=> CodeInComment(l, i)
       /\ r[i].rgb = IF l[i].rgb \in {code, comment, CB!CODE_RGB, CB!COMMENT_RGB} \/ force
                     THEN IF CodeInComment(l, i) THEN comment ELSE code ELSE l[i].rgb

LEMMA CodeRecolouredLine ==
  ASSUME NEW l \in CodeShaped, NEW code \in CB!Palette, NEW comment \in CB!Palette, NEW force
  PROVE  CodeRecolouredTo(CodeRecolour(l, code, comment, force), l, code, comment, force)
<1> DEFINE r == CodeRecolour(l, code, comment, force)
           Ours(i) == l[i].rgb \in {code, comment, CB!CODE_RGB, CB!COMMENT_RGB} \/ force
           Want(i) == IF CodeInComment(l, i) THEN comment ELSE code
<1>1. /\ Len(l) \in Nat /\ DOMAIN l = 1..Len(l) /\ \A i \in 1..Len(l) : l[i] \in CodeRuns
      /\ \A i \in 1..Len(l) : i # 1 => l[i].kind = "comment"
  BY CodeShapedLine
<1>2. r = [i \in 1..Len(l) |-> IF Ours(i) THEN [l[i] EXCEPT !.rgb = Want(i)] ELSE l[i]]
  BY <1>1 DEF CodeRecolour
<1>3. \A i \in 1..Len(l) : Want(i) \in CB!Palette
  OBVIOUS
<1> HIDE DEF r, Ours, Want
<1>4. ASSUME NEW i \in 1..Len(l)
      PROVE  r[i] \in CodeRuns /\ r[i].kind = l[i].kind /\ r[i].rgb = IF Ours(i) THEN Want(i) ELSE l[i].rgb
  <2>1. r[i] = IF Ours(i) THEN [l[i] EXCEPT !.rgb = Want(i)] ELSE l[i]
    BY <1>2
  <2>2. l[i] \in CodeRuns /\ Want(i) \in CB!Palette
    BY <1>1, <1>3
  <2>3. QED
    BY <2>1, <2>2 DEF CodeRuns
<1>5. r \in Seq(CodeRuns) /\ Len(r) = Len(l)
  <2>1. r \in [1..Len(l) -> CodeRuns]
    BY <1>2, <1>4
  <2>2. QED
    BY <1>1, <2>1, FunctionIsSeq
<1>6. r \in CodeShaped
  <2>1. \A i \in 2..Len(r) : r[i].kind = "comment"
    <3>1. ASSUME NEW i \in 2..Len(r) PROVE r[i].kind = "comment"
      <4>1. i \in 1..Len(l) /\ i # 1
        BY <1>1, <1>5
      <4>2. QED
        BY <1>1, <1>4, <4>1
    <3>2. QED
      BY <3>1
  <2>2. QED
    BY <1>5, <2>1 DEF CodeShaped, CodeLines
<1>7. ASSUME NEW i \in 1..Len(l) PROVE CodeInComment(r, i) <=> CodeInComment(l, i)
  <2>1. \A j \in 1..i : j \in 1..Len(l)
    BY <1>1
  <2>2. \A j \in 1..i : r[j].kind = l[j].kind
    BY <1>4, <2>1
  <2>3. QED
    BY <2>2 DEF CodeInComment
<1>8. QED
  BY <1>4, <1>5, <1>6, <1>7 DEF CodeRecolouredTo, r, Ours, Want

(* What recolouring makes of lines that are told apart is told apart.        *)
LEMMA CodeRecoloursApart ==
  ASSUME NEW T \in SUBSET CB!Palette, CB!COMMENT_RGB \in T,
         NEW code \in CB!Palette, NEW comment \in CB!Palette, NEW force,
         comment = CB!COMMENT_RGB, code # comment, NEW l \in CodeApart(T)
  PROVE  CodeRecolour(l, code, comment, force)
           \in CodeApart({comment} \cup (IF force THEN {} ELSE T \ {code, comment, CB!CODE_RGB, CB!COMMENT_RGB}))
<1> DEFINE ours == {code, comment, CB!CODE_RGB, CB!COMMENT_RGB}
           U == {comment} \cup (IF force THEN {} ELSE T \ ours)
           r == CodeRecolour(l, code, comment, force)
<1>1. l \in CodeShaped /\ \A i \in 1..Len(l) : CodeInComment(l, i) <=> l[i].rgb \in T
  BY DEF CodeApart
<1>2. /\ r \in CodeShaped /\ Len(r) = Len(l)
      /\ \A i \in 1..Len(l) :
           /\ CodeInComment(r, i) <=> CodeInComment(l, i)
           /\ r[i].rgb = IF l[i].rgb \in ours \/ force THEN IF CodeInComment(l, i) THEN comment ELSE code ELSE l[i].rgb
  <2>1. CodeRecolouredTo(r, l, code, comment, force)
    BY <1>1, CodeRecolouredLine
  <2> HIDE DEF r
  <2>2. QED
    BY <2>1 DEF CodeRecolouredTo
<1>3. comment \in U /\ code \notin U /\ comment \in ours
      /\ \A c : c \notin ours /\ ~force => (c \in U <=> c \in T)
  OBVIOUS
<1> HIDE DEF r, ours, U
<1>4. ASSUME NEW i \in 1..Len(l) PROVE CodeInComment(r, i) <=> r[i].rgb \in U
  BY <1>1, <1>2, <1>3
<1>5. QED
  BY <1>2, <1>4 DEF CodeApart, U, ours, r

(* Lines whose runs all have one of the four colours are told apart by the   *)
(* two that they are given.                                                  *)
LEMMA CodeRecoloursAll ==
  ASSUME NEW code \in CB!Palette, NEW comment \in CB!Palette, NEW force,
         NEW T \in SUBSET CB!Palette, comment \in T, code \notin T, NEW l \in CodeShaped,
         \A i \in 1..Len(l) : l[i].rgb \in {code, comment, CB!CODE_RGB, CB!COMMENT_RGB} \/ force
  PROVE  CodeRecolour(l, code, comment, force) \in CodeApart(T)
<1> DEFINE r == CodeRecolour(l, code, comment, force)
<1>1. /\ r \in CodeShaped /\ Len(r) = Len(l)
      /\ \A i \in 1..Len(l) :
           /\ CodeInComment(r, i) <=> CodeInComment(l, i)
           /\ r[i].rgb = IF CodeInComment(l, i) THEN comment ELSE code
  <2>1. CodeRecolouredTo(r, l, code, comment, force)
    BY CodeRecolouredLine
  <2> HIDE DEF r
  <2>2. QED
    BY <2>1 DEF CodeRecolouredTo
<1> HIDE DEF r
<1>2. \A i \in 1..Len(l) : CodeInComment(r, i) <=> r[i].rgb \in T
  BY <1>1
<1>3. QED
  BY <1>1, <1>2 DEF CodeApart, r

-------------------------------------------------------------------------------
LEMMA CodeColoursInitially == CB!Init => CodeColourInv
<1> SUFFICES ASSUME CB!Init PROVE CodeColourInv
  OBVIOUS
<1>1. PICK l \in CB!SomeLines, m \in CB!SomeLines : box \in {<<<<l>>, <<m>>>>, <<<<l, m>>>>}
  BY DEF CB!Init
<1>2. CB!SomeLines \subseteq CodeShaped
  <2>1. ASSUME NEW k \in {"code", "comment"}, NEW c \in CB!Palette PROVE <<CB!Run(k, c)>> \in CodeShaped
    BY CodeSingle DEF CB!Run
  <2>2. <<CB!Run("code", CB!CODE_RGB), CB!Run("comment", CB!CODE_RGB)>> \in CodeShaped
    <3> DEFINE r == CB!Run("code", CB!CODE_RGB)
               s == CB!Run("comment", CB!CODE_RGB)
               n == <<r, s>>
    <3>1. r \in CodeRuns /\ s \in CodeRuns /\ s.kind = "comment"
      BY CodeColours DEF CB!Run, CodeRuns
    <3> HIDE DEF r, s
    <3>2. n \in Seq(CodeRuns) /\ Len(n) = 2 /\ n[2] = s
      BY <3>1
    <3> HIDE DEF n
    <3>3. n \in CodeShaped
      <4>1. \A i \in 2..Len(n) : n[i].kind = "comment"
        <5>1. \A i \in 2..Len(n) : i = 2
          BY <3>2
        <5>2. QED
          BY <3>1, <3>2, <5>1
      <4>2. QED
        BY <3>2, <4>1 DEF CodeShaped, CodeLines
    <3>4. QED
      BY <3>3 DEF n, r, s
  <2>3. <<>> \in CodeShaped
    BY CodeBlank
  <2>4. SUFFICES ASSUME NEW n \in CB!SomeLines PROVE n \in CodeShaped
    OBVIOUS
  <2>5. \/ \E k \in {"code", "comment"} : \E c \in CB!Palette : n = <<CB!Run(k, c)>>
        \/ n = <<>> \/ n = <<CB!Run("code", CB!CODE_RGB), CB!Run("comment", CB!CODE_RGB)>>
    BY DEF CB!SomeLines
  <2>6. QED
    BY <2>1, <2>2, <2>3, <2>5
<1>3. l \in CodeShaped /\ m \in CodeShaped
  BY <1>1, <1>2
<1>4. box \in Seq(Seq(CodeShaped))
  <2>1. <<l>> \in Seq(CodeShaped) /\ <<m>> \in Seq(CodeShaped) /\ <<l, m>> \in Seq(CodeShaped)
    BY <1>3
  <2> DEFINE L == Seq(CodeShaped)
             u == <<l>>
             v == <<m>>
             w == <<l, m>>
  <2>2. u \in L /\ v \in L /\ w \in L /\ box \in {<<u, v>>, <<w>>}
    BY <1>1, <2>1
  <2> HIDE DEF L, u, v, w
  <2>3. <<u, v>> \in Seq(L)
    BY <2>2
  <2>4. <<w>> \in Seq(L)
    BY <2>2
  <2>5. QED
    BY <2>2, <2>3, <2>4 DEF L
<1>5. coloured = FALSE
  BY DEF CB!Init
<1>6. QED
  BY <1>4, <1>5 DEF CodeColourInv

LEMMA CodeColoursDiffer == CB!CODE_RGB # CB!COMMENT_RGB /\ CB!OTHER_RGB # CB!COMMENT_RGB /\ CB!OTHER_RGB # CB!CODE_RGB
BY DEF CB!CODE_RGB, CB!COMMENT_RGB, CB!OTHER_RGB

LEMMA CodeColoursRecolour ==
  ASSUME CodeColourInv, NEW code \in CB!Palette, NEW comment \in CB!Palette, NEW force \in BOOLEAN,
         comment = CB!COMMENT_RGB, code # comment, CB!RecolourCode(code, comment, force)
  PROVE  CodeColourInv'
<1>1. box' = CB!Recoloured(box, code, comment, force) /\ coloured' = (coloured \/ force)
  BY DEF CB!RecolourCode, CB!Edit
<1>2. box \in Seq(Seq(CodeShaped))
  BY DEF CodeColourInv
<1>3. box' \in Seq(Seq(CodeShaped))
  <2>1. \A l \in CodeShaped : CodeRecolour(l, code, comment, force) \in CodeShaped
    BY CodeRecolouredLine DEF CodeRecolouredTo
  <2>2. QED
    BY <1>1, <1>2, <2>1, CodeRecolourTyped
<1>4. CASE force
  <2> DEFINE T == {comment}
  <2>1. T \in SUBSET CB!Palette /\ comment \in T /\ code \notin T /\ CB!COMMENT_RGB \in T
    OBVIOUS
  <2> HIDE DEF T
  <2>2. \A l \in CodeShaped : CodeRecolour(l, code, comment, force) \in CodeApart(T)
    BY <1>4, <2>1, CodeRecoloursAll
  <2>3. box' \in Seq(Seq(CodeApart(T)))
    BY <1>1, <1>2, <2>2, CodeRecolourTyped
  <2>4. QED
    BY <1>3, <2>1, <2>3 DEF CodeColourInv
<1>5. CASE ~force /\ coloured
  <2>1. PICK T \in SUBSET CB!Palette : CB!COMMENT_RGB \in T /\ box \in Seq(Seq(CodeApart(T)))
    BY <1>5 DEF CodeColourInv
  <2> DEFINE U == {comment} \cup (IF force THEN {} ELSE T \ {code, comment, CB!CODE_RGB, CB!COMMENT_RGB})
  <2>2. \A l \in CodeApart(T) : CodeRecolour(l, code, comment, force) \in CodeApart(U)
    BY <2>1, CodeRecoloursApart
  <2>3. U \in SUBSET CB!Palette /\ CB!COMMENT_RGB \in U
    OBVIOUS
  <2> HIDE DEF U
  <2>4. box' \in Seq(Seq(CodeApart(U)))
    BY <1>1, <2>1, <2>2, CodeRecolourTyped
  <2>5. QED
    BY <1>3, <2>3, <2>4 DEF CodeColourInv
<1>6. CASE ~force /\ ~coloured
  BY <1>1, <1>3, <1>6 DEF CodeColourInv
<1>7. QED
  BY <1>4, <1>5, <1>6

(* Whatever lines set_code takes its colours from, it colours the box anew.  *)
LEMMA CodeSetsApart ==
  ASSUME NEW kinds \in Seq({"code", "comment", "blank"}), NEW code_l \in CodeShaped, NEW comment_l \in CodeShaped,
         NEW colour \in BOOLEAN, CodeSetsFrom(kinds, colour, code_l, comment_l), NEW T \in SUBSET CB!Palette,
         CB!CommentRgb(CodeRgb(code_l), comment_l, code_l) \in T, CodeRgb(code_l) \notin T
  PROVE  box' \in Seq(Seq(CodeShaped)) /\ (colour => box' \in Seq(Seq(CodeApart(T))))
<1> DEFINE plain == CodePlain(kinds, code_l, comment_l)
           code == CodeRgb(code_l)
           comment == CB!CommentRgb(code, comment_l, code_l)
           Ours(l) == \A i \in 1..Len(l) : l[i].rgb \in {code, comment, CB!CODE_RGB, CB!COMMENT_RGB}
           X == {l \in CodeShaped : Ours(l)}
<1>1. /\ code_l # <<>> /\ comment_l # <<>> /\ code_l \in CodeLines /\ comment_l \in CodeLines
      /\ box' = IF colour THEN CB!Recoloured(plain, code, comment, FALSE) ELSE plain
  BY DEF CodeSetsFrom, CodeShaped
<1>2. code \in CB!Palette /\ comment \in CB!Palette
  BY <1>1, CodeSetColours
<1>3. \A rgb \in {code_l[1].rgb, comment_l[1].rgb} : rgb \in {code, comment, CB!CODE_RGB, CB!COMMENT_RGB}
  BY DEF CodeRgb, CB!CommentRgb
<1>4. ASSUME NEW k \in {"code", "comment", "blank"} PROVE CodeNewLine(k, code_l, comment_l) \in X
  <2>1. CASE k = "blank"
    <3>1. CodeNewLine(k, code_l, comment_l) = <<>>
      BY <1>1, <2>1, CodeSetColours
    <3>2. Len(<<>>) = 0
      OBVIOUS
    <3>3. QED
      BY <3>1, <3>2, CodeBlank
  <2>2. CASE k \in {"code", "comment"}
    <3>1. PICK rgb \in {code_l[1].rgb, comment_l[1].rgb} :
            rgb \in CB!Palette /\ CodeNewLine(k, code_l, comment_l) = <<[kind |-> k, rgb |-> rgb]>>
      BY <1>1, <2>2, CodeSetColours
    <3>2. rgb \in {code, comment, CB!CODE_RGB, CB!COMMENT_RGB}
      BY <1>3
    <3> DEFINE l == <<[kind |-> k, rgb |-> rgb]>>
    <3>3. l \in CodeShaped
      BY <2>2, <3>1, CodeSingle
    <3>4. Len(l) = 1 /\ l[1].rgb = rgb
      OBVIOUS
    <3> HIDE DEF l
    <3>5. Ours(l)
      <4> HIDE DEF code, comment
      <4>1. QED
        BY <3>2, <3>4
    <3> HIDE DEF Ours
    <3>6. QED
      BY <3>1, <3>3, <3>5 DEF l
  <2>3. QED
    BY <2>1, <2>2
<1> HIDE DEF X
<1>5. plain \in Seq(Seq(X))
  BY <1>4, CodePlainTyped
<1> HIDE DEF plain, code, comment
<1>6. \A l \in X : CodeRecolour(l, code, comment, FALSE) \in CodeApart(T)
  BY <1>2, CodeRecoloursAll DEF X, code, comment
<1>7. CB!Recoloured(plain, code, comment, FALSE) \in Seq(Seq(CodeApart(T)))
  BY <1>5, <1>6, CodeRecolourTyped
<1>8. colour => box' \in Seq(Seq(CodeApart(T)))
  BY <1>1, <1>7
<1>9. box' \in Seq(Seq(CodeShaped))
  <2>1. \A Y \in SUBSET CodeShaped : \A b \in Seq(Seq(Y)) : b \in Seq(Seq(CodeShaped))
    <3>1. ASSUME NEW Y \in SUBSET CodeShaped PROVE Seq(Y) \subseteq Seq(CodeShaped)
      BY SeqWider
    <3>2. QED
      BY <3>1, SeqWider
  <2>2. X \in SUBSET CodeShaped /\ CodeApart(T) \in SUBSET CodeShaped
    BY DEF X, CodeApart
  <2>3. QED
    BY <1>1, <1>5, <1>7, <2>1, <2>2
<1>10. QED
  BY <1>8, <1>9

LEMMA CodeColoursSet ==
  ASSUME CodeColourInv, NEW kinds \in CB!BoundedSeq({"code", "comment", "blank"}, MaxCodeLines), NEW pt,
         NEW colour \in BOOLEAN, CB!SetCode(kinds, pt, colour)
  PROVE  CodeColourInv'
<1>1. kinds \in Seq({"code", "comment", "blank"}) /\ coloured' = colour /\ box \in Seq(Seq(CodeShaped))
  BY CodeKinds DEF CB!SetCode, CodeColourInv
<1>2. PICK code_l \in CodeShaped, comment_l \in CodeShaped : CodeSetsFrom(kinds, colour, code_l, comment_l)
  <2>1. CodeShaped \in SUBSET CodeLines
    BY DEF CodeShaped
  <2>2. QED
    BY <1>1, <2>1, CodeSetLines
<1> DEFINE code == CodeRgb(code_l)
           comment == CB!CommentRgb(code, comment_l, code_l)
           T == {comment, CB!COMMENT_RGB}
<1>3. code \in CB!Palette /\ comment \in CB!Palette
  <2>1. code_l \in CodeLines /\ comment_l \in CodeLines /\ code_l # <<>> /\ comment_l # <<>>
    BY <1>2 DEF CodeShaped, CodeSetsFrom
  <2>2. QED
    BY <2>1, CodeSetColours
<1>4. code # CB!COMMENT_RGB
  BY CodeColoursDiffer DEF CodeRgb
<1>5. comment # code
  <2> HIDE DEF code
  <2>1. QED
    BY <1>4 DEF CB!CommentRgb
<1>6. T \in SUBSET CB!Palette /\ comment \in T /\ code \notin T /\ CB!COMMENT_RGB \in T
  <2> HIDE DEF code, comment
  <2>1. QED
    BY <1>3, <1>4, <1>5, CodeColours
<1> HIDE DEF T
<1>7. box' \in Seq(Seq(CodeShaped)) /\ (colour => box' \in Seq(Seq(CodeApart(T))))
  BY <1>1, <1>2, <1>6, CodeSetsApart
<1>8. QED
  BY <1>1, <1>6, <1>7 DEF CodeColourInv

LEMMA CodeEllipsisApart ==
  ASSUME NEW T, CB!COMMENT_RGB \in T
  PROVE  <<CB!Run("comment", CB!COMMENT_RGB)>> \in CodeApart(T) /\ <<CB!Run("comment", CB!COMMENT_RGB)>> \in CodeShaped
<1> DEFINE r == [kind |-> "comment", rgb |-> CB!COMMENT_RGB]
           l == <<r>>
<1>1. l \in CodeShaped /\ \A i \in 1..1 : CodeInComment(l, i)
  BY CodeColours, CodeSingle
<1>2. Len(l) = 1 /\ l[1].rgb = CB!COMMENT_RGB
  OBVIOUS
<1>3. l = <<CB!Run("comment", CB!COMMENT_RGB)>>
  BY DEF CB!Run
<1> HIDE DEF l
<1>4. \A i \in 1..Len(l) : CodeInComment(l, i) <=> l[i].rgb \in T
  <2>1. \A i \in 1..Len(l) : i = 1
    BY <1>2
  <2>2. 1 \in 1..1
    OBVIOUS
  <2>3. QED
    BY <1>1, <1>2, <2>1, <2>2
<1>5. l \in CodeApart(T)
  BY <1>1, <1>4 DEF CodeApart
<1>6. QED
  BY <1>1, <1>3, <1>5

LEMMA CodeColoursCut ==
  ASSUME CodeColourInv, NEW cuts, NEW pt, CB!CutCode(cuts, pt)
  PROVE  CodeColourInv'
<1>1. box \in Seq(Seq(CodeShaped))
  BY DEF CodeColourInv
<1>2. box' \in Seq(Seq(CodeShaped)) /\ coloured' = coloured
  <2>1. <<CB!Run("comment", CB!COMMENT_RGB)>> \in CodeShaped
    BY CodeEllipsisApart
  <2>2. QED
    BY <1>1, <2>1, CodeCutTyped
<1>3. ASSUME NEW T \in SUBSET CB!Palette, CB!COMMENT_RGB \in T, box \in Seq(Seq(CodeApart(T)))
      PROVE  box' \in Seq(Seq(CodeApart(T)))
  BY <1>3, CodeEllipsisApart, CodeCutTyped
<1>4. QED
  BY <1>2, <1>3 DEF CodeColourInv

LEMMA CodeColourSteps == CodeColourInv /\ [CB!Next]_codebox => CodeColourInv'
<1> SUFFICES ASSUME CodeColourInv, [CB!Next]_codebox PROVE CodeColourInv'
  OBVIOUS
<1>1. ASSUME box' = box, coloured' = coloured PROVE CodeColourInv'
  BY <1>1 DEF CodeColourInv
<1>2. ASSUME NEW p \in {<<CB!CODE_RGB, CB!COMMENT_RGB>>, <<CB!OTHER_RGB, CB!COMMENT_RGB>>}, NEW f \in BOOLEAN,
             CB!RecolourCode(p[1], p[2], f)
      PROVE CodeColourInv'
  <2>1. p[1] \in CB!Palette /\ p[2] \in CB!Palette /\ p[2] = CB!COMMENT_RGB /\ p[1] # p[2]
    BY CodeColours, CodeColoursDiffer
  <2>2. QED
    BY <1>2, <2>1, CodeColoursRecolour
<1>3. ASSUME NEW cuts, NEW pt, CB!CutCode(cuts, pt) PROVE CodeColourInv'
  BY <1>3, CodeColoursCut
<1>4. ASSUME NEW pt, CB!FitFont(pt) PROVE CodeColourInv'
  BY <1>1, <1>4 DEF CB!FitFont, CB!Edit
<1>5. ASSUME NEW h, CB!ResizeShape(h) PROVE CodeColourInv'
  BY <1>1, <1>5 DEF CB!ResizeShape, CB!Edit
<1>6. CASE UNCHANGED codebox
  BY <1>1, <1>6 DEF codebox
<1>7. QED
  BY <1>2, <1>3, <1>4, <1>5, <1>6, CodeColoursSet DEF CB!Next

LEMMA CodeStandsOut == CodeColourInv => CB!CommentsStandOut
<1> SUFFICES ASSUME CodeColourInv, coloured PROVE CB!CommentsStandOut
  BY DEF CB!CommentsStandOut
<1>1. PICK T \in SUBSET CB!Palette : box \in Seq(Seq(CodeApart(T)))
  BY DEF CodeColourInv
<1>2. ASSUME NEW l \in CB!Range(CB!Lines(box)), NEW i \in DOMAIN l PROVE CodeInComment(l, i) <=> l[i].rgb \in T
  <2>1. CB!Lines(box) \in Seq(CodeApart(T))
    BY <1>1, FlatTyped DEF CB!Lines
  <2>2. l \in CodeApart(T)
    BY <2>1 DEF CB!Range
  <2>3. l \in CodeShaped /\ \A k \in 1..Len(l) : CodeInComment(l, k) <=> l[k].rgb \in T
    BY <2>2 DEF CodeApart
  <2>4. DOMAIN l = 1..Len(l)
    BY <2>3, CodeShapedLine
  <2>5. QED
    BY <2>3, <2>4
<1> DEFINE Of(comment) ==
             UNION {{l[i].rgb : i \in {j \in DOMAIN l : CodeInComment(l, j) = comment}} : l \in CB!Range(CB!Lines(box))}
<1>3. Of(TRUE) \subseteq T
  BY <1>2 DEF CodeInComment
<1>4. Of(FALSE) \cap T = {}
  BY <1>2 DEF CodeInComment
<1>5. Of(TRUE) \cap Of(FALSE) = {}
  <2> HIDE DEF Of
  <2>1. QED
    BY <1>3, <1>4
<1>6. QED
  BY <1>5 DEF CB!CommentsStandOut, CodeInComment

-------------------------------------------------------------------------------
(* The colour audit: what it finds on a line, and what a box that it passes  *)
(* is made of.                                                               *)
CodeCalm(H) == {l \in CodeShaped : CB!LineHits(l) \subseteq H}

LEMMA CodeOwnColours ==
  ASSUME NEW l \in CodeCalm({}), NEW i \in 1..Len(l) PROVE l[i].rgb \in {CB!CODE_RGB, CB!COMMENT_RGB}
<1> DEFINE Trailing(j) == l[j].kind = "comment" /\ \E k \in 1..j - 1 : l[k].kind = "code"
           Wrong(j) == CASE l[j].rgb \notin {CB!CODE_RGB, CB!COMMENT_RGB} -> {"other-colour"}
                         [] l[j].rgb = CB!CODE_RGB /\ CB!IsComment(l) -> {"comment-as-code"}
                         [] l[j].rgb = CB!COMMENT_RGB /\ ~CB!IsComment(l) /\ ~Trailing(j) -> {"code-as-comment"}
                         [] OTHER -> {}
<1>1. l \in CodeShaped /\ CB!LineHits(l) = {}
  BY DEF CodeCalm
<1>2. DOMAIN l = 1..Len(l)
  BY <1>1, CodeShapedLine
<1>3. CB!LineHits(l) = UNION {Wrong(j) : j \in DOMAIN l}
  BY DEF CB!LineHits
<1>4. l[i].rgb \notin {CB!CODE_RGB, CB!COMMENT_RGB} => Wrong(i) = {"other-colour"}
  <2>1. ASSUME l[i].rgb \notin {CB!CODE_RGB, CB!COMMENT_RGB} PROVE Wrong(i) = {"other-colour"}
    <3>1. l[i].rgb # CB!CODE_RGB /\ l[i].rgb # CB!COMMENT_RGB
      BY <2>1
    <3> HIDE DEF Trailing
    <3>2. QED
      BY <2>1, <3>1
  <2>2. QED
    BY <2>1
<1> HIDE DEF Wrong
<1>5. Wrong(i) = {}
  BY <1>1, <1>2, <1>3
<1>6. QED
  BY <1>4, <1>5

LEMMA CodeApartCalm ==
  ASSUME NEW l \in CodeApart({CB!COMMENT_RGB}) PROVE l \in CodeCalm({"other-colour"})
<1> DEFINE Trailing(j) == l[j].kind = "comment" /\ \E k \in 1..j - 1 : l[k].kind = "code"
           Wrong(j) == CASE l[j].rgb \notin {CB!CODE_RGB, CB!COMMENT_RGB} -> {"other-colour"}
                         [] l[j].rgb = CB!CODE_RGB /\ CB!IsComment(l) -> {"comment-as-code"}
                         [] l[j].rgb = CB!COMMENT_RGB /\ ~CB!IsComment(l) /\ ~Trailing(j) -> {"code-as-comment"}
                         [] OTHER -> {}
<1>1. l \in CodeShaped /\ \A i \in 1..Len(l) : CodeInComment(l, i) <=> l[i].rgb = CB!COMMENT_RGB
  BY DEF CodeApart
<1>2. /\ Len(l) \in Nat /\ DOMAIN l = 1..Len(l) /\ \A i \in 1..Len(l) : l[i] \in CodeRuns
      /\ \A i \in 1..Len(l) : i # 1 => l[i].kind = "comment"
  BY <1>1, CodeShapedLine
<1>3. CB!LineHits(l) = UNION {Wrong(j) : j \in DOMAIN l}
  BY DEF CB!LineHits
<1>4. ASSUME NEW i \in 1..Len(l) PROVE Wrong(i) \subseteq {"other-colour"}
  <2>1. 1 \in 1..Len(l) /\ 1 \in 1..i /\ l # <<>>
    <3>1. l # <<>>
      <4>1. Len(<<>>) = 0 /\ Len(l) # 0
        BY <1>2
      <4>2. QED
        BY <4>1
    <3>2. QED
      BY <1>2, <3>1
  <2>2. ~(l[i].rgb = CB!CODE_RGB /\ CB!IsComment(l))
    <3>1. CB!IsComment(l) => CodeInComment(l, i)
      BY <2>1 DEF CB!IsComment, CodeInComment
    <3>2. QED
      BY <1>1, <3>1, CodeColoursDiffer
  <2>3. l[i].rgb = CB!COMMENT_RGB => CB!IsComment(l) \/ Trailing(i)
    <3>1. SUFFICES ASSUME l[i].rgb = CB!COMMENT_RGB, ~CB!IsComment(l) PROVE Trailing(i)
      OBVIOUS
    <3>2. l[1].kind # "comment" /\ l[1].kind = "code"
      BY <1>2, <2>1, <3>1 DEF CB!IsComment, CodeRuns
    <3>3. PICK j \in 1..i : l[j].kind = "comment"
      BY <1>1, <3>1 DEF CodeInComment
    <3>4. i # 1
      BY <3>2, <3>3
    <3>5. 1 \in 1..i - 1 /\ l[i].kind = "comment"
      BY <1>2, <3>4
    <3>6. QED
      BY <3>2, <3>5
  <2> HIDE DEF Trailing
  <2>4. CASE l[i].rgb \notin {CB!CODE_RGB, CB!COMMENT_RGB}
    <3>1. Wrong(i) = {"other-colour"}
      BY <2>2, <2>3, <2>4
    <3>2. QED
      BY <3>1
  <2>5. CASE l[i].rgb \in {CB!CODE_RGB, CB!COMMENT_RGB}
    <3>1. Wrong(i) = {}
      BY <2>2, <2>3, <2>5
    <3>2. QED
      BY <3>1
  <2>6. QED
    BY <2>4, <2>5
<1> HIDE DEF Wrong
<1>5. CB!LineHits(l) \subseteq {"other-colour"}
  BY <1>2, <1>3, <1>4
<1>6. QED
  BY <1>1, <1>5 DEF CodeCalm

LEMMA CodeAuditFinds ==
  ASSUME NEW H, NEW b \in Seq(Seq(CodeCalm(H))) PROVE CB!Audit(b) \subseteq H
<1>1. CB!Lines(b) \in Seq(CodeCalm(H))
  BY FlatTyped DEF CB!Lines
<1>2. \A l \in CB!Range(CB!Lines(b)) : l \in CodeCalm(H)
  BY <1>1 DEF CB!Range
<1>3. \A l \in CB!Range(CB!Lines(b)) : CB!LineHits(l) \subseteq H
  BY <1>2 DEF CodeCalm
<1>4. QED
  BY <1>3 DEF CB!Audit

LEMMA CodeAuditPasses ==
  ASSUME NEW b \in Seq(Seq(CodeShaped)), CB!Audit(b) = {} PROVE b \in Seq(Seq(CodeCalm({})))
<1>1. Len(b) \in Nat /\ b \in [1..Len(b) -> Seq(CodeShaped)]
  BY LenProperties
<1>2. PICK o : Begins(b, o)
  BY FlatBegins
<1>3. ASSUME NEW p \in 1..Len(b) PROVE b[p] \in Seq(CodeCalm({}))
  <2> DEFINE s == b[p]
  <2>1. Len(s) \in Nat /\ s \in [1..Len(s) -> CodeShaped]
    BY <1>1, LenProperties
  <2>2. ASSUME NEW k \in 1..Len(s) PROVE CB!LineHits(s[k]) = {}
    <3>1. o[p] + k \in 1..Len(CB!Lines(b)) /\ CB!Lines(b)[o[p] + k] = s[k]
      BY <1>2 DEF Begins, CB!Lines
    <3>2. DOMAIN CB!Lines(b) = 1..Len(CB!Lines(b))
      <4>1. CB!Lines(b) \in Seq(CodeShaped)
        BY FlatTyped DEF CB!Lines
      <4>2. QED
        BY <4>1, LenProperties
    <3>3. s[k] \in CB!Range(CB!Lines(b))
      BY <3>1, <3>2 DEF CB!Range
    <3>4. CB!LineHits(s[k]) \subseteq CB!Audit(b)
      BY <3>3 DEF CB!Audit
    <3>5. QED
      BY <3>4
  <2> HIDE DEF s
  <2>3. s \in [1..Len(s) -> CodeCalm({})]
    BY <2>1, <2>2 DEF CodeCalm
  <2>4. s \in Seq(CodeCalm({}))
    BY <2>1, <2>3, FunctionIsSeq
  <2>5. QED
    BY <2>4 DEF s
<1>4. b \in [1..Len(b) -> Seq(CodeCalm({}))]
  BY <1>1, <1>3
<1>5. QED
  BY <1>1, <1>4, FunctionIsSeq

LEMMA CodeWiderBoxes ==
  ASSUME NEW X, NEW Y, X \subseteq Y, NEW b \in Seq(Seq(X)) PROVE b \in Seq(Seq(Y))
<1>1. Seq(X) \subseteq Seq(Y)
  BY SeqWider
<1>2. QED
  BY <1>1, SeqWider

-------------------------------------------------------------------------------
(* What each edit makes of a box that passes the audit.                      *)
LEMMA CodeAuditRecolour ==
  ASSUME box \in Seq(Seq(CodeCalm({}))), NEW code \in CB!Palette, NEW comment \in CB!Palette, NEW force \in BOOLEAN,
         comment = CB!COMMENT_RGB, code # comment, CB!RecolourCode(code, comment, force)
  PROVE  CB!Audit(box') \subseteq {"other-colour"}
<1> DEFINE T == {CB!COMMENT_RGB}
<1>1. box' = CB!Recoloured(box, code, comment, force)
  BY DEF CB!RecolourCode, CB!Edit
<1>2. T \in SUBSET CB!Palette /\ comment \in T /\ code \notin T
  OBVIOUS
<1>3. ASSUME NEW l \in CodeCalm({}) PROVE CodeRecolour(l, code, comment, force) \in CodeCalm({"other-colour"})
  <2>1. l \in CodeShaped
    BY DEF CodeCalm
  <2>2. \A i \in 1..Len(l) : l[i].rgb \in {code, comment, CB!CODE_RGB, CB!COMMENT_RGB} \/ force
    BY CodeOwnColours
  <2> HIDE DEF T
  <2>3. CodeRecolour(l, code, comment, force) \in CodeApart(T)
    BY <1>2, <2>1, <2>2, CodeRecoloursAll
  <2>4. QED
    BY <2>3, CodeApartCalm DEF T
<1>4. box' \in Seq(Seq(CodeCalm({"other-colour"})))
  BY <1>1, <1>3, CodeRecolourTyped
<1>5. QED
  BY <1>4, CodeAuditFinds

LEMMA CodeAuditSet ==
  ASSUME box \in Seq(Seq(CodeCalm({}))), NEW kinds \in CB!BoundedSeq({"code", "comment", "blank"}, MaxCodeLines), NEW pt,
         NEW colour \in BOOLEAN, CB!SetCode(kinds, pt, colour), coloured'
  PROVE  CB!Audit(box') \subseteq {"other-colour"}
<1> DEFINE T == {CB!COMMENT_RGB}
<1>1. kinds \in Seq({"code", "comment", "blank"}) /\ colour
  BY CodeKinds DEF CB!SetCode
<1>2. CodeCalm({}) \in SUBSET CodeLines
  BY DEF CodeCalm, CodeShaped
<1>3. PICK code_l \in CodeCalm({}), comment_l \in CodeCalm({}) : CodeSetsFrom(kinds, colour, code_l, comment_l)
  BY <1>2, CodeSetLines
<1>4. code_l \in CodeShaped /\ comment_l \in CodeShaped
  BY DEF CodeCalm
<1>5. \A l \in {code_l, comment_l} : l[1].rgb \in {CB!CODE_RGB, CB!COMMENT_RGB}
  <2>1. ASSUME NEW l \in CodeCalm({}), l # <<>> PROVE 1 \in 1..Len(l)
    <3>1. l \in CodeLines
      BY DEF CodeCalm, CodeShaped
    <3>2. Len(l) \in Nat /\ Len(l) # 0
      BY <2>1, <3>1, EmptySeq, LenProperties DEF CodeLines
    <3>3. QED
      BY <3>2
  <2>2. code_l # <<>> /\ comment_l # <<>>
    BY <1>3 DEF CodeSetsFrom
  <2>3. QED
    BY <2>1, <2>2, CodeOwnColours
<1>6. CodeRgb(code_l) = CB!CODE_RGB
  BY <1>5, CodeColoursDiffer DEF CodeRgb
<1>7. CB!CommentRgb(CodeRgb(code_l), comment_l, code_l) = CB!COMMENT_RGB
  BY <1>5, <1>6 DEF CB!CommentRgb
<1>8. T \in SUBSET CB!Palette /\ CB!CommentRgb(CodeRgb(code_l), comment_l, code_l) \in T /\ CodeRgb(code_l) \notin T
  BY <1>6, <1>7, CodeColours, CodeColoursDiffer
<1> HIDE DEF T
<1>9. box' \in Seq(Seq(CodeApart(T)))
  BY <1>1, <1>3, <1>4, <1>8, CodeSetsApart
<1>10. CodeApart(T) \subseteq CodeCalm({"other-colour"})
  BY CodeApartCalm DEF T
<1>11. box' \in Seq(Seq(CodeCalm({"other-colour"})))
  BY <1>9, <1>10, CodeWiderBoxes
<1>12. QED
  BY <1>11, CodeAuditFinds

LEMMA CodeAuditCut ==
  ASSUME box \in Seq(Seq(CodeCalm({}))), NEW cuts, NEW pt, CB!CutCode(cuts, pt)
  PROVE  CB!Audit(box') \subseteq {"other-colour"}
<1> DEFINE e == <<CB!Run("comment", CB!COMMENT_RGB)>>
           H == {"other-colour"}
<1>1. e \in CodeCalm(H)
  <2>1. e \in CodeApart({CB!COMMENT_RGB})
    BY CodeEllipsisApart
  <2> HIDE DEF e
  <2>2. QED
    BY <2>1, CodeApartCalm
<1>2. CodeCalm({}) \subseteq CodeCalm(H)
  BY DEF CodeCalm
<1> HIDE DEF H
<1>3. box \in Seq(Seq(CodeCalm(H)))
  BY <1>2, CodeWiderBoxes
<1>4. box' \in Seq(Seq(CodeCalm(H)))
  BY <1>1, <1>3, CodeCutTyped
<1>5. QED
  BY <1>4, CodeAuditFinds DEF H

LEMMA CodeAuditSteps ==
  CodeColourInv /\ [CB!Next]_codebox
    => (coloured' /\ CB!Audit(box) = {} => CB!Audit(box') \subseteq {"other-colour"}) \/ UNCHANGED codebox
<1> SUFFICES ASSUME CodeColourInv, CB!Next, coloured', CB!Audit(box) = {}
             PROVE  CB!Audit(box') \subseteq {"other-colour"}
  OBVIOUS
<1>1. box \in Seq(Seq(CodeCalm({})))
  BY CodeAuditPasses DEF CodeColourInv
<1>2. ASSUME box' = box PROVE CB!Audit(box') \subseteq {"other-colour"}
  BY <1>2
<1>3. ASSUME NEW p \in {<<CB!CODE_RGB, CB!COMMENT_RGB>>, <<CB!OTHER_RGB, CB!COMMENT_RGB>>}, NEW f \in BOOLEAN,
             CB!RecolourCode(p[1], p[2], f)
      PROVE CB!Audit(box') \subseteq {"other-colour"}
  <2>1. p[1] \in CB!Palette /\ p[2] \in CB!Palette /\ p[2] = CB!COMMENT_RGB /\ p[1] # p[2]
    BY CodeColours, CodeColoursDiffer
  <2>2. QED
    BY <1>1, <1>3, <2>1, CodeAuditRecolour
<1>4. ASSUME NEW cuts, NEW pt, CB!CutCode(cuts, pt) PROVE CB!Audit(box') \subseteq {"other-colour"}
  BY <1>1, <1>4, CodeAuditCut
<1>5. ASSUME NEW pt, CB!FitFont(pt) PROVE CB!Audit(box') \subseteq {"other-colour"}
  BY <1>2, <1>5 DEF CB!FitFont, CB!Edit
<1>6. ASSUME NEW h, CB!ResizeShape(h) PROVE CB!Audit(box') \subseteq {"other-colour"}
  BY <1>2, <1>6 DEF CB!ResizeShape, CB!Edit
<1>7. QED
  BY <1>1, <1>3, <1>4, <1>5, <1>6, CodeAuditSet DEF CB!Next

(* Once a box was coloured by line type there are colours that its comments  *)
(* have and its code has not, and what follows the first run of a line is    *)
(* comment, whatever the edits.                                              *)
THEOREM CodeColourInvariance == Spec => []CodeColourInv
BY Behaviours, CodeColoursInitially, CodeColourSteps, PTL DEF Spec

-------------------------------------------------------------------------------
(* gen_fit.py.                                                               *)
FitFrame == [x0 : Int, y0 : Int, x1 : Int, y1 : Int]
FitText == [kind : {"text", "chip", "code"}, size : 1..100, spacing : 10..30, lines : Nat, columns : Nat]

FitTypes ==
  /\ frame \in FitFrame /\ frame.x0 < frame.x1 /\ frame.y0 < frame.y1
  /\ frame.x0 >= 0 /\ frame.y0 >= 0 /\ frame.x1 <= SlideWidth /\ frame.y1 <= SlideHeight
  /\ suggestText \in FitText
  /\ others \subseteq OtherFrames /\ suggestFlags \in [FS!Sides -> FitOverflows]
  /\ outcome \in {"none", "applied", "failed"}

FitSize ==
  /\ entry = [do |-> "size", size |-> entry.size, spacing |-> entry.spacing]
  /\ entry.size \in 0..100 /\ entry.spacing \in 10..30
  /\ \/ suggestText.kind = "text"
     \/ suggestText.kind = "code" /\ entry.size > 0 /\ FS!Fits(entry.size, entry.spacing)

FitResize ==
  /\ entry = [do |-> "resize", frame |-> entry.frame] /\ entry.frame \in FitFrame
  /\ entry.frame.x0 < entry.frame.x1 /\ entry.frame.y0 < entry.frame.y1
  /\ entry.frame.y0 >= 0 /\ entry.frame.x1 <= SlideWidth /\ entry.frame.y1 <= SlideHeight
  /\ \/ suggestText.kind = "chip"
     \/ suggestText.kind = "text" /\ entry.frame.x0 >= 0 /\ entry.frame = FS!Grown /\ FS!FreeSpace(FS!Grown)

FitEntry ==
  /\ entry.do \in {"nothing", "manual", "size", "resize"}
  /\ outcome # "none" => entry.do \in {"size", "resize"}
  /\ entry.do = "size" /\ outcome # "applied" => FitSize
  /\ entry.do = "resize" /\ outcome # "applied" => FitResize

FitInv == FitTypes /\ FitEntry /\ FS!SuggestionsApply

LEMMA FitConstants ==
  /\ SlideWidth \in Nat /\ SlideHeight \in Nat /\ 0 \in FitOverflows /\ FitOverflows \subseteq Nat /\ IsFiniteSet(OtherFrames)
  /\ \A f \in OtherFrames : f \in FitFrame /\ f.x0 < f.x1 /\ f.y0 < f.y1
  /\ \A f \in TextFrames : /\ f \in FitFrame /\ f.x0 < f.x1 /\ f.y0 < f.y1
                           /\ f.x0 >= 0 /\ f.y0 >= 0 /\ f.x1 <= SlideWidth /\ f.y1 <= SlideHeight
  /\ FitTexts \subseteq FitText
<1>1. /\ SlideWidth \in Nat /\ SlideHeight \in Nat /\ 0 \in FitOverflows /\ FitOverflows \subseteq Nat /\ IsFiniteSet(OtherFrames)
      /\ FitTexts \subseteq FitText
  BY Zenon, FitSuggestAssumption DEF FitText
<1>2. ASSUME NEW f \in TextFrames \cup OtherFrames PROVE f \in FitFrame /\ f.x0 < f.x1 /\ f.y0 < f.y1
  <2>1. f = Rect(f.x0, f.y0, f.x1, f.y1) /\ {f.x0, f.y0, f.x1, f.y1} \subseteq Int /\ f.x0 < f.x1 /\ f.y0 < f.y1
    BY Zenon, FitSuggestAssumption
  <2>2. QED
    BY <2>1 DEF FitFrame, Rect
<1>3. ASSUME NEW f \in TextFrames PROVE f.x0 >= 0 /\ f.y0 >= 0 /\ f.x1 <= SlideWidth /\ f.y1 <= SlideHeight
  BY Zenon, FitSuggestAssumption
<1>4. QED
  BY <1>1, <1>2, <1>3

LEMMA FitInitially == FS!Init => FitInv
<1> SUFFICES ASSUME FS!Init PROVE FitInv
  OBVIOUS
<1>1. /\ frame \in TextFrames /\ suggestText \in FitTexts /\ others \subseteq OtherFrames
      /\ suggestFlags \in [FS!Sides -> FitOverflows] /\ entry = FS!None /\ outcome = "none"
  BY DEF FS!Init
<1>2. FitTypes
  BY <1>1, FitConstants DEF FitTypes
<1>3. QED
  BY <1>1, <1>2 DEF FitInv, FitEntry, FS!None, FS!SuggestionsApply

(* What the flags ask for in addition.                                       *)
LEMMA FitMore ==
  ASSUME FitTypes, NEW side \in FS!Sides PROVE FS!More(side) \in Nat
<1>1. suggestFlags[side] \in Nat
  BY FitConstants DEF FitTypes
<1>2. QED
  BY <1>1 DEF FS!More, FS!Margin

(* What is below or above the middle of the frame bounds what it can grow.   *)
LEMMA FitObstacles ==
  ASSUME FitTypes
  PROVE  /\ FS!Obstacles \subseteq OtherFrames
         /\ FS!Grown \in FitFrame /\ FS!Grown.y1 <= SlideHeight
         /\ FS!Grown.x0 = frame.x0 /\ FS!Grown.x1 = frame.x1 + FS!More("right")
         /\ FS!Grown.y0 = FS!Grown.y1 - (frame.y1 - frame.y0 + FS!More("top") + FS!More("bottom"))
         /\ \A b \in FS!Obstacles : FS!Below(b) => FS!Grown.y1 <= b.y0 - FS!Gap
         /\ FS!FreeSpace(FS!Grown) => FS!Grown.y0 >= 0
         /\ \A b \in FS!Obstacles : FS!Above(b) /\ FS!FreeSpace(FS!Grown) => FS!Grown.y0 >= b.y1 + FS!Gap
<1>1. FS!Obstacles \subseteq OtherFrames
  BY DEF FitTypes, FS!Obstacles
<1> DEFINE lows == {o \in FS!Obstacles : FS!Below(o)}
           highs == {o \in FS!Obstacles : FS!Above(o)}
           L == {SlideHeight} \cup {b.y0 - FS!Gap : b \in lows}
           H == {0} \cup {b.y1 + FS!Gap : b \in highs}
<1>2. IsFiniteSet(lows) /\ IsFiniteSet(highs)
  BY <1>1, FitConstants, FS_Subset
<1>3. \A b \in FS!Obstacles : b.y0 \in Int /\ b.y1 \in Int
  BY <1>1, FitConstants DEF FitFrame
<1>4. L \in SUBSET Int /\ IsFiniteSet(L) /\ L # {}
  <2> DEFINE f == [b \in lows |-> b.y0 - FS!Gap]
  <2>1. IsFiniteSet({f[b] : b \in lows})
    <3>1. DOMAIN f = lows
      OBVIOUS
    <3> HIDE DEF f
    <3>2. QED
      BY <1>2, <3>1, FiniteImage
  <2>2. L = {f[b] : b \in lows} \cup {SlideHeight}
    OBVIOUS
  <2>3. IsFiniteSet(L)
    <3> HIDE DEF f, L
    <3>1. QED
      BY <2>1, <2>2, FS_AddElement
  <2>4. L \in SUBSET Int /\ L # {}
    BY <1>3, FitConstants DEF FS!Gap
  <2>5. QED
    BY <2>3, <2>4
<1>5. H \in SUBSET Int /\ IsFiniteSet(H) /\ H # {}
  <2> DEFINE f == [b \in highs |-> b.y1 + FS!Gap]
  <2>1. IsFiniteSet({f[b] : b \in highs})
    <3>1. DOMAIN f = highs
      OBVIOUS
    <3> HIDE DEF f
    <3>2. QED
      BY <1>2, <3>1, FiniteImage
  <2>2. H = {f[b] : b \in highs} \cup {0}
    OBVIOUS
  <2>3. IsFiniteSet(H)
    <3> HIDE DEF f, H
    <3>1. QED
      BY <2>1, <2>2, FS_AddElement
  <2>4. H \in SUBSET Int /\ H # {}
    BY <1>3 DEF FS!Gap
  <2>5. QED
    BY <2>3, <2>4
<1> DEFINE lower == FS!Min(L)
           upper == FS!Max(H)
<1>6. lower \in Int /\ lower <= SlideHeight /\ \A b \in lows : lower <= b.y0 - FS!Gap
  <2>1. lower \in L /\ \A x \in L : lower <= x
    <3> HIDE DEF L
    <3>1. QED
      BY <1>4, MinOf
  <2>2. SlideHeight \in L /\ \A b \in lows : b.y0 - FS!Gap \in L
    OBVIOUS
  <2> HIDE DEF lower
  <2>3. lower \in Int
    BY <1>4, <2>1
  <2>4. lower <= SlideHeight
    BY <2>1, <2>2
  <2>5. \A b \in lows : lower <= b.y0 - FS!Gap
    BY <2>1, <2>2
  <2>6. QED
    BY <2>3, <2>4, <2>5
<1>7. upper \in Int /\ upper >= 0 /\ \A b \in highs : upper >= b.y1 + FS!Gap
  <2>1. upper \in H /\ \A x \in H : upper >= x
    <3> HIDE DEF H
    <3>1. QED
      BY <1>5, MaxOf
  <2>2. 0 \in H /\ \A b \in highs : b.y1 + FS!Gap \in H
    OBVIOUS
  <2> HIDE DEF upper
  <2>3. upper \in Int
    BY <1>5, <2>1
  <2>4. upper >= 0
    BY <2>1, <2>2
  <2>5. \A b \in highs : upper >= b.y1 + FS!Gap
    BY <2>1, <2>2
  <2>6. QED
    BY <2>3, <2>4, <2>5
<1> DEFINE need == frame.y1 - frame.y0 + FS!More("top") + FS!More("bottom")
           y1 == FS!Min({frame.y0 - FS!More("top") + need, lower})
<1>8. FS!Grown = FS!Box(frame.x0, y1 - need, frame.x1 + FS!More("right"), y1)
  BY DEF FS!Grown
<1>9. FS!FreeSpace(FS!Grown) => FS!Grown.y0 >= upper
  BY DEF FS!FreeSpace
<1>10. /\ FS!More("top") \in Nat /\ FS!More("bottom") \in Nat /\ FS!More("right") \in Nat
       /\ frame.x0 \in Int /\ frame.x1 \in Int /\ frame.y0 \in Int /\ frame.y1 \in Int
  BY FitMore DEF FitTypes, FitFrame, FS!Sides
<1>11. need \in Int /\ frame.y0 - FS!More("top") + need \in Int
  BY <1>10
<1>12. y1 \in Int /\ y1 <= lower
  <2> DEFINE asked == frame.y0 - FS!More("top") + need
  <2>1. asked \in Int /\ lower \in Int /\ y1 = FS!Min({asked, lower})
    BY <1>6, <1>11
  <2> HIDE DEF need, lower, asked, y1
  <2>2. FS!Min({asked, lower}) = IF asked <= lower THEN asked ELSE lower
    BY <2>1, OfTwo
  <2>3. QED
    BY <2>1, <2>2
<1>13. /\ FS!Grown \in FitFrame /\ FS!Grown.y1 = y1 /\ FS!Grown.y0 = y1 - need
       /\ FS!Grown.x0 = frame.x0 /\ FS!Grown.x1 = frame.x1 + FS!More("right")
  <2> HIDE DEF y1, need
  <2>1. QED
    BY <1>8, <1>10, <1>11, <1>12 DEF FS!Box, FitFrame
<1>14. FS!Grown.y1 <= SlideHeight /\ \A b \in lows : FS!Grown.y1 <= b.y0 - FS!Gap
  <2> HIDE DEF y1, lower
  <2>1. \A b \in lows : b.y0 - FS!Gap \in Int
    BY <1>3 DEF FS!Gap
  <2>2. QED
    BY <1>6, <1>12, <1>13, <2>1, FitConstants
<1>15. FS!FreeSpace(FS!Grown) => FS!Grown.y0 >= 0 /\ \A b \in highs : FS!Grown.y0 >= b.y1 + FS!Gap
  <2> HIDE DEF upper
  <2>1. \A b \in highs : b.y1 + FS!Gap \in Int
    BY <1>3 DEF FS!Gap
  <2>2. FS!Grown.y0 \in Int
    BY <1>13 DEF FitFrame
  <2>3. QED
    BY <1>7, <1>9, <2>1, <2>2
<1>16. QED
  BY <1>1, <1>13, <1>14, <1>15

(* Nothing of what holds of a fit depends on the other tools.                *)
LEMMA FitStill ==
  ASSUME FitInv, UNCHANGED fitsuggest PROVE FitInv'
<1>1. /\ frame' = frame /\ suggestText' = suggestText /\ others' = others
      /\ suggestFlags' = suggestFlags /\ entry' = entry /\ outcome' = outcome
  BY DEF fitsuggest
<1>2. QED
  BY <1>1 DEF FitInv, FitTypes, FitEntry, FitSize, FitResize, FS!SuggestionsApply, FS!Grown, FS!FreeSpace,
    FS!Obstacles, FS!Below, FS!Above, FS!Middle, FS!More, FS!Contains, FS!FullSlide, FS!Column, FS!Fits, FS!Capacity

(* A number range is finite, and so is what is chosen from it.               *)
LEMMA ChosenFrom ==
  ASSUME NEW a \in Int, NEW b \in Int, NEW S \in SUBSET (a..b), S # {}
  PROVE  FS!Max(S) \in S /\ FS!Max(S) \in a..b
<1>1. IsFiniteSet(a..b)
  BY FS_Interval
<1>2. IsFiniteSet(S) /\ S \in SUBSET Int
  <2>1. IsFiniteSet(S)
    BY <1>1, FS_Subset
  <2>2. QED
    BY <2>1
<1>3. QED
  BY <1>2, MaxOf

LEMMA FitWidens ==
  ASSUME FitTypes, suggestText.kind = "chip", entry' = FS!WidenChip, UNCHANGED <<frame, suggestText, others, suggestFlags, outcome>>
  PROVE  outcome = "none" => FitEntry'
<1> DEFINE need == (3 * suggestText.columns * suggestText.size) \div 10 + 4 + FS!Insets
<1>1. suggestText.columns \in Nat /\ suggestText.size \in Nat
  BY DEF FitTypes, FitText
<1>2. need \in Int
  <2>1. 3 * suggestText.columns * suggestText.size \in Nat
    BY <1>1
  <2>2. QED
    BY <2>1 DEF FS!Insets
<1>3. entry' = IF need > frame.x1 - frame.x0 THEN [do |-> "resize", frame |-> [frame EXCEPT !.x0 = frame.x1 - need]]
               ELSE [do |-> "manual"]
  BY DEF FS!WidenChip, FS!Manual
<1> HIDE DEF need
<1>4. CASE need > frame.x1 - frame.x0
  <2>1. entry' = [do |-> "resize", frame |-> [frame EXCEPT !.x0 = frame.x1 - need]]
    BY <1>3, <1>4
  <2>2. /\ frame \in FitFrame /\ frame.x0 < frame.x1 /\ frame.y0 < frame.y1
        /\ frame.y0 >= 0 /\ frame.x1 <= SlideWidth /\ frame.y1 <= SlideHeight
    BY DEF FitTypes
  <2>3. frame.x1 - need \in Int /\ frame.x1 - need < frame.x1
    BY <1>2, <1>4, <2>2 DEF FitFrame
  <2>4. FitResize'
    BY <2>1, <2>2, <2>3 DEF FitResize, FitFrame
  <2>5. QED
    BY <2>1, <2>4 DEF FitEntry
<1>5. CASE ~ (need > frame.x1 - frame.x0)
  BY <1>3, <1>5 DEF FitEntry
<1>6. QED
  BY <1>4, <1>5

LEMMA FitSuggestsSize ==
  ASSUME FitTypes, suggestText.kind = "code", entry' = FS!SuggestSize, UNCHANGED <<frame, suggestText, others, suggestFlags, outcome>>
  PROVE  outcome = "none" => FitEntry'
<1> DEFINE top == FS!Max({suggestText.size, FS!MinSize})
           smaller == {s \in FS!MinSize..suggestText.size - 1 : FS!Fits(s, suggestText.spacing)}
           single == {s \in FS!MinSize..top : suggestText.spacing > 10 /\ FS!Fits(s, 10)}
<1>1. suggestText.size \in 1..100 /\ suggestText.spacing \in 10..30
  BY DEF FitTypes, FitText
<1>2. top \in 18..100
  <2>1. 18 \in Int /\ suggestText.size \in Int
    BY <1>1
  <2>2. FS!Max({suggestText.size, 18}) = IF suggestText.size >= 18 THEN suggestText.size ELSE 18
    BY <2>1, OfTwo
  <2>3. QED
    BY <1>1, <2>2 DEF FS!MinSize
<1>3. entry' = CASE smaller # {} -> [do |-> "size", size |-> FS!Max(smaller), spacing |-> suggestText.spacing]
                 [] smaller = {} /\ single # {} -> [do |-> "size", size |-> FS!Max(single), spacing |-> 10]
                 [] OTHER -> [do |-> "manual"]
  BY DEF FS!SuggestSize, FS!Manual
<1> HIDE DEF top
<1>4. CASE smaller # {}
  <2>1. FS!Max(smaller) \in smaller /\ FS!Max(smaller) \in 18..suggestText.size - 1
    <3>1. smaller \in SUBSET (18..suggestText.size - 1) /\ suggestText.size - 1 \in Int /\ 18 \in Int
      BY <1>1 DEF FS!MinSize
    <3> HIDE DEF smaller
    <3>2. QED
      BY <1>4, <3>1, ChosenFrom
  <2>2. FS!Fits(FS!Max(smaller), suggestText.spacing)
    BY <2>1
  <2> DEFINE m == FS!Max(smaller)
  <2>3. entry' = [do |-> "size", size |-> m, spacing |-> suggestText.spacing] /\ m \in 0..100 /\ m > 0
    <3> HIDE DEF smaller, single
    <3>1. QED
      BY <1>1, <1>3, <1>4, <2>1
  <2> HIDE DEF smaller, single, m
  <2>4. FS!Fits(m, suggestText.spacing)
    BY <2>2 DEF m
  <2>5. FitSize'
    BY <1>1, <2>3, <2>4 DEF FitSize, FS!Fits, FS!Capacity
  <2>6. QED
    BY <2>3, <2>5 DEF FitEntry
<1>5. CASE smaller = {} /\ single # {}
  <2>1. FS!Max(single) \in single /\ FS!Max(single) \in 18..top
    <3>1. single \in SUBSET (18..top) /\ top \in Int /\ 18 \in Int
      BY <1>2 DEF FS!MinSize
    <3> HIDE DEF single
    <3>2. QED
      BY <1>5, <3>1, ChosenFrom
  <2>2. FS!Fits(FS!Max(single), 10)
    BY <2>1
  <2> DEFINE m == FS!Max(single)
  <2>3. entry' = [do |-> "size", size |-> m, spacing |-> 10] /\ m \in 0..100 /\ m > 0
    <3> HIDE DEF smaller, single
    <3>1. QED
      BY <1>2, <1>3, <1>5, <2>1
  <2> HIDE DEF smaller, single, m
  <2>4. FS!Fits(m, 10)
    BY <2>2 DEF m
  <2>5. FitSize'
    BY <2>3, <2>4 DEF FitSize, FS!Fits, FS!Capacity
  <2>6. QED
    BY <2>3, <2>5 DEF FitEntry
<1>6. CASE smaller = {} /\ single = {}
  <2> HIDE DEF smaller, single
  <2>1. entry' = [do |-> "manual"]
    BY <1>3, <1>6
  <2>2. QED
    BY <2>1 DEF FitEntry
<1>7. QED
  BY <1>4, <1>5, <1>6

(* A text never needs to shrink to nothing, in any case not under nothing.   *)
LEMMA FitShrinks ==
  ASSUME FitTypes PROVE FS!Shrunk \in 0..100
<1> DEFINE h == frame.y1 - frame.y0
           over == suggestFlags["top"] + suggestFlags["bottom"]
           S == {s \in 0..suggestText.size : s * s * (h + over) <= suggestText.size * suggestText.size * h
                                             /\ (over = 0 => s < suggestText.size)}
<1>1. suggestText.size \in 1..100 /\ h \in Nat
  BY DEF FitTypes, FitText, FitFrame
<1>2. over \in Nat
  <2>1. suggestFlags["top"] \in Nat /\ suggestFlags["bottom"] \in Nat
    BY FitConstants DEF FitTypes, FS!Sides
  <2>2. QED
    BY <2>1
<1>3. FS!Shrunk = FS!Max(S)
  BY DEF FS!Shrunk
<1> HIDE DEF h, over
<1>4. 0 \in S
  <2>1. suggestText.size * suggestText.size * h \in Nat
    <3>1. suggestText.size * suggestText.size \in Nat
      BY <1>1
    <3>2. QED
      BY <1>1, <3>1
  <2>2. 0 * 0 * (h + over) = 0
    BY <1>1, <1>2
  <2>3. QED
    BY <1>1, <2>1, <2>2
<1>5. FS!Max(S) \in 0..suggestText.size
  <2>1. S \in SUBSET (0..suggestText.size) /\ S # {} /\ suggestText.size \in Int /\ 0 \in Int
    BY <1>1, <1>4
  <2> HIDE DEF S
  <2>2. QED
    BY <2>1, ChosenFrom
<1>6. QED
  BY <1>1, <1>3, <1>5

LEMMA FitGrownUp ==
  ASSUME FitTypes, FS!FreeSpace(FS!Grown)
  PROVE  /\ FS!Grown \in FitFrame /\ FS!Grown.x0 < FS!Grown.x1 /\ FS!Grown.y0 < FS!Grown.y1
         /\ FS!Grown.x0 >= 0 /\ FS!Grown.y0 >= 0 /\ FS!Grown.x1 <= SlideWidth /\ FS!Grown.y1 <= SlideHeight
<1>1. FS!Grown.x1 <= SlideWidth
  BY DEF FS!FreeSpace
<1>2. FS!More("top") \in Nat /\ FS!More("bottom") \in Nat /\ FS!More("right") \in Nat
  BY FitMore DEF FS!Sides
<1>3. frame \in FitFrame /\ frame.x0 < frame.x1 /\ frame.y0 < frame.y1 /\ frame.x0 >= 0
  BY DEF FitTypes
<1>4. /\ FS!Grown \in FitFrame /\ FS!Grown.y1 <= SlideHeight
      /\ FS!Grown.x0 = frame.x0 /\ FS!Grown.x1 = frame.x1 + FS!More("right")
      /\ FS!Grown.y0 = FS!Grown.y1 - (frame.y1 - frame.y0 + FS!More("top") + FS!More("bottom"))
      /\ FS!Grown.y0 >= 0
  BY FitObstacles
<1>5. QED
  BY <1>1, <1>2, <1>3, <1>4 DEF FitFrame

LEMMA FitSuggestsText ==
  ASSUME FitTypes, suggestText.kind = "text", entry' = FS!SuggestText, UNCHANGED <<frame, suggestText, others, suggestFlags, outcome>>
  PROVE  outcome = "none" => FitEntry'
<1>1. CASE entry' = [do |-> "manual"]
  BY <1>1 DEF FitEntry
<1>2. CASE entry' = [do |-> "resize", frame |-> FS!Grown] /\ FS!FreeSpace(FS!Grown)
  <2>1. FS!Grown' = FS!Grown /\ FS!FreeSpace(FS!Grown)' = FS!FreeSpace(FS!Grown)
    BY DEF FS!Grown, FS!FreeSpace, FS!Obstacles, FS!Below, FS!Above, FS!Middle, FS!More, FS!Contains, FS!FullSlide, FS!Column
  <2>2. /\ FS!Grown \in FitFrame /\ FS!Grown.x0 < FS!Grown.x1 /\ FS!Grown.y0 < FS!Grown.y1
        /\ FS!Grown.x0 >= 0 /\ FS!Grown.y0 >= 0 /\ FS!Grown.x1 <= SlideWidth /\ FS!Grown.y1 <= SlideHeight
    BY <1>2, FitGrownUp
  <2>3. FitResize'
    BY <1>2, <2>1, <2>2 DEF FitResize
  <2>4. QED
    BY <1>2, <2>3 DEF FitEntry
<1>3. CASE entry' = [do |-> "size", size |-> FS!Shrunk, spacing |-> suggestText.spacing]
  <2>1. FS!Shrunk \in 0..100 /\ suggestText.spacing \in 10..30
    BY FitShrinks DEF FitTypes, FitText
  <2>2. FitSize'
    BY <1>3, <2>1 DEF FitSize
  <2>3. QED
    BY <1>3, <2>2 DEF FitEntry
<1>4. QED
  <2> DEFINE none == \A side \in DOMAIN suggestFlags : suggestFlags[side] = 0
             grows == (\E side \in DOMAIN suggestFlags : suggestFlags[side] > 0) /\ FS!FreeSpace(FS!Grown)
  <2>1. entry' = CASE none -> [do |-> "manual"]
                   [] grows -> [do |-> "resize", frame |-> FS!Grown]
                   [] OTHER -> [do |-> "size", size |-> FS!Shrunk, spacing |-> suggestText.spacing]
    BY DEF FS!SuggestText, FS!Manual
  <2>2. ~ (none /\ grows)
    BY FitConstants DEF FitTypes
  <2>3. grows => FS!FreeSpace(FS!Grown)
    OBVIOUS
  <2> HIDE DEF none, grows
  <2>4. QED
    BY <1>1, <1>2, <1>3, <2>1, <2>2, <2>3

LEMMA FitSuggested ==
  ASSUME FitInv, FS!Suggest PROVE FitInv'
<1>1. /\ entry = FS!None /\ UNCHANGED <<frame, suggestText, others, suggestFlags, outcome>>
      /\ entry' = CASE suggestText.kind = "chip" -> FS!WidenChip [] suggestText.kind = "code" -> FS!SuggestSize
                    [] OTHER -> FS!SuggestText
  BY DEF FS!Suggest
<1>2. FitTypes /\ suggestText.kind \in {"text", "chip", "code"}
  BY DEF FitInv, FitTypes, FitText
<1>5. outcome = "none" /\ outcome' = "none"
  BY <1>1, <1>2 DEF FitInv, FitTypes, FitEntry, FS!None
<1>3. FitEntry'
  BY <1>1, <1>2, <1>5, FitWidens, FitSuggestsSize, FitSuggestsText
<1>4. FitTypes'
  BY <1>1, <1>2 DEF FitTypes
<1>6. QED
  BY <1>1, <1>3, <1>4, <1>5 DEF FitInv, FS!SuggestionsApply

LEMMA FitAppliesSize ==
  ASSUME FitInv, FS!ApplySize PROVE FitInv'
<1> DEFINE ok == \/ suggestText.kind = "text" /\ entry.size >= FS!MinTextSize
                 \/ suggestText.kind = "code" /\ FS!Capacity(entry.size, entry.spacing, suggestText.lines, suggestText.columns)
<1>1. /\ entry.do = "size" /\ outcome = "none"
      /\ outcome' = IF ok THEN "applied" ELSE "failed"
      /\ suggestText' = IF ok THEN [suggestText EXCEPT !.size = entry.size, !.spacing = entry.spacing] ELSE suggestText
      /\ UNCHANGED <<frame, others, suggestFlags, entry>>
  BY DEF FS!ApplySize
<1>2. FitTypes /\ FitSize /\ FitEntry
  BY <1>1 DEF FitInv, FitEntry
<1>3. CASE ok
  <2>1. entry.size \in 1..100 /\ entry.spacing \in 10..30
    BY <1>2, <1>3 DEF FitSize, FS!MinTextSize
  <2> HIDE DEF ok
  <2>2. suggestText' \in FitText
    BY <1>1, <1>2, <1>3, <2>1 DEF FitTypes, FitText
  <2>3. QED
    BY <1>1, <1>2, <1>3, <2>2 DEF FitInv, FitTypes, FitEntry, FS!SuggestionsApply
<1>4. CASE ~ ok
  <2>1. suggestText.kind = "text" /\ entry.size < FS!MinTextSize
    <3>1. entry.size \in 0..100
      BY <1>2 DEF FitSize
    <3>2. suggestText.kind # "text" => FALSE
      BY <1>2, <1>4 DEF FitSize, FS!Fits
    <3>3. QED
      BY <1>4, <3>1, <3>2 DEF FS!MinTextSize
  <2> HIDE DEF ok
  <2>2. suggestText' = suggestText /\ outcome' = "failed"
    BY <1>1, <1>4
  <2>3. FitTypes'
    BY <1>1, <1>2, <2>2 DEF FitTypes
  <2>4. FitSize'
    BY <1>1, <1>2, <2>1, <2>2 DEF FitSize
  <2>5. FitEntry'
    BY <1>1, <1>2, <2>2, <2>4 DEF FitEntry
  <2>6. QED
    BY <1>1, <2>1, <2>2, <2>3, <2>5 DEF FitInv, FS!SuggestionsApply, FS!MinTextSize
<1>5. QED
  BY <1>3, <1>4

LEMMA FitAppliesResize ==
  ASSUME FitInv, FS!ApplyResize PROVE FitInv'
<1> DEFINE ok == entry.frame.x0 >= 0 /\ entry.frame.y0 >= 0 /\ entry.frame.x1 <= SlideWidth /\ entry.frame.y1 <= SlideHeight
<1>1. /\ entry.do = "resize" /\ outcome = "none"
      /\ outcome' = IF ok THEN "applied" ELSE "failed"
      /\ frame' = IF ok THEN entry.frame ELSE frame
      /\ UNCHANGED <<suggestText, others, suggestFlags, entry>>
  BY DEF FS!ApplyResize
<1>2. FitTypes /\ FitResize /\ FitEntry
  BY <1>1 DEF FitInv, FitEntry
<1>3. CASE ok
  BY <1>1, <1>2, <1>3 DEF FitInv, FitTypes, FitResize, FitEntry, FS!SuggestionsApply
<1>4. CASE ~ ok
  <2>1. entry.frame.x0 \in Int /\ suggestText.kind = "chip" /\ ~ (entry.frame.x0 >= 0)
    BY <1>2, <1>4 DEF FitResize, FitFrame
  <2> HIDE DEF ok
  <2>2. frame' = frame /\ outcome' = "failed"
    BY <1>1, <1>4
  <2>3. FitTypes'
    BY <1>1, <1>2, <2>2 DEF FitTypes
  <2>4. FitResize'
    BY <1>1, <1>2, <2>1, <2>2 DEF FitResize
  <2>5. FitEntry'
    BY <1>1, <1>2, <2>2, <2>4 DEF FitEntry
  <2>6. QED
    BY <1>1, <2>1, <2>2, <2>3, <2>5 DEF FitInv, FS!SuggestionsApply
<1>5. QED
  BY <1>3, <1>4

LEMMA FitMeasures ==
  ASSUME FitInv, NEW side \in FS!Sides, NEW by \in FitOverflows \ {0}, FS!Measure(side, by) PROVE FitInv'
<1>1. /\ suggestFlags' = [s \in DOMAIN suggestFlags |-> IF s = side THEN by ELSE 0]
      /\ entry' = FS!None /\ outcome' = "none" /\ UNCHANGED <<frame, suggestText, others>>
  BY DEF FS!Measure
<1>2. FitTypes
  BY DEF FitInv
<1>3. 0 \in FitOverflows
  BY FitConstants
<1>4. suggestFlags' \in [FS!Sides -> FitOverflows]
  BY <1>1, <1>2, <1>3 DEF FitTypes
<1>5. QED
  BY <1>1, <1>2, <1>4 DEF FitInv, FitTypes, FitEntry, FS!None, FS!SuggestionsApply

(* A text that grew stops a gap away from what is above and below it.        *)
LEMMA FitClear ==
  ASSUME FitTypes, FS!FreeSpace(FS!Grown), NEW b \in others, FS!Overlap(FS!Grown, b),
         ~ FS!FullSlide(b), FS!Below(b) \/ FS!Above(b)
  PROVE  FS!Overlap(frame, b)
<1>1. b \in FitFrame /\ b.x0 < b.x1 /\ b.y0 < b.y1
  BY FitConstants DEF FitTypes
<1>2. frame \in FitFrame /\ frame.x0 < frame.x1 /\ frame.y0 < frame.y1
  BY DEF FitTypes
<1>3. FS!More("top") \in Nat /\ FS!More("bottom") \in Nat /\ FS!More("right") \in Nat
  BY FitMore DEF FS!Sides
<1> DEFINE g == FS!Grown
<1>4. /\ g \in FitFrame /\ g.x0 = frame.x0 /\ g.x1 = frame.x1 + FS!More("right")
      /\ b \in FS!Obstacles /\ FS!Below(b) => g.y1 <= b.y0 - FS!Gap
      /\ b \in FS!Obstacles /\ FS!Above(b) => g.y0 >= b.y1 + FS!Gap
  BY FitObstacles
<1> HIDE DEF g
<1>5. FS!Overlap(g, b) => b.x0 < g.x1 /\ g.x0 < b.x1 /\ b.y0 < g.y1 /\ g.y0 < b.y1
  <2>1. /\ g.x0 \in Int /\ g.x1 \in Int /\ g.y0 \in Int /\ g.y1 \in Int
        /\ b.x0 \in Int /\ b.x1 \in Int /\ b.y0 \in Int /\ b.y1 \in Int
    BY <1>1, <1>4 DEF FitFrame
  <2>2. /\ FS!Max({g.x0, b.x0}) = IF g.x0 >= b.x0 THEN g.x0 ELSE b.x0
        /\ FS!Min({g.x1, b.x1}) = IF g.x1 <= b.x1 THEN g.x1 ELSE b.x1
        /\ FS!Max({g.y0, b.y0}) = IF g.y0 >= b.y0 THEN g.y0 ELSE b.y0
        /\ FS!Min({g.y1, b.y1}) = IF g.y1 <= b.y1 THEN g.y1 ELSE b.y1
    BY <2>1, OfTwo
  <2>3. FS!Overlap(g, b) => /\ FS!Max({g.x0, b.x0}) < FS!Min({g.x1, b.x1})
                            /\ FS!Max({g.y0, b.y0}) < FS!Min({g.y1, b.y1})
    BY DEF FS!Overlap
  <2>4. QED
    BY <2>1, <2>2, <2>3
<1>6. FS!Overlap(frame, b) = /\ (IF frame.x0 >= b.x0 THEN frame.x0 ELSE b.x0) < (IF frame.x1 <= b.x1 THEN frame.x1 ELSE b.x1)
                             /\ (IF frame.y0 >= b.y0 THEN frame.y0 ELSE b.y0) < (IF frame.y1 <= b.y1 THEN frame.y1 ELSE b.y1)
  <2>1. /\ frame.x0 \in Int /\ frame.x1 \in Int /\ frame.y0 \in Int /\ frame.y1 \in Int
        /\ b.x0 \in Int /\ b.x1 \in Int /\ b.y0 \in Int /\ b.y1 \in Int
    BY <1>1, <1>2 DEF FitFrame
  <2>2. QED
    BY <2>1, OfTwo DEF FS!Overlap
<1>7. CASE FS!Contains(b)
  BY <1>1, <1>2, <1>6, <1>7 DEF FS!Contains, FitFrame
<1>8. CASE ~ FS!Contains(b)
  <2>1. FS!Overlap(g, b)
    BY DEF g
  <2>2. b.x0 < g.x1 /\ g.x0 < b.x1 /\ b.y0 < g.y1 /\ g.y0 < b.y1
    BY <1>5, <2>1
  <2>3. b \in FS!Obstacles
    BY <1>4, <1>8, <2>2 DEF FS!Obstacles, FS!Column
  <2>4. g.y1 <= b.y0 - 1 \/ g.y0 >= b.y1 + 1
    BY <1>4, <2>3 DEF FS!Gap
  <2>5. QED
    BY <1>1, <1>4, <2>2, <2>4 DEF FitFrame
<1>9. QED
  BY <1>7, <1>8

LEMMA FitGrows ==
  ASSUME FitInv, FS!ApplyResize, frame' # frame, suggestText.kind = "text", NEW b \in others,
         FS!Overlap(frame', b)
  PROVE  FS!Overlap(frame, b) \/ FS!FullSlide(b) \/ ~ (FS!Below(b) \/ FS!Above(b))
<1>1. entry.do = "resize" /\ outcome = "none" /\ frame' = entry.frame
  BY DEF FS!ApplyResize
<1>2. FitTypes /\ entry.frame = FS!Grown /\ FS!FreeSpace(FS!Grown)
  BY <1>1 DEF FitInv, FitEntry, FitResize
<1>3. QED
  BY <1>1, <1>2, FitClear

LEMMA FitNext ==
  ASSUME FitInv, [FS!Next]_fitsuggest
  PROVE  /\ FitInv'
         /\ [frame' # frame /\ suggestText.kind = "text" =>
               \A b \in others :
                 FS!Overlap(frame', b) => FS!Overlap(frame, b) \/ FS!FullSlide(b) \/ ~ (FS!Below(b) \/ FS!Above(b))]_(FS!vars)
<1> DEFINE Grow == \A b \in others :
                 FS!Overlap(frame', b) => FS!Overlap(frame, b) \/ FS!FullSlide(b) \/ ~ (FS!Below(b) \/ FS!Above(b))
<1>1. CASE UNCHANGED fitsuggest
  BY <1>1, FitStill DEF fitsuggest
<1>2. CASE FS!Suggest
  BY <1>2, FitSuggested DEF FS!Suggest
<1>3. CASE FS!ApplySize
  BY <1>3, FitAppliesSize DEF FS!ApplySize
<1>4. CASE FS!ApplyResize
  <2>1. FitInv'
    BY <1>4, FitAppliesResize
  <2>2. frame' # frame /\ suggestText.kind = "text" => Grow
    BY <1>4, FitGrows
  <2>3. QED
    BY <2>1, <2>2
<1>5. ASSUME NEW side \in FS!Sides, NEW by \in FitOverflows \ {0}, FS!Measure(side, by)
      PROVE FitInv' /\ frame' = frame
  BY <1>5, FitMeasures DEF FS!Measure
<1>6. QED
  BY <1>1, <1>2, <1>3, <1>4, <1>5 DEF FS!Next

(* What gen_fit suggests is what the fit check then accepts.                 *)
THEOREM FitInvariance == Spec => []FitInv
<1>1. FitInv /\ [FS!Next]_fitsuggest => FitInv'
  BY FitNext
<1>2. QED
  BY <1>1, Behaviours, FitInitially, PTL DEF Spec

-------------------------------------------------------------------------------
(* fixA_verify.py.                                                           *)
AuditMarkers == {"line", "url", "none"}
AuditBoxLine ==
  [ticks : BOOLEAN, words : SUBSET AuditWords, marker : AuditMarkers, comment : SUBSET AuditWords,
   dot : BOOLEAN, miscoloured : BOOLEAN]
AuditLine ==
  [kind : {"title", "text", "notes", "raw", "code", "ticks"}, at : 1..AuditSize, words : SUBSET AuditWords,
   inline : SUBSET AuditWords, comment : SUBSET AuditWords, marker : AuditMarkers, dot : BOOLEAN]

AuditInv ==
  /\ auditDeck \in [1..AuditSize -> AuditItems]
  /\ auditChecked => hits = DA!Hits

LEMMA AuditInitially == DA!Init => AuditInv
BY DEF DA!Init, AuditInv

LEMMA AuditSteps == AuditInv /\ [DA!Next]_deckaudit => AuditInv'
<1> SUFFICES ASSUME AuditInv, [DA!Next]_deckaudit PROVE AuditInv'
  OBVIOUS
<1>1. CASE UNCHANGED deckaudit
  <2>1. auditDeck' = auditDeck /\ hits' = hits /\ auditChecked' = auditChecked
    BY <1>1 DEF deckaudit
  <2>2. DA!Hits' = DA!Hits
    BY <2>1 DEF DA!Hits, DA!Copy
  <2>3. QED
    BY <2>1, <2>2 DEF AuditInv
<1>2. CASE DA!Check
  BY <1>2 DEF DA!Check, AuditInv, DA!Hits, DA!Copy
<1>3. ASSUME NEW i \in 1..AuditSize, NEW item \in AuditItems, DA!Edit(i, item) PROVE AuditInv'
  BY <1>3 DEF DA!Edit, AuditInv
<1>4. QED
  BY <1>1, <1>2, <1>3 DEF DA!Next

(* A deck has boxes and prose.                                               *)
LEMMA AuditProse ==
  ASSUME NEW item \in AuditItems, item.kind # "code"
  PROVE  item \in [kind : {"title", "text", "notes", "raw"}, words : SUBSET AuditWords, inline : SUBSET AuditWords]
BY DeckAuditAssumption DEF CodeOf

LEMMA AuditBox ==
  ASSUME NEW item \in AuditItems, item.kind = "code"
  PROVE  /\ item.lines \in Seq(AuditBoxLine) /\ Len(item.lines) \in Nat /\ DOMAIN item.lines = 1..Len(item.lines)
         /\ \A k \in 1..Len(item.lines) : /\ item.lines[k] \in AuditBoxLine
                                          /\ item.lines[k].ticks => item.lines[k].marker # "line"
<1>1. item.lines \in Seq(AuditBoxLine)
  <2>1. ~(item \in [kind : {"title", "text", "notes", "raw"}, words : SUBSET AuditWords, inline : SUBSET AuditWords])
    OBVIOUS
  <2>2. QED
    BY <2>1, DeckAuditAssumption DEF AuditBoxLine, AuditMarkers
<1>2. Len(item.lines) \in Nat /\ DOMAIN item.lines = 1..Len(item.lines)
      /\ \A k \in 1..Len(item.lines) : item.lines[k] \in AuditBoxLine
  BY <1>1, LenProperties
<1>3. \A k \in DOMAIN item.lines : item.lines[k].ticks => item.lines[k].marker # "line"
  <2>1. ~(item \in [kind : {"title", "text", "notes", "raw"}, words : SUBSET AuditWords, inline : SUBSET AuditWords])
    OBVIOUS
  <2>2. QED
    BY <2>1, DeckAuditAssumption
<1>4. QED
  BY <1>1, <1>2, <1>3

(* What the copy shows of an item.                                           *)
ProseShown(item, i) ==
  [kind |-> item.kind, at |-> i, words |-> item.words, inline |-> item.inline, comment |-> {},
   marker |-> "none", dot |-> FALSE]
BoxLineShown(l, i) ==
  IF l.ticks THEN DA!Ticks(i)
  ELSE [kind |-> "code", at |-> i, words |-> l.words, inline |-> {}, comment |-> l.comment, marker |-> l.marker,
        dot |-> l.dot]

LEMMA AuditProseShown ==
  ASSUME NEW item \in AuditItems, item.kind # "code", NEW i \in 1..AuditSize
  PROVE  /\ DA!Rendered(item, i) \in Seq(AuditLine) /\ Len(DA!Rendered(item, i)) = 1
         /\ DA!Rendered(item, i)[1] = ProseShown(item, i)
<1> DEFINE l == ProseShown(item, i)
<1>1. DA!Rendered(item, i) = <<l>>
  BY DEF DA!Rendered, ProseShown
<1>2. l \in AuditLine
  BY AuditProse DEF ProseShown, AuditLine, AuditMarkers
<1> HIDE DEF l
<1>3. <<l>> \in Seq(AuditLine) /\ Len(<<l>>) = 1 /\ <<l>>[1] = l
  BY <1>2
<1>4. QED
  BY <1>1, <1>3 DEF l

LEMMA AuditBoxShown ==
  ASSUME NEW item \in AuditItems, item.kind = "code", NEW i \in 1..AuditSize
  PROVE  /\ DA!Rendered(item, i) \in Seq(AuditLine) /\ Len(DA!Rendered(item, i)) = Len(item.lines) + 2
         /\ DA!Rendered(item, i)[1] = DA!Ticks(i) /\ DA!Rendered(item, i)[Len(item.lines) + 2] = DA!Ticks(i)
         /\ \A k \in 1..Len(item.lines) : DA!Rendered(item, i)[k + 1] = BoxLineShown(item.lines[k], i)
<1> DEFINE n == Len(item.lines)
           t == DA!Ticks(i)
           s == [k \in DOMAIN item.lines |-> BoxLineShown(item.lines[k], i)]
           a == <<t>>
           r == (a \o s) \o a
<1>1. DA!Rendered(item, i) = r
  BY DEF DA!Rendered, BoxLineShown
<1>2. n \in Nat /\ DOMAIN item.lines = 1..n /\ \A k \in 1..n : item.lines[k] \in AuditBoxLine
  BY AuditBox
<1>3. t \in AuditLine
  BY DEF DA!Ticks, AuditLine, AuditMarkers
<1>4. \A k \in 1..n : BoxLineShown(item.lines[k], i) \in AuditLine
  <2>1. ASSUME NEW l \in AuditBoxLine PROVE BoxLineShown(l, i) \in AuditLine
    BY <1>3 DEF BoxLineShown, AuditBoxLine, AuditLine
  <2>2. QED
    BY <1>2, <2>1
<1>5. s \in Seq(AuditLine) /\ Len(s) = n /\ \A k \in 1..n : s[k] = BoxLineShown(item.lines[k], i)
  <2>1. s \in [1..n -> AuditLine] /\ \A k \in 1..n : s[k] = BoxLineShown(item.lines[k], i)
    BY <1>2, <1>4
  <2> HIDE DEF s
  <2>2. QED
    BY <1>2, <2>1, SeqDef, LenProperties
<1>6. a \in Seq(AuditLine) /\ Len(a) = 1 /\ a[1] = t
  BY <1>3
<1> HIDE DEF s, a, n, t
<1>7. /\ a \o s \in Seq(AuditLine) /\ Len(a \o s) = 1 + n
      /\ \A k \in 1..1 + n : (a \o s)[k] = IF k <= 1 THEN a[k] ELSE s[k - 1]
  <2>1. /\ a \o s \in Seq(AuditLine) /\ Len(a \o s) = Len(a) + Len(s)
        /\ \A k \in 1..Len(a) + Len(s) : (a \o s)[k] = IF k <= Len(a) THEN a[k] ELSE s[k - Len(a)]
    BY <1>5, <1>6, ConcatProperties
  <2>2. QED
    BY <1>5, <1>6, <2>1
<1> DEFINE b == a \o s
<1>8. b \in Seq(AuditLine) /\ Len(b) = 1 + n
  BY <1>7
<1>9. b[1] = t /\ \A k \in 1..n : b[k + 1] = s[k]
  <2>1. \A k \in 1..1 + n : b[k] = IF k <= 1 THEN a[k] ELSE s[k - 1]
    BY <1>7
  <2> HIDE DEF b
  <2>2. b[1] = t
    BY <1>2, <1>6, <2>1
  <2>3. ASSUME NEW k \in 1..n PROVE b[k + 1] = s[k]
    <3> DEFINE j == k + 1
    <3>1. j \in 1..1 + n /\ ~(j <= 1) /\ j - 1 = k
      BY <1>2
    <3> HIDE DEF j
    <3>2. b[j] = s[k]
      BY <2>1, <3>1
    <3>3. QED
      BY <3>2 DEF j
  <2>4. QED
    BY <2>2, <2>3
<1> HIDE DEF b
<1>10. /\ b \o a \in Seq(AuditLine) /\ Len(b \o a) = (1 + n) + 1
       /\ \A k \in 1..(1 + n) + 1 : (b \o a)[k] = IF k <= 1 + n THEN b[k] ELSE a[k - (1 + n)]
  <2>1. /\ b \o a \in Seq(AuditLine) /\ Len(b \o a) = Len(b) + Len(a)
        /\ \A k \in 1..Len(b) + Len(a) : (b \o a)[k] = IF k <= Len(b) THEN b[k] ELSE a[k - Len(b)]
    BY <1>6, <1>8, ConcatProperties
  <2>2. QED
    BY <1>6, <1>8, <2>1
<1>11. (b \o a)[1] = t /\ (b \o a)[n + 2] = t /\ \A k \in 1..n : (b \o a)[k + 1] = s[k]
  <2>1. /\ 1 \in 1..(1 + n) + 1 /\ 1 <= 1 + n
        /\ n + 2 \in 1..(1 + n) + 1 /\ ~(n + 2 <= 1 + n) /\ (n + 2) - (1 + n) = 1
        /\ \A k \in 1..n : k + 1 \in 1..(1 + n) + 1 /\ k + 1 <= 1 + n
    BY <1>2
  <2>2. QED
    BY <1>6, <1>9, <1>10, <2>1
<1>12. r = b \o a /\ Len(b \o a) = n + 2
  BY <1>2, <1>10 DEF b
<1> HIDE DEF r
<1>13. r \in Seq(AuditLine) /\ Len(r) = n + 2 /\ r[1] = t /\ r[n + 2] = t
       /\ \A k \in 1..n : r[k + 1] = BoxLineShown(item.lines[k], i)
  BY <1>5, <1>10, <1>11, <1>12
<1>14. QED
  BY <1>1, <1>13 DEF n, t

-------------------------------------------------------------------------------
(* The lines of ticks up to a place of the copy.                             *)
AuditTicks(c, n) == {j \in 1..n : c[j].kind = "ticks"}

Shift(S, d) == {x + d : x \in S}

LEMMA Shifted ==
  ASSUME NEW S \in SUBSET Int, IsFiniteSet(S), NEW d \in Int
  PROVE  IsFiniteSet(Shift(S, d)) /\ Cardinality(Shift(S, d)) = Cardinality(S)
<1> DEFINE T == {x + d : x \in S}
           f == [x \in S |-> x + d]
<1>1. f \in [S -> T] /\ (\A x, y \in S : f[x] = f[y] => x = y) /\ \A t \in T : \E x \in S : f[x] = t
  OBVIOUS
<1>2. ExistsBijection(S, T)
  <2> HIDE DEF f, T
  <2>1. f \in Bijection(S, T)
    BY <1>1 DEF Bijection, Injection, Surjection, IsInjective
  <2>2. QED
    BY <2>1 DEF ExistsBijection
<1>3. QED
  BY <1>2, FS_Bijection DEF Shift

LEMMA TicksCounted == ASSUME NEW c, NEW n \in Nat PROVE IsFiniteSet(AuditTicks(c, n)) /\ Cardinality(AuditTicks(c, n)) \in Nat
<1>1. IsFiniteSet(1..n) /\ AuditTicks(c, n) \in SUBSET (1..n)
  BY FS_Interval DEF AuditTicks
<1>2. QED
  BY <1>1, FS_Subset, FS_CardinalityType

LEMMA TicksAdd ==
  ASSUME NEW c, NEW r, NEW x \in Nat, NEW n \in Nat, \A p \in 1..n : c[x + p] = r[p]
  PROVE  Cardinality(AuditTicks(c, x + n)) = Cardinality(AuditTicks(c, x)) + Cardinality(AuditTicks(r, n))
<1> DEFINE S == AuditTicks(c, x)
           T == AuditTicks(r, n)
           U == Shift(T, x)
<1>1. IsFiniteSet(S) /\ IsFiniteSet(T) /\ Cardinality(S) \in Nat /\ Cardinality(T) \in Nat
  BY TicksCounted
<1>2. T \in SUBSET Int
  BY DEF AuditTicks
<1>3. IsFiniteSet(U) /\ Cardinality(U) = Cardinality(T)
  <2> HIDE DEF T
  <2>1. QED
    BY <1>1, <1>2, Shifted
<1>4. AuditTicks(c, x + n) = S \cup U
  <2>1. ASSUME NEW j \in AuditTicks(c, x + n) PROVE j \in S \cup U
    <3>1. j \in 1..x + n /\ c[j].kind = "ticks"
      BY DEF AuditTicks
    <3>2. CASE j <= x
      BY <3>1, <3>2 DEF AuditTicks
    <3>3. CASE ~(j <= x)
      <4> DEFINE p == j - x
      <4>1. p \in 1..n /\ x + p = j /\ p + x = j
        BY <3>1, <3>3
      <4> HIDE DEF p
      <4>2. r[p].kind = "ticks"
        BY <3>1, <4>1
      <4>3. p \in T
        BY <4>1, <4>2 DEF AuditTicks
      <4>4. QED
        BY <4>1, <4>3 DEF Shift
    <3>4. QED
      BY <3>2, <3>3
  <2>2. ASSUME NEW j \in S PROVE j \in AuditTicks(c, x + n)
    BY DEF AuditTicks
  <2>3. ASSUME NEW p \in T PROVE p + x \in AuditTicks(c, x + n)
    <3>1. p \in 1..n /\ r[p].kind = "ticks"
      BY DEF AuditTicks
    <3>2. c[x + p].kind = "ticks" /\ p + x = x + p /\ x + p \in 1..x + n
      BY <3>1
    <3> DEFINE j == x + p
    <3>3. j \in 1..x + n /\ c[j].kind = "ticks" /\ j = p + x
      BY <3>2
    <3> HIDE DEF j
    <3>4. QED
      BY <3>3 DEF AuditTicks
  <2>4. QED
    BY <2>1, <2>2, <2>3 DEF Shift
<1>5. S \cap U = {}
  <2>1. ASSUME NEW p \in T PROVE p + x \notin S
    BY DEF AuditTicks
  <2>2. QED
    BY <2>1 DEF Shift
<1> HIDE DEF S, T, U
<1>6. Cardinality(S \cup U) = Cardinality(S) + Cardinality(U) - Cardinality(S \cap U)
  BY <1>1, <1>3, FS_Union
<1>7. Cardinality(S \cap U) = 0
  BY <1>5, FS_EmptySet
<1>8. Cardinality(S \cup U) = Cardinality(S) + Cardinality(T)
  BY <1>1, <1>3, <1>6, <1>7
<1>9. QED
  BY <1>4, <1>8 DEF S, T

(* The ticks of a box: its fence, and those among its lines.                 *)
LEMMA BoxTicks ==
  ASSUME NEW item \in AuditItems, item.kind = "code", NEW i \in 1..AuditSize
  PROVE  /\ IsFiniteSet(DA!Inner(item)) /\ Cardinality(DA!Inner(item)) \in Nat
         /\ Cardinality(AuditTicks(DA!Rendered(item, i), Len(item.lines) + 2)) = Cardinality(DA!Inner(item)) + 2
         /\ DA!Inner(item) = {} =>
              \A k \in 1..Len(item.lines) : Cardinality(AuditTicks(DA!Rendered(item, i), k + 1)) = 1
<1> DEFINE n == Len(item.lines)
           r == DA!Rendered(item, i)
           I == DA!Inner(item)
<1>1. n \in Nat /\ DOMAIN item.lines = 1..n
  BY AuditBox
<1>2. /\ r[1] = DA!Ticks(i) /\ r[n + 2] = DA!Ticks(i)
      /\ \A k \in 1..n : r[k + 1] = BoxLineShown(item.lines[k], i)
  BY AuditBoxShown
<1>3. I = {k \in 1..n : item.lines[k].ticks}
  BY <1>1 DEF DA!Inner
<1>4. IsFiniteSet(I) /\ Cardinality(I) \in Nat
  <2>1. IsFiniteSet(1..n) /\ I \in SUBSET (1..n)
    BY <1>1, <1>3, FS_Interval
  <2>2. QED
    BY <2>1, FS_Subset, FS_CardinalityType
<1>5. r[1].kind = "ticks" /\ r[n + 2].kind = "ticks" /\ \A k \in 1..n : r[k + 1].kind = "ticks" <=> item.lines[k].ticks
  <2>1. DA!Ticks(i).kind = "ticks"
    BY DEF DA!Ticks
  <2>2. \A l \in AuditBoxLine : BoxLineShown(l, i).kind = "ticks" <=> l.ticks
    BY <2>1 DEF BoxLineShown
  <2>3. \A k \in 1..n : item.lines[k] \in AuditBoxLine
    BY AuditBox
  <2> HIDE DEF r, n
  <2>4. \A k \in 1..n : r[k + 1].kind = "ticks" <=> item.lines[k].ticks
    BY <1>2, <2>2, <2>3
  <2>5. QED
    BY <1>2, <2>1, <2>4
<1> HIDE DEF n, r, I
<1> DEFINE U == Shift(I, 1)
<1>6. IsFiniteSet(U) /\ Cardinality(U) = Cardinality(I)
  <2>1. I \in SUBSET Int
    BY <1>3
  <2>2. QED
    BY <1>4, <2>1, Shifted
<1>7. AuditTicks(r, n + 2) = (U \cup {1}) \cup {n + 2}
  <2>1. ASSUME NEW j \in 1..n + 2, r[j].kind = "ticks" PROVE j \in (U \cup {1}) \cup {n + 2}
    <3>1. CASE j = 1 \/ j = n + 2
      BY <3>1
    <3>2. CASE j # 1 /\ j # n + 2
      <4>1. j - 1 \in 1..n /\ (j - 1) + 1 = j
        BY <1>1, <3>2
      <4>2. item.lines[j - 1].ticks
        BY <1>5, <2>1, <4>1
      <4>3. j - 1 \in I
        BY <1>3, <4>1, <4>2
      <4>4. QED
        BY <4>1, <4>3 DEF Shift
    <3>3. QED
      BY <3>1, <3>2
  <2>2. ASSUME NEW k \in I PROVE k + 1 \in 1..n + 2 /\ r[k + 1].kind = "ticks"
    BY <1>1, <1>3, <1>5
  <2>3. 1 \in 1..n + 2 /\ n + 2 \in 1..n + 2
    BY <1>1
  <2>4. QED
    BY <1>5, <2>1, <2>2, <2>3 DEF AuditTicks, Shift
<1>8. 1 \notin U /\ n + 2 \notin U /\ n + 2 # 1
  BY <1>1, <1>3 DEF Shift
<1> HIDE DEF U
<1>9. Cardinality((U \cup {1}) \cup {n + 2}) = Cardinality(I) + 2
  <2>1. IsFiniteSet(U \cup {1}) /\ Cardinality(U \cup {1}) = Cardinality(U) + 1
    BY <1>6, <1>8, FS_AddElement
  <2>2. Cardinality((U \cup {1}) \cup {n + 2}) = Cardinality(U \cup {1}) + 1
    BY <1>8, <2>1, FS_AddElement
  <2>3. QED
    BY <1>4, <1>6, <2>1, <2>2
<1>10. ASSUME I = {}, NEW k \in 1..n PROVE Cardinality(AuditTicks(r, k + 1)) = 1
  <2>1. AuditTicks(r, k + 1) = {1}
    <3>1. ASSUME NEW j \in 1..k + 1, r[j].kind = "ticks" PROVE j = 1
      <4>1. SUFFICES ASSUME j # 1 PROVE FALSE
        OBVIOUS
      <4>2. j - 1 \in 1..n /\ (j - 1) + 1 = j
        BY <1>1, <4>1
      <4>3. item.lines[j - 1].ticks
        BY <1>5, <3>1, <4>2
      <4>4. QED
        BY <1>3, <1>10, <4>2, <4>3
    <3>2. 1 \in 1..k + 1
      BY <1>1
    <3>3. QED
      BY <1>5, <3>1, <3>2 DEF AuditTicks
  <2>2. QED
    BY <2>1, FS_Singleton
<1>11. QED
  BY <1>4, <1>7, <1>9, <1>10 DEF n, r, I

LEMMA ProseTicks ==
  ASSUME NEW item \in AuditItems, item.kind # "code", NEW i \in 1..AuditSize
  PROVE  Cardinality(AuditTicks(DA!Rendered(item, i), 1)) = 0
<1>1. DA!Rendered(item, i)[1].kind # "ticks"
  <2>1. DA!Rendered(item, i)[1] = ProseShown(item, i)
    BY AuditProseShown
  <2>2. ProseShown(item, i).kind = item.kind
    BY DEF ProseShown
  <2>3. item.kind # "ticks"
    BY AuditProse
  <2>4. QED
    BY <2>1, <2>2, <2>3
<1>2. AuditTicks(DA!Rendered(item, i), 1) = {}
  BY <1>1 DEF AuditTicks
<1>3. QED
  BY <1>2, FS_EmptySet

LEMMA AuditCounts == \A S : DA!Cardinality(S) = Cardinality(S)
BY DEF DA!Cardinality, Cardinality

AuditRows == [i \in DOMAIN auditDeck |-> DA!Rendered(auditDeck[i], i)]

LEMMA AuditCopy ==
  ASSUME AuditInv
  PROVE  /\ AuditRows \in Seq(Seq(AuditLine)) /\ Len(AuditRows) = AuditSize /\ DOMAIN auditDeck = 1..AuditSize
         /\ \A i \in 1..AuditSize : auditDeck[i] \in AuditItems /\ AuditRows[i] = DA!Rendered(auditDeck[i], i)
         /\ DA!Copy = CB!FlattenSeq(AuditRows) /\ DOMAIN DA!Copy = 1..Len(DA!Copy)
<1>1. DOMAIN auditDeck = 1..AuditSize /\ \A i \in 1..AuditSize : auditDeck[i] \in AuditItems
  BY DEF AuditInv
<1>2. \A i \in 1..AuditSize : AuditRows[i] = DA!Rendered(auditDeck[i], i)
  BY <1>1 DEF AuditRows
<1>3. AuditRows \in [1..AuditSize -> Seq(AuditLine)]
  <2>1. ASSUME NEW i \in 1..AuditSize PROVE AuditRows[i] \in Seq(AuditLine)
    <3> DEFINE item == auditDeck[i]
    <3>1. item \in AuditItems /\ AuditRows[i] = DA!Rendered(item, i)
      BY <1>1, <1>2
    <3> HIDE DEF item
    <3>2. CASE item.kind = "code"
      BY <3>1, <3>2, AuditBoxShown
    <3>3. CASE item.kind # "code"
      BY <3>1, <3>3, AuditProseShown
    <3>4. QED
      BY <3>2, <3>3
  <2>2. AuditRows = [i \in 1..AuditSize |-> AuditRows[i]]
    BY <1>1 DEF AuditRows
  <2>3. QED
    BY <2>1, <2>2
<1>4. AuditRows \in Seq(Seq(AuditLine)) /\ Len(AuditRows) = AuditSize
  <2>1. AuditSize \in Nat
    BY DeckAuditAssumption
  <2>2. QED
    BY <1>3, <2>1, SeqDef, LenProperties
<1>5. DA!Copy = CB!FlattenSeq(AuditRows)
  BY DEF DA!Copy, AuditRows, DA!FlattenSeq, CB!FlattenSeq
<1>6. DOMAIN DA!Copy = 1..Len(DA!Copy)
  <2>1. CB!FlattenSeq(AuditRows) \in Seq(AuditLine)
    BY <1>4, FlatTyped
  <2>2. QED
    BY <1>5, <2>1, LenProperties
<1>7. QED
  BY <1>1, <1>2, <1>4, <1>5, <1>6

(* Where the lines of an item stand in the copy.                             *)
LEMMA AuditPlaces ==
  ASSUME AuditInv
  PROVE  \E o : /\ o \in [1..AuditSize + 1 -> Nat] /\ o[1] = 0
                /\ \A i \in 1..AuditSize : o[i + 1] = o[i] + Len(AuditRows[i])
                /\ \A i \in 1..AuditSize : \A k \in 1..Len(AuditRows[i]) :
                     o[i] + k \in DOMAIN DA!Copy /\ DA!Copy[o[i] + k] = AuditRows[i][k]
                /\ \A x \in DOMAIN DA!Copy : \E i \in 1..AuditSize : x - o[i] \in 1..Len(AuditRows[i])
<1>1. /\ AuditRows \in Seq(Seq(AuditLine)) /\ Len(AuditRows) = AuditSize
      /\ DA!Copy = CB!FlattenSeq(AuditRows) /\ DOMAIN DA!Copy = 1..Len(DA!Copy)
  BY AuditCopy
<1>2. PICK o : Begins(AuditRows, o)
  BY <1>1, FlatBegins
<1>3. \A x \in 1..Len(CB!FlattenSeq(AuditRows)) :
        \E i \in 1..Len(AuditRows) : x - o[i] \in 1..Len(AuditRows[i])
  BY <1>1, <1>2, FlatPlaces
<1>4. QED
  BY <1>1, <1>2, <1>3 DEF Begins

AuditOffsets ==
  CHOOSE o : /\ o \in [1..AuditSize + 1 -> Nat] /\ o[1] = 0
             /\ \A i \in 1..AuditSize : o[i + 1] = o[i] + Len(AuditRows[i])
             /\ \A i \in 1..AuditSize : \A k \in 1..Len(AuditRows[i]) :
                  o[i] + k \in DOMAIN DA!Copy /\ DA!Copy[o[i] + k] = AuditRows[i][k]
             /\ \A x \in DOMAIN DA!Copy : \E i \in 1..AuditSize : x - o[i] \in 1..Len(AuditRows[i])

LEMMA AuditPlaced ==
  ASSUME AuditInv
  PROVE  /\ \A i \in 1..AuditSize + 1 : AuditOffsets[i] \in Nat
         /\ AuditOffsets[1] = 0
         /\ \A i \in 1..AuditSize : AuditOffsets[i + 1] = AuditOffsets[i] + Len(AuditRows[i])
         /\ \A i \in 1..AuditSize : \A k \in 1..Len(AuditRows[i]) :
              AuditOffsets[i] + k \in DOMAIN DA!Copy /\ DA!Copy[AuditOffsets[i] + k] = AuditRows[i][k]
         /\ \A x \in DOMAIN DA!Copy : \E i \in 1..AuditSize : x - AuditOffsets[i] \in 1..Len(AuditRows[i])
<1> DEFINE P(o) == /\ o \in [1..AuditSize + 1 -> Nat] /\ o[1] = 0
                   /\ \A i \in 1..AuditSize : o[i + 1] = o[i] + Len(AuditRows[i])
                   /\ \A i \in 1..AuditSize : \A k \in 1..Len(AuditRows[i]) :
                        o[i] + k \in DOMAIN DA!Copy /\ DA!Copy[o[i] + k] = AuditRows[i][k]
                   /\ \A x \in DOMAIN DA!Copy : \E i \in 1..AuditSize : x - o[i] \in 1..Len(AuditRows[i])
<1>1. \E o : P(o)
  BY AuditPlaces
<1>2. AuditOffsets = CHOOSE o : P(o)
  BY DEF AuditOffsets
<1>3. P(AuditOffsets)
  <2> HIDE DEF P
  <2>1. QED
    BY <1>1, <1>2
<1>4. QED
  BY <1>3

(* The fences before an item are closed when the boxes hold their ticks in   *)
(* pairs.                                                                    *)
AuditCount(x) == Cardinality(AuditTicks(DA!Copy, x))

LEMMA AuditAdds ==
  ASSUME AuditInv, NEW i \in 1..AuditSize, NEW k \in 0..Len(AuditRows[i])
  PROVE  AuditCount(AuditOffsets[i] + k) = AuditCount(AuditOffsets[i]) + Cardinality(AuditTicks(AuditRows[i], k))
<1>1. AuditSize \in Nat /\ AuditOffsets[i] \in Nat /\ k \in Nat
  BY AuditPlaced, DeckAuditAssumption
<1>2. Len(AuditRows[i]) \in Nat
  <2>1. AuditRows \in Seq(Seq(AuditLine)) /\ Len(AuditRows) = AuditSize
    BY AuditCopy
  <2>2. QED
    BY <2>1
<1>3. \A p \in 1..k : p \in 1..Len(AuditRows[i])
  BY <1>1, <1>2
<1>4. \A p \in 1..k : DA!Copy[AuditOffsets[i] + p] = AuditRows[i][p]
  BY <1>3, AuditPlaced
<1> DEFINE c == DA!Copy
           r == AuditRows[i]
           x == AuditOffsets[i]
<1>5. x \in Nat /\ k \in Nat /\ \A p \in 1..k : c[x + p] = r[p]
  BY <1>1, <1>4
<1> HIDE DEF c, r, x
<1>6. Cardinality(AuditTicks(c, x + k)) = Cardinality(AuditTicks(c, x)) + Cardinality(AuditTicks(r, k))
  BY <1>5, TicksAdd
<1>7. QED
  BY <1>6 DEF AuditCount, c, r, x

LEMMA AuditRow ==
  ASSUME AuditInv, NEW i \in 1..AuditSize
  PROVE  /\ auditDeck[i] \in AuditItems /\ AuditRows[i] = DA!Rendered(auditDeck[i], i)
         /\ auditDeck[i].kind # "code" =>
              /\ Len(AuditRows[i]) = 1 /\ AuditRows[i][1] = ProseShown(auditDeck[i], i)
              /\ Cardinality(AuditTicks(AuditRows[i], 1)) = 0
         /\ auditDeck[i].kind = "code" =>
              /\ Len(auditDeck[i].lines) \in Nat /\ Len(AuditRows[i]) = Len(auditDeck[i].lines) + 2
              /\ AuditRows[i][1] = DA!Ticks(i) /\ AuditRows[i][Len(auditDeck[i].lines) + 2] = DA!Ticks(i)
              /\ \A k \in 1..Len(auditDeck[i].lines) : AuditRows[i][k + 1] = BoxLineShown(auditDeck[i].lines[k], i)
<1>1. auditDeck[i] \in AuditItems /\ AuditRows[i] = DA!Rendered(auditDeck[i], i)
  BY AuditCopy
<1>2. CASE auditDeck[i].kind # "code"
  BY <1>1, <1>2, AuditProseShown, ProseTicks
<1>3. CASE auditDeck[i].kind = "code"
  BY <1>1, <1>3, AuditBoxShown, AuditBox
<1>4. QED
  BY <1>1, <1>2, <1>3

LEMMA AuditEven ==
  ASSUME AuditInv, NEW i \in 1..AuditSize, DA!Balanced(i)
  PROVE  AuditCount(AuditOffsets[i]) \in Nat /\ AuditCount(AuditOffsets[i]) % 2 = 0
<1> DEFINE o == AuditOffsets
           Even(m) == AuditCount(o[m]) \in Nat /\ AuditCount(o[m]) % 2 = 0
           F == {m \in Nat : m + 1 <= i => Even(m + 1)}
<1>1. AuditSize \in Nat /\ i \in Nat
  BY DeckAuditAssumption
<1>2. 0 \in F
  <2>1. o[1] = 0
    BY AuditPlaced
  <2>2. AuditTicks(DA!Copy, 0) = {}
    BY DEF AuditTicks
  <2>3. AuditCount(0) = 0
    BY <2>2, FS_EmptySet DEF AuditCount
  <2>4. Even(1)
    BY <2>1, <2>3
  <2> HIDE DEF Even
  <2>5. 0 + 1 = 1
    OBVIOUS
  <2>6. QED
    BY <2>4, <2>5
<1>3. ASSUME NEW m \in Nat, m \in F PROVE m + 1 \in F
  <2> DEFINE j == m + 1
  <2>1. SUFFICES ASSUME j + 1 <= i PROVE Even(j + 1)
    OBVIOUS
  <2>2. j \in 1..i /\ j \in 1..AuditSize /\ j <= i
    BY <1>1, <2>1
  <2>3. Even(j)
    BY <1>3, <2>2
  <2> HIDE DEF j
  <2>4. o[j + 1] = o[j] + Len(AuditRows[j])
    BY <2>2, AuditPlaced
  <2> DEFINE n == Len(AuditRows[j])
             t == Cardinality(AuditTicks(AuditRows[j], n))
  <2>5. n \in Nat /\ t \in Nat /\ t % 2 = 0
    <3>1. CASE auditDeck[j].kind # "code"
      <4>1. n = 1 /\ Cardinality(AuditTicks(AuditRows[j], 1)) = 0
        BY <2>2, <3>1, AuditRow
      <4> HIDE DEF n
      <4>2. t = 0
        BY <4>1
      <4> HIDE DEF t
      <4>3. QED
        BY <4>1, <4>2
    <3>2. CASE auditDeck[j].kind = "code"
      <4> DEFINE item == auditDeck[j]
                 l == Len(item.lines)
                 c == Cardinality(DA!Inner(item))
      <4>1. item \in AuditItems /\ AuditRows[j] = DA!Rendered(item, j) /\ l \in Nat /\ n = l + 2 /\ item.kind = "code"
        BY <2>2, <3>2, AuditRow
      <4>2. c % 2 = 0
        BY <2>2, AuditCounts DEF DA!Balanced
      <4> HIDE DEF item
      <4>3. c \in Nat /\ Cardinality(AuditTicks(DA!Rendered(item, j), l + 2)) = c + 2
        BY <2>2, <4>1, BoxTicks
      <4> HIDE DEF l, c, n
      <4>4. t = c + 2
        BY <4>1, <4>3
      <4> HIDE DEF t
      <4>5. QED
        BY <4>1, <4>2, <4>3, <4>4
    <3>3. QED
      BY <3>1, <3>2
  <2>6. AuditCount(o[j] + n) = AuditCount(o[j]) + t
    <3>1. n \in 0..Len(AuditRows[j])
      BY <2>5
    <3> HIDE DEF n
    <3>2. QED
      BY <2>2, <3>1, AuditAdds
  <2> HIDE DEF t, n, o
  <2>7. QED
    BY <2>3, <2>4, <2>5, <2>6 DEF n
<1>4. i - 1 \in Nat /\ (i - 1) + 1 = i
  BY <1>1
<1>5. i - 1 \in F
  <2> HIDE DEF F
  <2>1. QED
    BY <1>2, <1>3, <1>4, NumberInduction
<1> HIDE DEF Even
<1>6. Even(i)
  BY <1>1, <1>4, <1>5
<1>7. QED
  BY <1>6 DEF Even

LEMMA AuditFenced == \A x : DA!Fenced(DA!Copy, x) <=> AuditCount(x) % 2 = 1
BY AuditCounts DEF DA!Fenced, AuditCount, AuditTicks

(* A deck without a hit has nothing that a gate looks for.                   *)
LEMMA AuditNoHits ==
  ASSUME AuditInv, auditChecked, hits = {}
  PROVE  /\ \A x \in DOMAIN DA!Copy : "CAPS" \notin DA!Scanned(DA!Copy, x)
         /\ \A x \in DOMAIN DA!Copy : "above" \notin DA!Positional(DA!Copy, x)
         /\ \A i \in 1..AuditSize : auditDeck[i].kind = "code" => ~\E l \in DA!Range(auditDeck[i].lines) : l.miscoloured
<1> DEFINE C == {[gate |-> "caps", at |-> DA!Copy[k].at, word |-> "CAPS"] :
                   k \in {j \in DOMAIN DA!Copy : "CAPS" \in DA!Scanned(DA!Copy, j)}}
           P == {[gate |-> "positional", at |-> DA!Copy[k].at, word |-> "above"] :
                   k \in {j \in DOMAIN DA!Copy : "above" \in DA!Positional(DA!Copy, j)}}
           D == {[gate |-> "denylist", at |-> DA!Copy[k].at, word |-> "stale"] :
                   k \in {j \in DOMAIN DA!Copy : DA!Denied(DA!Copy[j])}}
           M == {[gate |-> "colour", at |-> i, word |-> "colour"] :
                   i \in {j \in DOMAIN auditDeck :
                            auditDeck[j].kind = "code" /\ \E l \in DA!Range(auditDeck[j].lines) : l.miscoloured}}
<1>1. DA!Hits = C \cup P \cup D \cup M
  BY DEF DA!Hits
<1>2. DA!Hits = {}
  BY DEF AuditInv
<1> HIDE DEF C, P, D, M
<1>3. C = {} /\ P = {} /\ M = {}
  BY <1>1, <1>2
<1>4. \A x \in DOMAIN DA!Copy : "CAPS" \notin DA!Scanned(DA!Copy, x)
  BY <1>3 DEF C
<1>5. \A x \in DOMAIN DA!Copy : "above" \notin DA!Positional(DA!Copy, x)
  BY <1>3 DEF P
<1>6. \A i \in DOMAIN auditDeck : auditDeck[i].kind = "code" => ~\E l \in DA!Range(auditDeck[i].lines) : l.miscoloured
  BY <1>3 DEF M
<1>7. DOMAIN auditDeck = 1..AuditSize
  BY AuditCopy
<1>8. QED
  BY <1>4, <1>5, <1>6, <1>7

(* The line of a text, a title or a note stands outside the fences.          *)
LEMMA AuditProsePlaced ==
  ASSUME AuditInv, NEW i \in 1..AuditSize, DA!Balanced(i), auditDeck[i].kind # "code"
  PROVE  \E x \in DOMAIN DA!Copy : ~DA!Fenced(DA!Copy, x) /\ DA!Copy[x] = ProseShown(auditDeck[i], i)
<1> DEFINE x == AuditOffsets[i] + 1
<1>1. Len(AuditRows[i]) = 1 /\ AuditRows[i][1] = ProseShown(auditDeck[i], i)
      /\ Cardinality(AuditTicks(AuditRows[i], 1)) = 0
  BY AuditRow
<1>2. 1 \in 1..Len(AuditRows[i]) /\ 1 \in 0..Len(AuditRows[i])
  BY <1>1
<1>3. x \in DOMAIN DA!Copy /\ DA!Copy[x] = ProseShown(auditDeck[i], i)
  BY <1>1, <1>2, AuditPlaced
<1>4. AuditCount(x) = AuditCount(AuditOffsets[i]) + 0
  BY <1>1, <1>2, AuditAdds
<1>5. AuditCount(AuditOffsets[i]) \in Nat /\ AuditCount(AuditOffsets[i]) % 2 = 0
  BY AuditEven
<1> HIDE DEF x
<1>6. ~DA!Fenced(DA!Copy, x)
  BY <1>4, <1>5, AuditFenced
<1>7. QED
  BY <1>3, <1>6

LEMMA AuditComment ==
  ASSUME AuditInv, auditChecked, hits = {}, NEW i \in 1..AuditSize
  PROVE  "CAPS" \notin DA!Comments(auditDeck[i])
<1> SUFFICES ASSUME "CAPS" \in DA!Comments(auditDeck[i]) PROVE FALSE
  OBVIOUS
<1> DEFINE item == auditDeck[i]
<1>1. item.kind = "code" /\ \E l \in DA!Range(item.lines) : l.marker = "line" /\ "CAPS" \in l.comment
  BY DEF DA!Comments
<1>2. item \in AuditItems
  BY AuditRow
<1>3. PICK k \in 1..Len(item.lines) : item.lines[k].marker = "line" /\ "CAPS" \in item.lines[k].comment
  BY <1>1, <1>2, AuditBox DEF DA!Range
<1>4. ~item.lines[k].ticks
  BY <1>1, <1>2, <1>3, AuditBox
<1> DEFINE l == item.lines[k]
           x == AuditOffsets[i] + (k + 1)
<1>5. /\ Len(item.lines) \in Nat /\ Len(AuditRows[i]) = Len(item.lines) + 2
      /\ AuditRows[i][k + 1] = BoxLineShown(l, i)
  BY <1>1, AuditRow
<1>6. k + 1 \in 1..Len(AuditRows[i])
  BY <1>3, <1>5
<1>7. x \in DOMAIN DA!Copy /\ DA!Copy[x] = BoxLineShown(l, i)
  BY <1>5, <1>6, AuditPlaced
<1>8. l.marker = "line" /\ "CAPS" \in l.comment /\ ~l.ticks
  BY <1>3, <1>4
<1> HIDE DEF x, l, item
<1> DEFINE c == DA!Copy[x]
<1>9. c.kind = "code" /\ c.marker = "line" /\ c.comment = l.comment
  BY <1>7, <1>8 DEF BoxLineShown
<1>10. "CAPS" \in DA!Scanned(DA!Copy, x)
  <2>1. DA!CommentPart(c) = l.comment
    BY <1>9 DEF DA!CommentPart
  <2>2. CASE DA!AsCode(DA!Copy, x)
    BY <1>8, <1>9, <2>1, <2>2 DEF DA!Scanned
  <2>3. CASE ~DA!AsCode(DA!Copy, x)
    BY <1>8, <1>9, <2>3 DEF DA!Scanned
  <2>4. QED
    BY <2>2, <2>3
<1>11. QED
  BY <1>7, <1>10, AuditNoHits

LEMMA AuditPasses == AuditInv => DA!PassedDecksAreClean
<1> SUFFICES ASSUME AuditInv, auditChecked, hits = {}, NEW i \in 1..AuditSize
             PROVE  /\ DA!Balanced(i) =>
                         /\ "CAPS" \notin DA!Comments(auditDeck[i])
                         /\ auditDeck[i].kind # "raw" => "CAPS" \notin DA!Prose(auditDeck[i])
                         /\ "above" \notin DA!Prose(auditDeck[i])
                    /\ auditDeck[i].kind = "code" => ~\E l \in DA!Range(auditDeck[i].lines) : l.miscoloured
  <2>1. AuditInv => DOMAIN auditDeck = 1..AuditSize
    BY AuditCopy
  <2>2. QED
    BY <2>1 DEF DA!PassedDecksAreClean
<1>1. "CAPS" \notin DA!Comments(auditDeck[i])
  BY AuditComment
<1>2. auditDeck[i].kind = "code" => ~\E l \in DA!Range(auditDeck[i].lines) : l.miscoloured
  BY AuditNoHits
<1>3. ASSUME DA!Balanced(i), auditDeck[i].kind # "code"
      PROVE  /\ auditDeck[i].kind # "raw" => "CAPS" \notin auditDeck[i].words
             /\ "above" \notin auditDeck[i].words
  <2> DEFINE item == auditDeck[i]
  <2>1. PICK x \in DOMAIN DA!Copy : ~DA!Fenced(DA!Copy, x) /\ DA!Copy[x] = ProseShown(item, i)
    BY <1>3, AuditProsePlaced
  <2>2. item \in AuditItems
    BY AuditRow
  <2>3. item.kind \in {"title", "text", "notes", "raw"}
    BY <1>3, <2>2, AuditProse
  <2> HIDE DEF item
  <2> DEFINE c == DA!Copy[x]
  <2>4. c.kind = item.kind /\ c.words = item.words /\ c.comment = {}
    BY <2>1 DEF ProseShown
  <2>5. DA!Positional(DA!Copy, x) = item.words
    BY <2>1, <2>4 DEF DA!Positional
  <2>6. ~DA!AsCode(DA!Copy, x)
    BY <2>1 DEF DA!AsCode
  <2>7. item.kind # "raw" => DA!Scanned(DA!Copy, x) = item.words
    BY <2>3, <2>4, <2>6 DEF DA!Scanned
  <2>8. QED
    BY <2>5, <2>7, AuditNoHits DEF item
<1>4. QED
  BY <1>1, <1>2, <1>3 DEF DA!Prose

-------------------------------------------------------------------------------
(* Code that is reported is a comment, reads as a chip or stands outside its *)
(* fence.                                                                    *)
LEMMA AuditCapsHit ==
  ASSUME AuditInv, auditChecked, NEW h \in hits, h.gate = "caps"
  PROVE  \E x \in DOMAIN DA!Copy : "CAPS" \in DA!Scanned(DA!Copy, x) /\ h.at = DA!Copy[x].at
<1> DEFINE C == {[gate |-> "caps", at |-> DA!Copy[k].at, word |-> "CAPS"] :
                   k \in {j \in DOMAIN DA!Copy : "CAPS" \in DA!Scanned(DA!Copy, j)}}
           P == {[gate |-> "positional", at |-> DA!Copy[k].at, word |-> "above"] :
                   k \in {j \in DOMAIN DA!Copy : "above" \in DA!Positional(DA!Copy, j)}}
           D == {[gate |-> "denylist", at |-> DA!Copy[k].at, word |-> "stale"] :
                   k \in {j \in DOMAIN DA!Copy : DA!Denied(DA!Copy[j])}}
           M == {[gate |-> "colour", at |-> i, word |-> "colour"] :
                   i \in {j \in DOMAIN auditDeck :
                            auditDeck[j].kind = "code" /\ \E l \in DA!Range(auditDeck[j].lines) : l.miscoloured}}
<1>1. DA!Hits = C \cup P \cup D \cup M
  BY DEF DA!Hits
<1>2. h \in DA!Hits
  BY DEF AuditInv
<1>3. h \notin P
  OBVIOUS
<1>4. h \notin D
  OBVIOUS
<1>5. h \notin M
  OBVIOUS
<1>6. h \in C
  <2> HIDE DEF C, P, D, M
  <2>1. QED
    BY <1>1, <1>2, <1>3, <1>4, <1>5
<1>7. QED
  BY <1>6

LEMMA AuditShownAt ==
  ASSUME AuditInv, NEW i \in 1..AuditSize, NEW k \in 1..Len(AuditRows[i])
  PROVE  AuditRows[i][k].at = i
<1>1. CASE auditDeck[i].kind # "code"
  <2>1. Len(AuditRows[i]) = 1 /\ AuditRows[i][1] = ProseShown(auditDeck[i], i)
    BY <1>1, AuditRow
  <2>2. k = 1
    BY <2>1
  <2>3. QED
    BY <2>1, <2>2 DEF ProseShown
<1>2. CASE auditDeck[i].kind = "code"
  <2> DEFINE n == Len(auditDeck[i].lines)
  <2>1. /\ n \in Nat /\ Len(AuditRows[i]) = n + 2
        /\ AuditRows[i][1] = DA!Ticks(i) /\ AuditRows[i][n + 2] = DA!Ticks(i)
        /\ \A j \in 1..n : AuditRows[i][j + 1] = BoxLineShown(auditDeck[i].lines[j], i)
    BY <1>2, AuditRow
  <2> HIDE DEF n
  <2>2. DA!Ticks(i).at = i /\ \A l : BoxLineShown(l, i).at = i
    BY DEF DA!Ticks, BoxLineShown
  <2>3. CASE k = 1 \/ k = n + 2
    BY <2>1, <2>2, <2>3
  <2>4. CASE k # 1 /\ k # n + 2
    <3> DEFINE j == k - 1
    <3>1. j \in 1..n /\ j + 1 = k
      BY <2>1, <2>4
    <3> HIDE DEF j
    <3>2. AuditRows[i][j + 1] = BoxLineShown(auditDeck[i].lines[j], i)
      BY <2>1, <3>1
    <3>3. QED
      BY <2>2, <3>1, <3>2
  <2>5. QED
    BY <2>3, <2>4
<1>3. QED
  BY <1>1, <1>2

LEMMA AuditReports == AuditInv => DA!CodeIsNotReported
<1> SUFFICES ASSUME AuditInv, NEW h \in hits, auditChecked, h.gate = "caps", auditDeck[h.at].kind = "code",
                    "CAPS" \notin DA!Comments(auditDeck[h.at]), DA!Inner(auditDeck[h.at]) = {}, DA!Balanced(h.at)
             PROVE  Len(auditDeck[h.at].lines) = 1 /\ auditDeck[h.at].lines[1].dot
  BY DEF DA!CodeIsNotReported
<1>1. PICK x \in DOMAIN DA!Copy : "CAPS" \in DA!Scanned(DA!Copy, x) /\ h.at = DA!Copy[x].at
  BY AuditCapsHit
<1>2. PICK i \in 1..AuditSize : x - AuditOffsets[i] \in 1..Len(AuditRows[i])
  BY AuditPlaced
<1> DEFINE p == x - AuditOffsets[i]
           row == AuditRows[i]
           n == Len(auditDeck[i].lines)
           o == AuditOffsets[i]
<1>3. x \in Nat /\ o \in Nat /\ p \in 1..Len(row) /\ x = o + p
  <2>1. DOMAIN DA!Copy = 1..Len(DA!Copy) /\ AuditSize \in Nat
    BY AuditCopy, DeckAuditAssumption
  <2>2. o \in Nat /\ x \in Nat
    BY <2>1, AuditPlaced
  <2>3. QED
    BY <1>2, <2>2
<1>4. DA!Copy[x] = row[p]
  <2>1. DA!Copy[o + p] = row[p]
    <3> HIDE DEF p
    <3>1. QED
      BY <1>3, AuditPlaced
  <2>2. QED
    BY <1>3, <2>1
<1>5. h.at = i
  <2>1. row[p].at = i
    BY <1>3, AuditShownAt
  <2>2. QED
    BY <1>1, <1>4, <2>1
<1>6. /\ auditDeck[i].kind = "code" /\ "CAPS" \notin DA!Comments(auditDeck[i])
      /\ DA!Inner(auditDeck[i]) = {} /\ DA!Balanced(i)
  BY <1>5
<1>7. /\ auditDeck[i] \in AuditItems /\ row = DA!Rendered(auditDeck[i], i)
      /\ n \in Nat /\ Len(row) = n + 2
      /\ row[1] = DA!Ticks(i) /\ row[n + 2] = DA!Ticks(i)
      /\ \A k \in 1..n : row[k + 1] = BoxLineShown(auditDeck[i].lines[k], i)
  BY <1>6, AuditRow
<1> DEFINE lines == auditDeck[i].lines
<1>8. \A k \in 1..n : ~lines[k].ticks
  <2>1. DOMAIN lines = 1..n
    BY <1>6, <1>7, AuditBox
  <2>2. QED
    BY <1>6, <2>1 DEF DA!Inner
<1>9. \A k \in 1..n : row[k + 1].kind = "code" /\ row[k + 1].dot = lines[k].dot
                      /\ row[k + 1].marker = lines[k].marker /\ row[k + 1].comment = lines[k].comment
  <2>1. \A l : ~l.ticks => /\ BoxLineShown(l, i).kind = "code" /\ BoxLineShown(l, i).dot = l.dot
                           /\ BoxLineShown(l, i).marker = l.marker /\ BoxLineShown(l, i).comment = l.comment
    BY DEF BoxLineShown
  <2> HIDE DEF row, n
  <2>2. QED
    BY <1>7, <1>8, <2>1
<1>10. row[p].kind # "ticks"
  BY <1>1, <1>4 DEF DA!Scanned
<1> DEFINE q == p - 1
<1>11. q \in 1..n /\ p = q + 1
  <2>1. DA!Ticks(i).kind = "ticks"
    BY DEF DA!Ticks
  <2>2. p # 1 /\ p # n + 2
    BY <1>7, <1>10, <2>1
  <2> HIDE DEF p, row, n
  <2>3. QED
    BY <1>3, <1>7, <2>2
<1> HIDE DEF p, row, n, o, q, lines
<1>12. DA!Fenced(DA!Copy, x)
  <2>1. Cardinality(AuditTicks(row, q + 1)) = 1
    BY <1>6, <1>7, <1>11, BoxTicks DEF n
  <2>2. p \in 0..Len(row)
    BY <1>3, <1>7
  <2>3. AuditCount(o + p) = AuditCount(o) + Cardinality(AuditTicks(row, p))
    BY <2>2, AuditAdds DEF o, row
  <2>4. AuditCount(o) \in Nat /\ AuditCount(o) % 2 = 0
    BY <1>6, AuditEven DEF o
  <2>5. AuditCount(x) % 2 = 1
    <3>1. AuditCount(x) = AuditCount(o) + 1
      BY <1>3, <1>11, <2>1, <2>3
    <3>2. QED
      BY <2>4, <3>1
  <2>6. QED
    BY <2>5, AuditFenced
<1>13. DA!Copy[x].kind = "code" /\ DA!Copy[x].dot = lines[q].dot
       /\ DA!Copy[x].marker = lines[q].marker /\ DA!Copy[x].comment = lines[q].comment
  BY <1>4, <1>9, <1>11
<1>14. DA!IsChip(DA!Copy, x)
  <2> SUFFICES ASSUME ~DA!IsChip(DA!Copy, x) PROVE FALSE
    OBVIOUS
  <2>1. DA!AsCode(DA!Copy, x)
    BY <1>12, <1>13 DEF DA!AsCode
  <2>2. DA!Scanned(DA!Copy, x) = DA!CommentPart(DA!Copy[x])
    BY <1>13, <2>1 DEF DA!Scanned
  <2>3. lines[q].marker = "line" /\ "CAPS" \in lines[q].comment
    BY <1>1, <1>13, <2>2 DEF DA!CommentPart
  <2>4. lines[q] \in DA!Range(lines)
    BY <1>6, <1>7, <1>11, AuditBox DEF DA!Range, lines, n
  <2>5. "CAPS" \in DA!Comments(auditDeck[i])
    BY <1>6, <2>3, <2>4 DEF DA!Comments, lines
  <2>6. QED
    BY <1>6, <2>5
<1>15. DA!Copy[x].dot /\ DA!Copy[x - 1].kind = "ticks" /\ DA!Copy[x + 1].kind = "ticks"
  BY <1>14 DEF DA!IsChip
<1>16. q = 1
  <2> SUFFICES ASSUME q # 1 PROVE FALSE
    OBVIOUS
  <2> DEFINE k == q - 1
  <2>1. k \in 1..n /\ q = k + 1 /\ x - 1 = o + q /\ q \in 1..Len(row)
    BY <1>3, <1>7, <1>11
  <2> HIDE DEF k
  <2>2. DA!Copy[o + q] = row[q]
    BY <2>1, AuditPlaced DEF o, row
  <2>3. row[k + 1].kind = "code"
    BY <1>9, <2>1
  <2>4. QED
    BY <1>15, <2>1, <2>2, <2>3
<1>17. q = n
  <2> SUFFICES ASSUME q # n PROVE FALSE
    OBVIOUS
  <2> DEFINE k == q + 1
  <2>1. k \in 1..n /\ k + 1 \in 1..Len(row) /\ x + 1 = o + (k + 1)
    BY <1>3, <1>7, <1>11
  <2> HIDE DEF k
  <2>2. DA!Copy[o + (k + 1)] = row[k + 1]
    BY <2>1, AuditPlaced DEF o, row
  <2>3. row[k + 1].kind = "code"
    BY <1>9, <2>1
  <2>4. QED
    BY <1>15, <2>1, <2>2, <2>3
<1>18. n = 1 /\ lines[1].dot
  BY <1>13, <1>15, <1>16, <1>17
<1>19. QED
  BY <1>5, <1>18 DEF n, lines

(* What the audit last reported is what there is to report of the deck.      *)
THEOREM AuditInvariance == Spec => []AuditInv
BY Behaviours, AuditInitially, AuditSteps, PTL DEF Spec

-------------------------------------------------------------------------------
(* ci_changed_projects.py.                                                   *)
CiNames == STRING \cup {"examples", "db", "k8s", "openshift"}

LEMMA CiNamed == {"examples", "db", "k8s", "openshift"} \subseteq CiNames
BY DEF CiNames

LEMMA CiExtended ==
  ASSUME NEW e \in Seq(CiNames), Len(e) = 2, NEW x \in CiNames
  PROVE  /\ e \o <<x>> \in Seq(CiNames) /\ Len(e \o <<x>>) = 3
         /\ (e \o <<x>>)[1] = e[1] /\ (e \o <<x>>)[2] = e[2] /\ (e \o <<x>>)[3] = x
<1> DEFINE y == <<x>>
<1>1. y \in Seq(CiNames) /\ Len(y) = 1 /\ y[1] = x
  OBVIOUS
<1> HIDE DEF y
<1>2. /\ e \o y \in Seq(CiNames) /\ Len(e \o y) = Len(e) + Len(y)
      /\ \A i \in 1..Len(e) + Len(y) : (e \o y)[i] = IF i <= Len(e) THEN e[i] ELSE y[i - Len(e)]
  BY <1>1, ConcatProperties
<1>3. QED
  BY <1>1, <1>2 DEF y

LEMMA CiPath ==
  ASSUME NEW f \in Seq(CiNames), NEW n \in Nat, n <= Len(f)
  PROVE  /\ SubSeq(f, 1, n) \in Seq(CiNames) /\ Len(SubSeq(f, 1, n)) = n
         /\ \A i \in 1..n : SubSeq(f, 1, n)[i] = f[i]
<1>1. \A i \in 1..n : f[i] \in CiNames
  OBVIOUS
<1>2. QED
  BY <1>1, SubSeqProperties

LEMMA CiPrefix ==
  ASSUME NEW d \in Seq(CiNames), NEW f \in Seq(CiNames)
  PROVE  CI!IsPrefix(d, f) <=> Len(d) <= Len(f) /\ \A i \in 1..Len(d) : d[i] = f[i]
<1>1. Len(d) \in Nat /\ Len(f) \in Nat
  OBVIOUS
<1>2. SubSeq(d, 1, Len(d)) = d
  BY SubSeqFull
<1>3. ASSUME Len(d) <= Len(f) PROVE d = SubSeq(f, 1, Len(d)) <=> \A i \in 1..Len(d) : d[i] = f[i]
  <2> DEFINE e == SubSeq(f, 1, Len(d))
  <2>1. e \in Seq(CiNames) /\ Len(e) = Len(d) /\ \A i \in 1..Len(d) : e[i] = f[i]
    BY <1>1, <1>3, CiPath
  <2> HIDE DEF e
  <2>2. (\A i \in 1..Len(d) : d[i] = e[i]) => d = e
    BY <2>1, SeqEqual
  <2>3. d = e <=> \A i \in 1..Len(d) : d[i] = f[i]
    BY <2>1, <2>2
  <2>4. QED
    BY <2>3 DEF e
<1>4. QED
  BY <1>2, <1>3 DEF CI!IsPrefix

LEMMA CiDir ==
  ASSUME NEW f \in CiPaths
  PROVE  f \in Seq(CiNames) /\ Len(f) \in Nat /\ Len(f) >= 1 /\ CI!Dir(f) \in Seq(CiNames) /\ Len(CI!Dir(f)) = Len(f) - 1
         /\ \A i \in 1..Len(f) - 1 : CI!Dir(f)[i] = f[i]
<1>1. f \in Seq(CiNames) /\ Len(f) >= 1
  <2>1. f \in Seq(STRING) /\ Len(f) >= 1
    BY CiSelectAssumption, EmptySeq, LenProperties
  <2>2. STRING \subseteq CiNames
    BY DEF CiNames
  <2>3. QED
    BY <2>1, <2>2, SeqWider
<1>2. Len(f) \in Nat /\ Len(f) - 1 \in Nat /\ Len(f) - 1 <= Len(f)
  BY <1>1
<1>3. QED
  BY <1>1, <1>2, CiPath DEF CI!Dir

(* A project lies in an example.                                             *)
LEMMA CiProject ==
  ASSUME NEW t, NEW kind \in CI!Kinds, NEW d, d \in CI!AllProjects(t, kind, <<"examples">>)
  PROVE  /\ d \in Seq(CiNames) /\ Len(d) \in Nat /\ Len(d) >= 2 /\ d[1] = "examples"
         /\ d \in {CI!Dir(f) : f \in CI!Tracked(t)} /\ CI!IsProject(t, d, kind)
<1>1. /\ d \in {CI!Dir(f) : f \in CI!Tracked(t)} /\ CI!IsPrefix(<<"examples">>, d) /\ CI!IsProject(t, d, kind)
  BY DEF CI!AllProjects
<1>2. PICK g \in CI!Files(t) : CI!Dir(g) = d /\ CI!Last(g) = CI!MARKERS[kind]
  BY <1>1 DEF CI!IsProject
<1>3. CI!Last(g) \in {"conanfile.py", "pyproject.toml"}
  BY <1>2 DEF CI!Kinds, CI!MARKERS
<1>4. g \in CiPaths
  BY <1>2 DEF CI!Files
<1>5. /\ d \in Seq(CiNames) /\ Len(d) = Len(g) - 1 /\ Len(g) \in Nat
      /\ \A i \in 1..Len(g) - 1 : d[i] = g[i]
  BY <1>2, <1>4, CiDir
<1>6. d[1] = "examples" /\ Len(d) >= 1
  <2>1. <<"examples">> \in Seq(CiNames) /\ Len(<<"examples">>) = 1 /\ <<"examples">>[1] = "examples"
    BY CiNamed
  <2> DEFINE top == <<"examples">>
  <2>2. CI!IsPrefix(top, d)
    BY <1>1
  <2>3. top \in Seq(CiNames) /\ Len(top) = 1 /\ top[1] = "examples"
    BY <2>1
  <2> HIDE DEF top
  <2>4. \A i \in 1..1 : top[i] = d[i]
    BY <1>5, <2>2, <2>3, CiPrefix
  <2>5. Len(top) <= Len(d)
    BY <1>5, <2>2, <2>3, CiPrefix
  <2>6. QED
    BY <2>3, <2>4, <2>5
<1>7. g[1] = "examples"
  BY <1>5, <1>6
<1>8. Len(d) \in Nat /\ Len(d) >= 2
  <2>1. Len(g) >= 3
    BY <1>3, <1>4, <1>7, CiSelectAssumption
  <2>2. QED
    BY <1>5, <2>1
<1>9. QED
  BY <1>1, <1>5, <1>6, <1>8

LEMMA CiManifests ==
  ASSUME NEW t, NEW d, d \in CI!K8sDirs(t)
  PROVE  d \in Seq(CiNames) /\ Len(d) = 3 /\ d[1] = "examples" /\ d[3] \in {"k8s", "openshift"}
<1>1. PICK g \in CI!Tracked(t) : Len(g) >= 4 /\ g[3] \in CI!K8S_KIND_DIRS /\ d = SubSeq(g, 1, 3)
  BY DEF CI!K8sDirs
<1>2. g \in CiPaths /\ g[1] = "examples"
  BY <1>1 DEF CI!Tracked, CI!Files
<1>3. g \in Seq(CiNames) /\ Len(g) \in Nat
  BY <1>2, CiDir
<1>4. 3 \in Nat /\ 3 <= Len(g)
  BY <1>1, <1>3
<1>5. QED
  BY <1>1, <1>2, <1>3, <1>4, CiPath DEF CI!K8S_KIND_DIRS

(* The first names of a path below a directory are those of the directory.   *)
LEMMA CiBelow ==
  ASSUME NEW f \in CiPaths, NEW e \in Seq(CiNames), NEW n \in Nat, Len(e) = n, CI!IsStrictPrefix(e, f)
  PROVE  Len(f) > n /\ \A i \in 1..n : f[i] = e[i]
<1>1. f \in Seq(CiNames) /\ Len(f) \in Nat
  BY CiDir
<1>2. n <= Len(f) /\ \A i \in 1..n : f[i] = e[i]
  BY <1>1, CiPrefix DEF CI!IsStrictPrefix
<1>3. Len(f) # n
  <2>1. Len(f) = n => f = e
    BY <1>1, <1>2, SeqEqual
  <2>2. QED
    BY <2>1 DEF CI!IsStrictPrefix
<1>4. QED
  BY <1>1, <1>2, <1>3

LEMMA CiBuildsManifests ==
  ASSUME NEW t, NEW f \in CiPaths, NEW d, d \in CI!K8sDirs(t), f \in CI!Reads(t, <<"k8s", d>>)
  PROVE  <<"k8s", d>> \in CI!SelectForChange(t, f)
<1> DEFINE example == SubSeq(d, 1, 2)
           ManifestsIn(dir) == {g \in CiPaths : CI!IsStrictPrefix(dir, g) /\ CI!Last(g) # "README.md"}
           below == CI!Manifests(t, f)
<1>1. d \in Seq(CiNames) /\ Len(d) = 3 /\ d[1] = "examples" /\ d[3] \in {"k8s", "openshift"}
  BY CiManifests
<1>2. \/ f \in ManifestsIn(d)
      \/ f \in ManifestsIn(example \o <<"db">>)
      \/ d[3] = "openshift" /\ f \in ManifestsIn(example \o <<"k8s">>)
  BY DEF CI!Reads
<1>3. example \in Seq(CiNames) /\ Len(example) = 2 /\ example[1] = d[1] /\ example[2] = d[2]
  BY <1>1, CiPath
<1>4. ASSUME NEW x \in CiNames, f \in ManifestsIn(example \o <<x>>)
      PROVE  Len(f) > 3 /\ f[1] = d[1] /\ f[2] = d[2] /\ f[3] = x
  <2> DEFINE e == example \o <<x>>
  <2>1. e \in Seq(CiNames) /\ Len(e) = 3 /\ e[1] = d[1] /\ e[2] = d[2] /\ e[3] = x
    <3> HIDE DEF example
    <3>1. QED
      BY <1>3, CiExtended
  <2> HIDE DEF e
  <2>2. CI!IsStrictPrefix(e, f)
    BY <1>4 DEF e
  <2>3. Len(f) > 3 /\ \A i \in 1..3 : f[i] = e[i]
    BY <2>1, <2>2, CiBelow
  <2>4. QED
    BY <2>1, <2>3
<1>5. f \in ManifestsIn(d) => Len(f) > 3 /\ f[1] = d[1] /\ f[2] = d[2] /\ f[3] = d[3]
  <2>1. ASSUME f \in ManifestsIn(d) PROVE Len(f) > 3 /\ \A i \in 1..3 : f[i] = d[i]
    BY <1>1, <2>1, CiBelow
  <2>2. QED
    BY <2>1
<1>6. /\ Len(f) > 3 /\ f[1] = "examples" /\ f[2] = d[2] /\ CI!Last(f) # "README.md"
      /\ f[3] = d[3] \/ f[3] = "db" \/ (d[3] = "openshift" /\ f[3] = "k8s")
  <2>1. CASE f \in ManifestsIn(d)
    BY <1>1, <1>5, <2>1
  <2>2. CASE f \in ManifestsIn(example \o <<"db">>)
    <3>1. Len(f) > 3 /\ f[1] = d[1] /\ f[2] = d[2] /\ f[3] = "db"
      BY <1>4, <2>2, CiNamed
    <3>2. QED
      BY <1>1, <2>2, <3>1
  <2>3. CASE d[3] = "openshift" /\ f \in ManifestsIn(example \o <<"k8s">>)
    <3>1. Len(f) > 3 /\ f[1] = d[1] /\ f[2] = d[2] /\ f[3] = "k8s"
      BY <1>4, <2>3, CiNamed
    <3>2. QED
      BY <1>1, <2>3, <3>1
  <2>4. QED
    BY <1>2, <2>1, <2>2, <2>3
<1>7. f \in Seq(CiNames) /\ Len(f) \in Nat
  BY CiDir
<1>8. CI!Last(f) # "compose.yaml"
  <2>1. f[3] \in {"k8s", "openshift", "db"} /\ Len(f) >= 4
    BY <1>1, <1>6, <1>7
  <2>2. QED
    BY <2>1, CiSelectAssumption
<1>9. <<"k8s", d>> \in below
  <2> DEFINE dirs == IF f[3] = "openshift" THEN {"openshift"} ELSE CI!K8S_KIND_DIRS
             e == SubSeq(f, 1, 2)
  <2>1. e \in Seq(CiNames) /\ Len(e) = 2 /\ e[1] = f[1] /\ e[2] = f[2]
    BY <1>6, <1>7, CiPath
  <2>2. below = CI!Items("k8s", {e \o <<x>> : x \in dirs} \cap CI!K8sDirs(t))
    BY DEF CI!Manifests
  <2>3. d[3] \in dirs
    BY <1>1, <1>6 DEF CI!K8S_KIND_DIRS
  <2> HIDE DEF dirs, e
  <2>4. d = e \o <<d[3]>>
    <3> DEFINE x == d[3]
               u == e \o <<x>>
    <3>1. x \in CiNames /\ d[1] = f[1] /\ d[2] = f[2]
      BY <1>1, <1>6
    <3> HIDE DEF x
    <3>2. u \in Seq(CiNames) /\ Len(u) = 3 /\ u[1] = e[1] /\ u[2] = e[2] /\ u[3] = x
      BY <2>1, <3>1, CiExtended
    <3> HIDE DEF u
    <3>3. u[1] = d[1] /\ u[2] = d[2] /\ u[3] = d[3]
      BY <2>1, <3>1, <3>2 DEF x
    <3>4. \A i \in 1..3 : d[i] = u[i]
      BY <3>3
    <3>5. d = u
      BY <1>1, <3>2, <3>4, SeqEqual
    <3>6. QED
      BY <3>5 DEF u, x
  <2>5. QED
    BY <2>2, <2>3, <2>4 DEF CI!Items
<1>10. f[3] \in CI!K8S_KIND_DIRS \/ f[3] = "db"
  BY <1>1, <1>6 DEF CI!K8S_KIND_DIRS
<1> HIDE DEF below
<1>11. CI!SelectForChange(t, f) = below
  <2>1. Len(f) >= 4
    BY <1>6, <1>7
  <2>2. CASE f[3] \in CI!K8S_KIND_DIRS
    BY <1>6, <1>8, <2>1, <2>2 DEF CI!SelectForChange, below, CI!K8S_KIND_DIRS
  <2>3. CASE f[3] = "db"
    BY <1>6, <1>8, <2>1, <2>3 DEF CI!SelectForChange, below, CI!K8S_KIND_DIRS
  <2>4. QED
    BY <1>10, <2>2, <2>3
<1>12. QED
  BY <1>9, <1>11

LEMMA CiBuildsProject ==
  ASSUME NEW t, NEW f \in CiPaths, NEW kind \in CI!Kinds, NEW d, d \in CI!AllProjects(t, kind, <<"examples">>),
         f \in CI!Reads(t, <<kind, d>>)
  PROVE  <<kind, d>> \in CI!SelectForChange(t, f)
<1> DEFINE Nearest(k) == CI!NearestProject(t, f, k)
           nearest == UNION {CI!Items(k, Nearest(k)) : k \in CI!Kinds}
<1>1. /\ d \in Seq(CiNames) /\ Len(d) \in Nat /\ Len(d) >= 2 /\ d[1] = "examples"
      /\ d \in {CI!Dir(g) : g \in CI!Tracked(t)} /\ CI!IsProject(t, d, kind)
  BY CiProject
<1>2. f \in Seq(CiNames) /\ Len(f) \in Nat
  BY CiDir
<1>3. kind # "file" /\ kind # "k8s"
  BY DEF CI!Kinds, CI!MARKERS
<1>4. Len(f) >= 3 /\ CI!Source(f) /\ (Nearest(kind) = {d} \/ CI!Shared(t, kind, d, f))
  BY <1>3 DEF CI!Reads
<1>5. ~CI!Inert(f) /\ CI!Last(f) # "compose.yaml" /\ f[3] \notin CI!K8S_KIND_DIRS
  BY <1>4 DEF CI!Source
<1>6. CASE Nearest(kind) = {d}
  <2>1. \E n \in 2..Len(f) - 1 : d = SubSeq(f, 1, n)
    BY <1>6 DEF CI!NearestProject
  <2>2. PICK n \in 2..Len(f) - 1 : d = SubSeq(f, 1, n)
    BY <2>1
  <2>3. n \in Nat /\ n <= Len(f) /\ 1 \in 1..n
    BY <1>2
  <2>4. f[1] = "examples"
    BY <1>1, <1>2, <2>2, <2>3, CiPath
  <2>5. <<kind, d>> \in nearest
    BY <1>6 DEF CI!Items
  <2>6. ~(Len(f) >= 4 /\ f[3] = "db")
    BY <1>2, <1>5 DEF CI!Inert
  <2> HIDE DEF nearest
  <2>7. CI!SelectForChange(t, f) = nearest
    BY <1>4, <1>5, <2>4, <2>5, <2>6 DEF CI!SelectForChange, nearest
  <2>8. QED
    BY <2>5, <2>7
<1>7. CASE CI!Shared(t, kind, d, f)
  <2> DEFINE e == SubSeq(d, 1, 2)
  <2>1. e \in Seq(CiNames) /\ Len(e) = 2 /\ e[1] = d[1] /\ e[2] = d[2]
    BY <1>1, CiPath
  <2>2. /\ CI!IsPrefix(e, f) /\ CI!InNoProject(t, f)
        /\ Len(f) > 3 /\ f[3] \in CI!Kinds => f[3] = kind /\ CI!IsPrefix(SubSeq(f, 1, 3), d)
    BY <1>7 DEF CI!Shared
  <2> HIDE DEF e
  <2>3. f[1] = "examples" /\ f[2] = d[2]
    <3>1. \A i \in 1..2 : e[i] = f[i]
      BY <1>2, <2>1, <2>2, CiPrefix
    <3>2. e[1] = f[1] /\ e[2] = f[2]
      BY <3>1
    <3>3. QED
      BY <1>1, <2>1, <3>2
  <2>4. nearest = {}
    BY <2>2 DEF CI!InNoProject, CI!Items
  <2>5. ~(Len(f) >= 4 /\ f[3] = "db")
    BY <1>2, <1>5 DEF CI!Inert
  <2>6. ~(nearest # {} \/ Len(f) < 3)
    BY <1>2, <1>4, <2>4
  <2> HIDE DEF nearest
  <2>7. CI!SelectForChange(t, f) = CI!BelowNoProject(t, f)
    BY <1>4, <1>5, <2>3, <2>5, <2>6 DEF CI!SelectForChange, nearest
  <2>8. CASE Len(f) > 3 /\ f[3] \in CI!Kinds
    <3>1. f[3] = kind /\ CI!IsPrefix(SubSeq(f, 1, 3), d)
      BY <2>2, <2>8
    <3>2. d \in CI!AllProjects(t, kind, SubSeq(f, 1, 3))
      BY <1>1, <3>1 DEF CI!AllProjects
    <3>3. CI!KindsOfLang(f[3]) = {kind}
      BY <3>1 DEF CI!KindsOfLang
    <3>4. CI!BelowNoProject(t, f) = UNION {CI!Items(k, CI!AllProjects(t, k, SubSeq(f, 1, 3))) : k \in CI!KindsOfLang(f[3])}
      BY <2>8, <3>3 DEF CI!BelowNoProject
    <3>5. QED
      BY <2>7, <3>2, <3>3, <3>4 DEF CI!Items
  <2>9. CASE ~(Len(f) > 3 /\ f[3] \in CI!Kinds)
    <3>1. CI!BelowNoProject(t, f) = UNION {CI!Items(k, CI!AllProjects(t, k, SubSeq(f, 1, 2))) : k \in CI!Kinds}
      BY <2>9 DEF CI!BelowNoProject, CI!KindsOfLang
    <3> DEFINE u == SubSeq(f, 1, 2)
    <3>2. u \in Seq(CiNames) /\ Len(u) = 2 /\ u[1] = f[1] /\ u[2] = f[2]
      BY <1>2, <1>4, CiPath
    <3> HIDE DEF u
    <3>3. CI!IsPrefix(u, d)
      <4>1. \A i \in 1..2 : u[i] = d[i]
        BY <1>1, <2>3, <3>2
      <4>2. QED
        BY <1>1, <3>2, <4>1, CiPrefix
    <3>4. d \in CI!AllProjects(t, kind, u)
      BY <1>1, <3>3 DEF CI!AllProjects
    <3>5. QED
      BY <2>7, <3>1, <3>4 DEF CI!Items, u
  <2>10. QED
    BY <2>8, <2>9
<1>8. QED
  BY <1>4, <1>6, <1>7

(* Whatever reads a file that changed is selected for it.                    *)
LEMMA CiBuilds ==
  ASSUME NEW t, NEW f \in CiPaths, NEW item, item \in CI!SelectEverything(t), f \in CI!Reads(t, item)
  PROVE  item \in CI!SelectForChange(t, f)
<1> DEFINE composes == {g \in CI!Tracked(t) : CI!Last(g) = "compose.yaml" /\ g[2] # "_infra"}
<1>1. \/ \E kind \in CI!Kinds : \E d \in CI!AllProjects(t, kind, <<"examples">>) : item = <<kind, d>>
      \/ \E d \in CI!K8sDirs(t) : item = <<"k8s", d>>
      \/ \E d \in composes : item = <<"file", d>>
  BY DEF CI!SelectEverything, CI!Items
<1>2. ASSUME NEW d \in composes, item = <<"file", d>> PROVE item \in CI!SelectForChange(t, f)
  <2>1. f = d
    BY <1>2 DEF CI!Reads
  <2>2. f[1] = "examples" /\ CI!Last(f) = "compose.yaml" /\ f \in CI!Files(t)
    BY <2>1 DEF CI!Tracked
  <2>3. CI!SelectForChange(t, f) = CI!Items("file", {f} \cap CI!Files(t))
    BY <2>2 DEF CI!SelectForChange
  <2>4. QED
    BY <1>2, <2>1, <2>2, <2>3 DEF CI!Items
<1>3. ASSUME NEW d, d \in CI!K8sDirs(t), item = <<"k8s", d>> PROVE item \in CI!SelectForChange(t, f)
  BY <1>3, CiBuildsManifests
<1>4. ASSUME NEW kind \in CI!Kinds, NEW d, d \in CI!AllProjects(t, kind, <<"examples">>), item = <<kind, d>>
      PROVE  item \in CI!SelectForChange(t, f)
  BY <1>4, CiBuildsProject
<1> HIDE DEF composes
<1>5. QED
  BY <1>1, <1>2, <1>3, <1>4

CiSelectInv == selected = CI!NotYet \/ selected = CI!Select(pushed, ciTree)

LEMMA CiInitially == CI!Init => CiSelectInv
BY DEF CI!Init, CiSelectInv

LEMMA CiSteps == CiSelectInv /\ [CI!Next]_ciselect => CiSelectInv'
<1> SUFFICES ASSUME CiSelectInv, [CI!Next]_ciselect PROVE CiSelectInv'
  OBVIOUS
<1>1. CASE UNCHANGED ciselect
  BY <1>1 DEF ciselect, CiSelectInv
<1>2. ASSUME NEW t, CI!Change(t) PROVE CiSelectInv'
  BY <1>2 DEF CI!Change, CiSelectInv
<1>3. CASE CI!RunSelect
  BY <1>3 DEF CI!RunSelect, CiSelectInv
<1>4. QED
  BY <1>1, <1>2, <1>3 DEF CI!Next, CI!Write, CI!Delete, CI!Move

LEMMA CiBuildsChanges == CiSelectInv => CI!EveryChangeIsBuilt
<1> SUFFICES ASSUME CiSelectInv, selected # CI!NotYet,
                    NEW item \in CI!SelectEverything(ciTree) \ selected,
                    NEW f \in CI!Reads(ciTree, item) \cap CI!Changed(pushed, ciTree)
             PROVE  f \in CI!MovedAway(pushed, ciTree)
  BY DEF CI!EveryChangeIsBuilt
<1>1. f \in CiPaths
  BY DEF CI!Changed
<1>2. item \in CI!SelectForChange(ciTree, f)
  BY <1>1, CiBuilds
<1>3. SUFFICES ASSUME f \in CI!ChangedFiles(pushed, ciTree) PROVE FALSE
  BY DEF CI!ChangedFiles
<1>4. selected = CI!Select(pushed, ciTree)
  BY DEF CiSelectInv
<1>5. item \in selected
  BY <1>2, <1>3, <1>4 DEF CI!Select
<1>6. QED
  BY <1>5

(* What CI builds is what ci_changed_projects.py makes of the push and tree. *)
THEOREM CiSelectInvariance == Spec => []CiSelectInv
BY Behaviours, CiInitially, CiSteps, PTL DEF Spec

-------------------------------------------------------------------------------
(* Code in a deck's text is code to every tool that reads it.                *)
LEMMA TextCode == DT!CodeIsCodeToAll
<1> SUFFICES ASSUME NEW shape, DT!OneLine(shape) \/ shape.paras > 1
             PROVE  DT!Kind(shape) = "code" <=> DT!IsCodeSp(shape)
  BY DEF DT!CodeIsCodeToAll
<1>1. shape.paras > 1 => shape.paras # 1
  OBVIOUS
<1>2. DT!IsCodeSp(shape) <=> shape.mono /\ ~(DT!OneLine(shape) /\ shape.size <= 11 /\ shape.short)
  BY <1>1 DEF DT!IsCodeSp, DT!OneLine
<1>3. ~shape.mono => DT!Kind(shape) \in {"page", "text"}
  BY DEF DT!Kind
<1>4. shape.mono => (DT!Kind(shape) = "code" <=> ~(DT!OneLine(shape) /\ shape.size <= 11 /\ shape.short))
  BY DEF DT!Kind
<1>5. QED
  BY <1>2, <1>3, <1>4

(* For any decks and edits, any code boxes, any shapes and flags: an edit is *)
(* exact. Pictures of a deck resolve and slides an operation is not about    *)
(* look as before (deck_edit.py), a checked code box holds its lines, what   *)
(* gen_fit suggests is accepted and grows over no shape it was clear of.     *)
THEOREM EditsKept == Spec => EditsAreExact
<1>1. Spec => [](tool = "deckedit" => DE!PicturesResolve)
  <2>1. DeckEditSound => (tool = "deckedit" => DE!PicturesResolve)
    BY DeckSoundPictures DEF DeckEditSound
  <2>2. QED
    BY <2>1, DeckEditSoundness, PTL
<1>2. Spec => [](tool = "codebox" => CB!CodeFits)
  <2>1. CodeBoxInv => (tool = "codebox" => CB!CodeFits)
    BY DEF CodeBoxInv
  <2>2. QED
    BY <2>1, CodeBoxInvariance, PTL
<1>3. Spec => [](tool = "fitsuggest" => FS!SuggestionsApply)
  <2>1. FitInv => (tool = "fitsuggest" => FS!SuggestionsApply)
    BY DEF FitInv
  <2>2. QED
    BY <2>1, FitInvariance, PTL
<1>4. Spec => DE!OtherSlidesKept
  <2>1. DeckEditInv /\ DeckEditSound /\ [Next]_vars =>
          [editTodo' # editTodo /\ editStep = "ops" /\ editStep' = "ops" =>
             \A k \in DOMAIN editWork.slides, j \in DOMAIN editWork'.slides :
               editWork'.slides[j].id = editWork.slides[k].id
                 /\ editWork.slides[k].id \notin DE!Addressed(editWork, Head(editTodo))
                   => DE!Seen(editWork', j) = DE!Seen(editWork, k)]_deckedit
    BY Behaviours, DeckEditStaysSound DEF DeckKept
  <2>2. QED
    BY <2>1, DeckEditInvariance, DeckEditSoundness, PTL DEF Spec, DE!OtherSlidesKept, DE!vars, deckedit
<1>5. Spec => FS!GrowsIntoFreeSpace
  <2>1. FitInv /\ [Next]_vars =>
          [frame' # frame /\ suggestText.kind = "text" =>
             \A b \in others :
               FS!Overlap(frame', b) =>
                 FS!Overlap(frame, b) \/ FS!FullSlide(b) \/ ~ (FS!Below(b) \/ FS!Above(b))]_(FS!vars)
    BY Behaviours, FitNext
  <2>2. QED
    BY <2>1, FitInvariance, PTL DEF Spec, FS!GrowsIntoFreeSpace
<1>6. QED
  BY <1>1, <1>2, <1>3, <1>4, <1>5, PTL DEF EditsAreExact

(* For any slides, decks, boxes, trees and pushes, the gates miss nothing:   *)
(* code is code to every tool, a deck that passes is clean and none of its   *)
(* code is reported, comments keep a colour of their own and no edit spoils  *)
(* a box that passed the audit, and CI builds what a push concerns.          *)
THEOREM GatesKept == Spec => GatesHold
<1>1. Spec => [](tool = "decktext" => DT!CodeIsCodeToAll)
  <2>1. tool = "decktext" => DT!CodeIsCodeToAll
    BY TextCode
  <2>2. QED
    BY <2>1, PTL
<1>2. Spec => [](tool = "deckaudit" => DA!PassedDecksAreClean /\ DA!CodeIsNotReported)
  <2>1. AuditInv => (tool = "deckaudit" => DA!PassedDecksAreClean /\ DA!CodeIsNotReported)
    BY AuditPasses, AuditReports
  <2>2. QED
    BY <2>1, AuditInvariance, PTL
<1>3. Spec => [](tool = "codebox" => CB!CommentsStandOut)
  <2>1. CodeColourInv => (tool = "codebox" => CB!CommentsStandOut)
    BY CodeStandsOut
  <2>2. QED
    BY <2>1, CodeColourInvariance, PTL
<1>4. Spec => CB!AuditStaysClean
  <2>1. CodeColourInv /\ [Next]_vars =>
          [coloured' /\ CB!Audit(box) = {} => CB!Audit(box') \subseteq {"other-colour"}]_(CB!vars)
    BY Behaviours, CodeAuditSteps DEF CB!vars, codebox
  <2>2. QED
    BY <2>1, CodeColourInvariance, PTL DEF Spec, CB!AuditStaysClean
<1>5. Spec => [](tool = "ciselect" => CI!EveryChangeIsBuilt)
  <2>1. CiSelectInv => (tool = "ciselect" => CI!EveryChangeIsBuilt)
    BY CiBuildsChanges
  <2>2. QED
    BY <2>1, CiSelectInvariance, PTL
<1>6. QED
  BY <1>1, <1>2, <1>3, <1>4, <1>5, PTL DEF GatesHold
===============================================================================
