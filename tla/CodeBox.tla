------------------------------ MODULE CodeBox --------------------------------
(* The code box of a slide under the operations of src/scripts/deck_edit.py  *)
(* that rewrite, recolour, cut, size and resize it. A box is a sequence of   *)
(* paragraphs, a paragraph a sequence of lines (separated by a:br), a line a *)
(* sequence of coloured runs; a blank line has none. Columns are checked as  *)
(* lines are and are left out. An operation that fails ends the run of the   *)
(* tool with nothing written, so only its success is a step.                 *)
EXTENDS Integers, SequencesExt, FiniteSetsExt

CONSTANTS Heights, Sizes, MaxLines, MaxEdits

VARIABLES
  box, size, height,
  checked,    \* ghost: no frame change since the capacity was last checked
  coloured,   \* ghost: the box was coloured by line type
  cut,        \* ghost: the ranges that the last operation cut
  edits       \* operations so far, for MaxEdits

vars == <<box, size, height, checked, coloured, cut, edits>>

CODE_RGB == "E6E6E6"
COMMENT_RGB == "8FB98F"
OTHER_RGB == "FFCC00"
Palette == {CODE_RGB, COMMENT_RGB, OTHER_RGB}

Run(kind, rgb) == [kind |-> kind, rgb |-> rgb]
Lines(b) == FlattenSeq(b)
HasText(b) == \E l \in Range(Lines(b)) : l # <<>>
IsComment(line) == line # <<>> /\ line[1].kind = "comment"
IsCode(line) == line # <<>> /\ line[1].kind = "code"

(* box_capacity(): n lines end at n - 1 pitches of 1.20 x size and the glyph *)
(* box of the last, 1.32 x size.                                             *)
Capacity(h, pt) == (100 * h - 132 * pt) \div (120 * pt) + 1

TypeOK ==
  /\ \A l \in Range(Lines(box)) : \A r \in Range(l) : r.kind \in {"code", "comment"} /\ r.rgb \in Palette
  /\ size \in Sizes /\ height \in Heights
  /\ Len(Lines(box)) \in 1..MaxLines
  /\ edits \in 0..MaxEdits

(* Boxes of the decks: one paragraph per line, or one with breaks.           *)
SomeLines ==
  {<<Run(k, c)>> : k \in {"code", "comment"}, c \in Palette}
    \cup {<<>>, <<Run("code", CODE_RGB), Run("comment", CODE_RGB)>>}
Init ==
  /\ \E l, m \in SomeLines : box \in {<<<<l>>, <<m>>>>, <<<<l, m>>>>} /\ l # <<>>
  /\ size \in Sizes /\ height \in Heights
  /\ checked = FALSE /\ coloured = FALSE /\ cut = {}
  /\ edits = 0

Edit(b) == edits < MaxEdits /\ edits' = edits + 1 /\ box' = b /\ Len(Lines(b)) \in 1..MaxLines

-----------------------------------------------------------------------------
(* recolour_box(): a comment, and what follows one on its line, is           *)
(* comment-coloured; runs of a third colour are left alone unless force.     *)
Recoloured(b, code, comment, force) ==
  LET Want(l, i) == IF \E j \in 1..i : l[j].kind = "comment" THEN comment ELSE code
      ours == {code, comment, CODE_RGB, COMMENT_RGB}
      Line(l) == [i \in DOMAIN l |->
                    IF l[i].rgb \in ours \/ force THEN [l[i] EXCEPT !.rgb = Want(l, i)] ELSE l[i]]
  IN  [p \in DOMAIN b |-> [k \in DOMAIN b[p] |-> Line(b[p][k])]]

(* op_recolour_code fails when no run changes.                               *)
RecolourCode(code, comment, force) ==
  LET b == Recoloured(box, code, comment, force)
  IN  /\ b # box
      /\ Edit(b)
      /\ coloured' = (coloured \/ force) /\ cut' = {}
      /\ UNCHANGED <<size, height, checked>>

LineAt(i) == Lines(box)[i]

(* op_set_code: the new lines take the format of the first code line and the *)
(* first comment line, and then the colours of their type.                   *)
CommentRgb_FromCode(code_rgb, comment_l, code_l) ==
  IF comment_l[1].rgb # COMMENT_RGB THEN comment_l[1].rgb ELSE COMMENT_RGB
CommentRgb(code_rgb, comment_l, code_l) ==
  IF comment_l # code_l /\ comment_l[1].rgb # code_rgb THEN comment_l[1].rgb ELSE COMMENT_RGB

SetCode(kinds, pt, colour) ==
  LET c == SelectInSeq(Lines(box), IsCode)
      m == SelectInSeq(Lines(box), IsComment)
      code_l == IF c # 0 THEN LineAt(c) ELSE LineAt(m)
      comment_l == IF m # 0 THEN LineAt(m) ELSE code_l
      Line(k) == IF k = "blank" THEN <<>>
                 ELSE <<Run(k, (IF k = "comment" THEN comment_l ELSE code_l)[1].rgb)>>
      new == [i \in DOMAIN kinds |-> Line(kinds[i])]
      plain == IF \E p \in DOMAIN box : Len(box[p]) > 1 THEN <<new>> ELSE [i \in DOMAIN new |-> <<new[i]>>]
      code_rgb == IF code_l[1].rgb # COMMENT_RGB THEN code_l[1].rgb ELSE CODE_RGB
      comment_rgb == CommentRgb(code_rgb, comment_l, code_l)
  IN  /\ c + m # 0
      /\ Len(kinds) <= Capacity(height, pt)
      /\ Edit(IF colour THEN Recoloured(plain, code_rgb, comment_rgb, FALSE) ELSE plain)
      /\ size' = pt /\ checked' = TRUE /\ coloured' = colour /\ cut' = {}
      /\ UNCHANGED height

(* op_cut_code: paragraph by paragraph, the lines of the ranges are removed  *)
(* and an ellipsis line stands where a range that has one began.             *)
Offset(b, p) == FoldLeft(LAMBDA n, q : n + Len(q), 0, SubSeq(b, 1, p - 1))
Removed_ButLast(i, cuts) == \E c \in cuts : i >= c.from /\ i < c.to
Removed(i, cuts) == \E c \in cuts : i \in c.from..c.to

CutCode(cuts, pt) ==
  LET ellipsis == <<Run("comment", COMMENT_RGB)>>
      Cut(i, l) == (IF \E c \in cuts : c.from = i /\ c.ellipsis THEN <<ellipsis>> ELSE <<>>)
                   \o (IF Removed(i, cuts) THEN <<>> ELSE <<l>>)
      Paragraph(p) == FlattenSeq([k \in DOMAIN box[p] |-> Cut(Offset(box, p) + k, box[p][k])])
      new == FlattenSeq([p \in DOMAIN box |-> IF Paragraph(p) = <<>> THEN <<>> ELSE <<Paragraph(p)>>])
  IN  /\ \A c \in cuts : c.from <= c.to /\ c.to <= Len(Lines(box))
      /\ \A c, d \in cuts : c # d => c.to < d.from \/ d.to < c.from
      /\ (\E c \in cuts : c.ellipsis) => HasText(box)
      /\ HasText(new) => Len(Lines(new)) <= Capacity(height, pt)
      /\ Edit(new)
      /\ size' = pt /\ cut' = cuts
      /\ checked' = (checked \/ HasText(new))
      /\ UNCHANGED <<height, coloured>>

(* op_fit_font on a code box, with pt or scale.                              *)
FitFont_OldCapacity(pt) ==
  /\ pt # size /\ (HasText(box) => Len(Lines(box)) <= Capacity(height, size))
  /\ Edit(box)
  /\ size' = pt /\ checked' = TRUE /\ cut' = {}
  /\ UNCHANGED <<height, coloured>>
FitFont(pt) ==
  /\ pt # size /\ (HasText(box) => Len(Lines(box)) <= Capacity(height, pt))
  /\ Edit(box)
  /\ size' = pt /\ checked' = TRUE /\ cut' = {}
  /\ UNCHANGED <<height, coloured>>

(* op_resize_shape, op_set_geometry: the frame is not compared with the text.*)
ResizeShape(h) ==
  /\ h # height
  /\ Edit(box)
  /\ height' = h /\ checked' = FALSE /\ cut' = {}
  /\ UNCHANGED <<size, coloured>>

Ranges == [from : 1..MaxLines, to : 1..MaxLines, ellipsis : BOOLEAN]
Next ==
  \/ \E p \in {<<CODE_RGB, COMMENT_RGB>>, <<OTHER_RGB, COMMENT_RGB>>}, f \in BOOLEAN : RecolourCode(p[1], p[2], f)
  \/ \E kinds \in BoundedSeq({"code", "comment", "blank"}, MaxLines), pt \in Sizes, colour \in BOOLEAN :
       SetCode(kinds, pt, colour)
  \/ \E c, d \in Ranges : CutCode({c, d}, size)
  \/ \E c \in Ranges, pt \in Sizes : CutCode({c}, pt)
  \/ \E pt \in Sizes : FitFont(pt)
  \/ \E h \in Heights : ResizeShape(h)

Spec == Init /\ [][Next]_vars

-----------------------------------------------------------------------------
(* A box whose text or size the tool changed holds its lines at its size,    *)
(* until a frame is changed. Of a box of blank lines alone nothing is        *)
(* checked, and no text comes back to it.                                    *)
CodeFits == checked /\ HasText(box) => Len(Lines(box)) <= Capacity(height, size)

(* Once a box was coloured by line type, code and comments never share a     *)
(* colour, whatever recolouring, rewriting and cutting follows.              *)
CommentsStandOut ==
  LET InComment(l, i) == \E j \in 1..i : l[j].kind = "comment"
      ColoursOf(comment) ==
        UNION {{l[i].rgb : i \in {j \in DOMAIN l : InComment(l, j) = comment}} : l \in Range(Lines(box))}
  IN  coloured => ColoursOf(TRUE) \cap ColoursOf(FALSE) = {}

(* colour_audit.py: what breaks the house style on the lines of a box.       *)
LineHits(line) ==
  LET Trailing(i) == line[i].kind = "comment" /\ \E j \in 1..i - 1 : line[j].kind = "code"
      Wrong(i) == CASE line[i].rgb \notin {CODE_RGB, COMMENT_RGB} -> {"other-colour"}
                    [] line[i].rgb = CODE_RGB /\ IsComment(line) -> {"comment-as-code"}
                    [] line[i].rgb = COMMENT_RGB /\ ~IsComment(line) /\ ~Trailing(i) -> {"code-as-comment"}
                    [] OTHER -> {}
  IN  UNION {Wrong(i) : i \in DOMAIN line}
Audit(b) == UNION {LineHits(l) : l \in Range(Lines(b))}

(* A box that passes the colour audit passes it after every operation that   *)
(* leaves it coloured by line type, but for the runs that were given a third *)
(* colour on purpose.                                                        *)
AuditStaysClean == [][coloured' /\ Audit(box) = {} => Audit(box') \subseteq {"other-colour"}]_vars

(* A cut leaves what splicing its ranges out, the last first, would leave.   *)
Spliced(lines, c) ==
  SubSeq(lines, 1, c.from - 1)
    \o (IF c.ellipsis THEN <<<<Run("comment", COMMENT_RGB)>>>> ELSE <<>>)
    \o SubSeq(lines, c.to + 1, Len(lines))
LastFirst(cuts) == SetToSortSeq(cuts, LAMBDA c, d : c.from > d.from)
CutExact == [][cut' # {} => Lines(box') = FoldLeft(Spliced, Lines(box), LastFirst(cut'))]_vars
=============================================================================
