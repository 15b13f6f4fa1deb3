---------------------------- MODULE CompanionDocx -----------------------------
(* src/_plans/s12-manifest/tools/companion_docx.py: the Word companion of a  *)
(* deck is edited in place so that its text equals a new revision of its     *)
(* Markdown. Both are sequences of blocks: paragraphs of a style, tables and *)
(* pictures. A text is a sequence of words (of cells, for a table).          *)
EXTENDS Integers, SequencesExt, FiniteSetsExt

CONSTANTS
  Revisions,     \* the Markdown revisions, as parse() returns them
  MaxRevisions   \* bound on the revisions that are written

VARIABLES
  md,        \* the committed Markdown
  plan,      \* the revision to apply
  docx,      \* the document: blocks with the kinds of their runs
  verdict,   \* how the last run of the tool ended, or "none"
  written    \* for MaxRevisions

vars == <<md, plan, docx, verdict, written>>

(* parse(): a fence is a Normal paragraph whose span is plain; a picture has *)
(* no text.                                                                  *)
Block(style, text, kinds) ==
  [style |-> style, text |-> text, kinds |-> kinds, fence |-> FALSE, pic |-> FALSE]
Paragraph(style, text, kind) == Block(style, <<text>>, <<kind>>)
Fence(text) == [Paragraph("Normal", text, "plain") EXCEPT !.fence = TRUE]
Picture == [Block("Normal", <<>>, <<>>) EXCEPT !.pic = TRUE]
Table(cells) == Block("TABLE", cells, <<>>)
IsTable(b) == b.style = "TABLE"

Text(b) == <<b.style, b.text>>
Texts(blocks) == [i \in DOMAIN blocks |-> Text(blocks[i])]

(* The converter that made the document set fences in Consolas.              *)
Converted(b) == IF b.fence THEN [b EXCEPT !.kinds = <<"code">>] ELSE b

-----------------------------------------------------------------------------
(* difflib: the longest common run, the first of them, and then what is left *)
(* and right of it. An opcode is the gap between two matched pairs.          *)
Matched(a, b) ==
  LET Same(i, j, n, i2, j2) == i + n - 1 <= i2 /\ j + n - 1 <= j2 /\ \A k \in 0..n - 1 : a[i + k] = b[j + k]
      Before(r, s) == \/ r[3] > s[3]
                      \/ r[3] = s[3] /\ r[1] < s[1]
                      \/ r[3] = s[3] /\ r[1] = s[1] /\ r[2] <= s[2]
      matched[i1 \in 1..Len(a) + 1, i2 \in 0..Len(a), j1 \in 1..Len(b) + 1, j2 \in 0..Len(b)] ==
        LET runs == {r \in (i1..i2) \X (j1..j2) \X (1..i2 - i1 + 1) : Same(r[1], r[2], r[3], i2, j2)}
            best == CHOOSE r \in runs : \A s \in runs : Before(r, s)
        IN  IF runs = {} THEN <<>>
            ELSE matched[i1, best[1] - 1, j1, best[2] - 1]
                 \o [k \in 1..best[3] |-> <<best[1] + k - 1, best[2] + k - 1>>]
                 \o matched[best[1] + best[3], i2, best[2] + best[3], j2]
  IN  matched[1, Len(a), 1, Len(b)]

(* The k-th pair of a gap sets a paragraph; what the new revision has more   *)
(* is inserted, what it has less deleted.                                    *)
Gap(i1, i2, j1, j2) ==
  [k \in 1..Max({i2 - i1 + 1, j2 - j1 + 1}) |->
     [i |-> IF i1 + k - 1 <= i2 THEN i1 + k - 1 ELSE 0, j |-> IF j1 + k - 1 <= j2 THEN j1 + k - 1 ELSE 0]]
Pairs(a, b) ==
  LET same == <<<<0, 0>>>> \o Matched(a, b)
      Upto(k) == IF k < Len(same) THEN same[k + 1] ELSE <<Len(a) + 1, Len(b) + 1>>
      Kept(k) == IF k = 1 THEN <<>> ELSE <<[i |-> same[k][1], j |-> same[k][2]]>>
  IN  FlattenSeq([k \in DOMAIN same |-> Kept(k) \o Gap(same[k][1] + 1, Upto(k)[1] - 1, same[k][2] + 1, Upto(k)[2] - 1)])

(* Runs.fill(): each span takes the format of a run of its kind, of the      *)
(* paragraph or of the document, else that of plain text.                    *)
Kinds(blocks) == UNION {Range(b.kinds) : b \in Range(blocks)}
Fill_OwnFirst(x, nb) == [nb EXCEPT !.kinds = [k \in DOMAIN nb.kinds |-> IF x.kinds # <<>> THEN x.kinds[1] ELSE "plain"],
                                   !.fence = FALSE, !.pic = FALSE]
Fill(x, nb) == [nb EXCEPT !.kinds = [k \in DOMAIN nb.kinds |-> IF nb.kinds[k] \in Kinds(docx) THEN nb.kinds[k] ELSE "plain"],
                          !.fence = FALSE, !.pic = FALSE]

(* A table keeps its shape: its cells get the new ones as far as both go.    *)
SetCells(x, nb) == [x EXCEPT !.text = [c \in DOMAIN @ |-> IF c \in DOMAIN nb.text THEN nb.text[c] ELSE @[c]]]
Delete_Keeps(x) == <<x>>
Delete(x) == <<>>

Refused(p) ==
  LET nb == plan[p.j]
  IN  \/ p.i # 0 /\ p.j # 0 /\ IsTable(docx[p.i]) # IsTable(nb)
      \/ p.i = 0 /\ (IsTable(nb) \/ nb.pic)
      \/ p.i = 0 /\ \A b \in Range(docx) : b.style # nb.style
NoAnchor(pairs) == pairs # <<>> /\ pairs[1].i = 0


Edited(p) ==
  CASE p.j = 0 -> Delete(docx[p.i])
    [] p.i = 0 -> <<Fill(Picture, plan[p.j])>>
    [] Text(md[Max({p.i, 1})]) = Text(plan[Max({p.j, 1})]) -> <<docx[p.i]>>
    [] IsTable(plan[p.j]) -> <<SetCells(docx[p.i], plan[p.j])>>
    [] OTHER -> <<Fill(docx[p.i], plan[p.j])>>

-----------------------------------------------------------------------------
TypeOK ==
  /\ md \in Revisions /\ plan \in Revisions
  /\ \A b \in Range(docx) : Range(b.kinds) \subseteq {"plain", "bold", "italic", "code"}
  /\ verdict \in {"none", "not reproduced", "refused", "differs", "ok"}
  /\ written \in 0..MaxRevisions

Init ==
  /\ md \in Revisions /\ plan = md
  /\ docx = [i \in DOMAIN md |-> Converted(md[i])]
  /\ verdict = "none" /\ written = 0

WriteRevision(revision) ==
  /\ written < MaxRevisions /\ written' = written + 1
  /\ revision # plan /\ plan' = revision
  /\ verdict' = "none"
  /\ UNCHANGED <<md, docx>>

(* main(): the old revision must reproduce the document; the document is     *)
(* saved over itself and then compared with the new revision.                *)
CompanionDocx ==
  LET pairs == Pairs(Texts(md), Texts(plan))
      edited == FlattenSeq([k \in DOMAIN pairs |-> Edited(pairs[k])])
      stops == NoAnchor(pairs) \/ \E k \in DOMAIN pairs : Refused(pairs[k])
  IN  /\ verdict = "none"
      /\ verdict' = CASE Texts(docx) # Texts(md) -> "not reproduced"
                      [] Texts(docx) = Texts(md) /\ stops -> "refused"
                      [] Texts(docx) = Texts(md) /\ ~stops -> IF Texts(edited) = Texts(plan) THEN "ok" ELSE "differs"
      /\ docx' = IF verdict' \in {"ok", "differs"} THEN edited ELSE docx
      /\ UNCHANGED <<md, plan, written>>

(* companions.md: the revision is copied over the Markdown after that.       *)
CopyRevision ==
  /\ verdict = "ok" /\ md # plan /\ md' = plan
  /\ UNCHANGED <<plan, docx, verdict, written>>

Next == (\E r \in Revisions : WriteRevision(r)) \/ CompanionDocx \/ CopyRevision

Spec == Init /\ [][Next]_vars

-----------------------------------------------------------------------------
(* What the tool accepts to do comes out as the new revision: only a table   *)
(* whose shape changes can end with "result differs" and the document saved. *)
OnlyTablesDiffer ==
  verdict = "differs" =>
    \E b \in Range(md), c \in Range(plan) : IsTable(b) /\ IsTable(c) /\ Len(b.text) # Len(c.text)

(* A paragraph with a text the document did not have shows the spans of the  *)
(* revision, if the document has runs of their kinds.                        *)
NewTextShowsItsSpans ==
  [][verdict = "none" /\ verdict' = "ok" =>
       \A i \in DOMAIN plan :
         ~IsTable(plan[i]) /\ Range(plan[i].kinds) \subseteq Kinds(docx) /\ Text(plan[i]) \notin Range(Texts(docx))
           => docx'[i].kinds = plan[i].kinds]_vars
=============================================================================
