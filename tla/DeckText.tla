------------------------------ MODULE DeckText -------------------------------
(* src/scripts/deck_text.py: the Markdown copies of the decks. The text of a *)
(* slide is made from the items of its shapes, that of a document from its   *)
(* paragraphs; --write rewrites the copies, --check compares them.           *)
EXTENDS Naturals, SequencesExt, FiniteSetsExt, Functions

CONSTANTS
  Slides,      \* slides a deck may hold: sequences of shapes
  Documents,   \* documents: sequences of paragraphs
  Stems,       \* names of decks
  MaxChanges   \* bound on the changes of the decks

VARIABLES
  decks,      \* the sources: stem -> slide or document, or Gone
  copies,     \* the text copies: stem -> Markdown, or Gone
  todo,       \* stems whose copy a --write has yet to see to
  verdict,    \* exit of a --check of what is there now, or "none"
  changes     \* for MaxChanges

vars == <<decks, copies, todo, verdict, changes>>

Gone == <<>>

(* A line of Markdown is blank or names the item it shows and how.           *)
Line(as, of) == [as |-> as, of |-> of, number |-> 0]
Numbered(n, of) == [as |-> "1. ", of |-> of, number |-> n]
Blank == Line("blank", 0)
Block(as, of) == <<Line(as, of), Blank>>

-----------------------------------------------------------------------------
(* para_of(), shape_items(): what a shape is follows from its runs. A mono   *)
(* shape is a chip when it is one short small line, else code; a small       *)
(* number is a page number.                                                  *)
OneLine(shape) == shape.paras = 1 /\ ~shape.breaks
Kind_AnyLength(shape) ==
  CASE shape.mono -> IF OneLine(shape) /\ shape.size <= 11 THEN "chip" ELSE "code"
    [] OTHER -> IF shape.paras = 1 /\ shape.size <= 11 /\ shape.digits THEN "page" ELSE "text"
Kind(shape) ==
  CASE shape.mono /\ OneLine(shape) /\ shape.size <= 11 /\ shape.short -> "chip"
    [] shape.mono /\ ~(OneLine(shape) /\ shape.size <= 11 /\ shape.short) -> "code"
    [] ~shape.mono /\ shape.paras = 1 /\ shape.size <= 11 /\ shape.digits -> "page"
    [] OTHER -> "text"

(* is_code_sp() of deck_edit.py, which recolours and audits code, looks at    *)
(* the text of the only paragraph without its line breaks.                   *)
IsCodeSp(shape) == shape.mono /\ ~(shape.paras = 1 /\ shape.short /\ shape.size <= 11)

(* slide_section(): the title is the title placeholder, else the largest     *)
(* text; the eyebrow the first short small text before it.                   *)
Texts(items) == {i \in DOMAIN items : Kind(items[i]) = "text"}
TitleOf(items) ==
  LET placeholders == {i \in Texts(items) : items[i].title}
      largest == {i \in Texts(items) : \A j \in Texts(items) : items[i].size >= items[j].size}
  IN  IF placeholders # {} THEN Min(placeholders) ELSE Min(largest \cup {Len(items) + 1})
EyebrowOf(items) ==
  LET small == {i \in Texts(items) : i < TitleOf(items) /\ OneLine(items[i]) /\ items[i].short /\ items[i].size \in 1..14}
  IN  IF TitleOf(items) > Len(items) THEN 0 ELSE Min(small \cup {Len(items) + 1})

(* A chip is held until the code it labels, the next chip or the end.        *)
Chip(pending) == IF pending = 0 THEN <<>> ELSE Block("chip", pending)
ShowItem(s, items, i) ==
  CASE Kind(items[i]) = "chip" -> [out |-> s.out \o Chip(s.chip), chip |-> i]
    [] Kind(items[i]) = "code" ->
         [out |-> s.out \o Chip(s.chip) \o <<Line("fence", 0)>>
                  \o [k \in DOMAIN items[i].code |-> IF items[i].code[k] = "" THEN Blank ELSE Line(items[i].code[k], i)]
                  \o <<Line("fence", 0), Blank>>,
          chip |-> 0]
    [] OTHER -> [s EXCEPT !.out = @ \o Block(IF items[i].bullet THEN "- " ELSE Kind(items[i]), i)]

(* The blank line between two list items is dropped.                         *)
Tight(out) ==
  LET Bullet(i) == i \in DOMAIN out /\ out[i].as = "- "
      kept == {i \in DOMAIN out : ~(out[i] = Blank /\ Bullet(i - 1) /\ Bullet(i + 1))}
  IN  FoldLeft(LAMBDA o, i : IF i \in kept THEN Append(o, out[i]) ELSE o, <<>>, [i \in DOMAIN out |-> i])

AtEnd_NoChip(s) == s.out
AtEnd(s) == s.out \o Chip(s.chip)

SlideSection(items) ==
  LET heads == {TitleOf(items), EyebrowOf(items)}
      body == FoldLeft(LAMBDA s, i : IF i \in heads THEN s ELSE ShowItem(s, items, i),
                       [out |-> <<>>, chip |-> 0], [i \in DOMAIN items |-> i])
      eyebrow == IF EyebrowOf(items) \in DOMAIN items THEN <<Line("head", EyebrowOf(items))>> ELSE <<>>
      title == IF TitleOf(items) \in DOMAIN items THEN <<Line("head", TitleOf(items))>> ELSE <<>>
  IN  Tight(eyebrow \o title \o <<Blank>> \o AtEnd(body))

(* docx_to_md(): mono paragraphs gather into one fence, list items are tight *)
(* and numbered from 1 after anything else.                                  *)
Flush(s) ==
  IF s.code = <<>> THEN s
  ELSE [s EXCEPT !.out = @ \o <<Line("fence", 0)>> \o [k \in DOMAIN s.code |-> Line("mono", s.code[k])]
                           \o <<Line("fence", 0), Blank>>, !.code = <<>>]
Number_GoesOn(s) == s.num
Number(s) == 0

ShowParagraph(s, doc, i) ==
  LET f == Flush(s)
  IN  CASE doc[i].kind = "mono" -> [s EXCEPT !.code = Append(@, i), !.num = Number(s)]
        [] doc[i].kind = "bullet" -> [f EXCEPT !.out = Append(@, Line("- ", i)), !.num = Number(f)]
        [] doc[i].kind = "number" -> [f EXCEPT !.out = Append(@, Numbered(f.num + 1, i)), !.num = @ + 1]
        [] OTHER -> [f EXCEPT !.out = @ \o Block(doc[i].kind, i), !.num = Number(f)]
DocxToMd(doc) ==
  Flush(FoldLeft(LAMBDA s, i : ShowParagraph(s, doc, i),
                 [out |-> <<>>, code |-> <<>>, num |-> 0], [i \in DOMAIN doc |-> i])).out

Extract(source) == IF source \in Slides THEN SlideSection(source) ELSE DocxToMd(source)

-----------------------------------------------------------------------------
TypeOK ==
  /\ DOMAIN decks = Stems /\ Range(decks) \subseteq Slides \cup Documents \cup {Gone}
  /\ DOMAIN copies = Stems
  /\ todo \subseteq Stems
  /\ verdict \in {"none", "ok", "FAILED"}
  /\ changes \in 0..MaxChanges

Init ==
  /\ decks = [d \in Stems |-> Gone] /\ copies = [d \in Stems |-> Gone]
  /\ todo = {} /\ verdict = "none" /\ changes = 0

(* A deck is added, edited or removed.                                       *)
ChangeDeck(d, source) ==
  /\ changes < MaxChanges /\ changes' = changes + 1
  /\ source # decks[d] /\ decks' = [decks EXCEPT ![d] = source]
  /\ verdict' = "none"
  /\ UNCHANGED <<copies, todo>>

(* main(--write): stale copies are unlinked, the others written, one by one. *)
StartWrite ==
  /\ todo = {}
  /\ todo' = {d \in Stems : decks[d] # Gone \/ copies[d] # Gone}
  /\ UNCHANGED <<decks, copies, verdict, changes>>
WriteCopy(d) ==
  /\ d \in todo /\ todo' = todo \ {d}
  /\ copies' = [copies EXCEPT ![d] = IF decks[d] = Gone THEN Gone ELSE Extract(decks[d])]
  /\ verdict' = "none"
  /\ UNCHANGED <<decks, changes>>
Stop ==
  /\ todo # {} /\ todo' = {}
  /\ UNCHANGED <<decks, copies, verdict, changes>>

(* main(--check): MISSING, EXTRA and STALE copies fail it.                   *)
Matches(d) == copies[d] = IF decks[d] = Gone THEN Gone ELSE Extract(decks[d])
Check ==
  /\ todo = {}
  /\ verdict' = IF \A d \in Stems : Matches(d) THEN "ok" ELSE "FAILED"
  /\ UNCHANGED <<decks, copies, todo, changes>>

Next ==
  \/ \E d \in Stems, source \in Slides \cup Documents \cup {Gone} : ChangeDeck(d, source)
  \/ StartWrite \/ Stop \/ Check
  \/ \E d \in Stems : WriteCopy(d)

Spec == Init /\ [][Next]_vars

-----------------------------------------------------------------------------
Shown(out) == {out[i].of : i \in DOMAIN out} \ {0}

(* After a check that passes, every copy shows every item and paragraph of   *)
(* its deck, and no copy is left of a deck that is gone.                     *)
CheckedCopiesComplete ==
  verdict = "ok" =>
    \A d \in Stems : IF decks[d] = Gone THEN copies[d] = Gone
                     ELSE Shown(copies[d]) = DOMAIN decks[d]

(* A chip stands right before the code it labels, and the numbered items of  *)
(* a document count 1, 2, ... within a run of them.                          *)
CopyReadsAsSource ==
  \A d \in Stems :
    LET source == decks[d]
        out == copies[d]
        Run(i) == {j \in 1..i : \A k \in j..i : source[k].kind = "number"}
    IN  /\ verdict = "ok" /\ source \in Slides =>
             \A i \in DOMAIN source : Kind(source[i]) = "code" /\ i > 1 /\ Kind(source[i - 1]) = "chip" =>
               \E k \in DOMAIN out : out[k] = Line("chip", i - 1) /\ out[k + 2] = Line("fence", 0)
        /\ verdict = "ok" /\ source \in Documents =>
             \A i \in DOMAIN source : source[i].kind = "number" => Numbered(Cardinality(Run(i)), i) \in Range(out)

(* What a copy shows as code is code to the tools that recolour and audit    *)
(* boxes, and nothing else is: but for one paragraph broken into short lines.*)
CodeIsCodeToAll ==
  \A d \in Stems : decks[d] \in Slides =>
    \A i \in DOMAIN decks[d] : OneLine(decks[d][i]) \/ decks[d][i].paras > 1 =>
      (Kind(decks[d][i]) = "code" <=> IsCodeSp(decks[d][i]))
=============================================================================
