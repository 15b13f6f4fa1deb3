------------------------------- MODULE DeckFont -------------------------------
(* src/scripts/deck_font.py: every font element of the slides and notes of a *)
(* deck that names an Overpass family is retargeted, and the deck replaced.  *)
(* A deck is the sequence of its font elements; those of its layouts and its *)
(* theme are not visited. Somebody else may write the deck meanwhile.        *)
EXTENDS Naturals, SequencesExt, FiniteSetsExt

CONSTANTS
  Typefaces,   \* the names in use: [name, overpass, mono], as both patterns match
  Parts,       \* "slide", "notes" and "layout"
  MaxElements, MaxEdits   \* bounds on the elements and on the other writes

VARIABLES
  deck,      \* the file: sequence of [part, font]
  backup,    \* the newest backup
  work,      \* prs
  out,       \* the file of --out
  toOut,     \* --out was given
  step,      \* "idle", "loaded", "retargeted", "saved", "backed" or "moving"
  total,     \* what the last report foretold of the deck file as it is, or Unknown
  changed,   \* what the last --apply counted
  edits      \* for MaxEdits

vars == <<deck, backup, work, out, toOut, step, total, changed, edits>>

Target == CHOOSE t \in Typefaces : ~t.overpass /\ ~t.mono
Unknown == 99
NoDeck == <<>>   \* no file, or one that cannot be opened
Elements == [part : Parts, font : Typefaces]

(* all_font_elements() and the test of report() and apply(): a mono family   *)
(* is skipped first.                                                         *)
Visited_SlidesOnly(e) == e.part = "slide"
Visited(e) == e.part \in {"slide", "notes"}

Retargets(e) == Visited(e) /\ ~e.font.mono /\ e.font.overpass

Mono(e) == Visited(e) /\ e.font.mono
Matched(d) == Len(SelectSeq(d, Retargets))
Monos(d) == Len(SelectSeq(d, Mono))
Retargeted(d) == [i \in DOMAIN d |-> IF Retargets(d[i]) THEN [d[i] EXCEPT !.font = Target] ELSE d[i]]

-----------------------------------------------------------------------------
TypeOK ==
  /\ Len(deck) <= MaxElements /\ Range(deck) \subseteq Elements
  /\ \A f \in {backup, work, out} : Range(f) \subseteq Elements
  /\ step \in {"idle", "loaded", "retargeted", "saved", "backed", "moving"}
  /\ total \in 0..MaxElements \cup {Unknown} /\ changed \in 0..MaxElements \cup {Unknown}
  /\ edits \in 0..MaxEdits

Init ==
  /\ deck \in UNION {[1..n -> Elements] : n \in 1..MaxElements}
  /\ backup = NoDeck /\ work = NoDeck /\ out = NoDeck /\ toOut = FALSE
  /\ step = "idle" /\ total = Unknown /\ changed = Unknown /\ edits = 0

(* main() without --apply.                                                   *)
Report ==
  /\ step = "idle" /\ total' = Matched(deck)
  /\ UNCHANGED <<deck, backup, work, out, toOut, step, changed, edits>>

Load ==
  /\ step = "idle" /\ step' = "loaded" /\ work' = deck /\ toOut' \in BOOLEAN
  /\ UNCHANGED <<deck, backup, out, total, changed, edits>>

(* apply() between two counts of the mono elements.                          *)
Apply ==
  /\ step = "loaded" /\ work' = Retargeted(work)
  /\ changed' = Matched(work)
  /\ step' = IF Monos(work) = Monos(work') THEN "retargeted" ELSE "idle"
  /\ UNCHANGED <<deck, backup, out, toOut, total, edits>>

(* The result is saved in a temporary directory; a backup is made of what    *)
(* the deck file is by now; the result takes its place, or that of --out.    *)
Save ==
  /\ step = "retargeted" /\ step' = IF toOut THEN "backed" ELSE "saved"
  /\ UNCHANGED <<deck, backup, work, out, toOut, total, changed, edits>>
Backup_OfLoaded ==
  /\ step = "saved" /\ step' = "backed" /\ backup' = work
  /\ UNCHANGED <<deck, work, out, toOut, total, changed, edits>>
Backup ==
  /\ step = "saved" /\ step' = "backed" /\ backup' = deck
  /\ UNCHANGED <<deck, work, out, toOut, total, changed, edits>>

(* os.replace(), or shutil.move() to another device, which writes in place.  *)
Write(file) ==
  /\ IF toOut THEN out' = file /\ UNCHANGED <<deck, total>> ELSE deck' = file /\ total' = Unknown /\ UNCHANGED out
  /\ UNCHANGED <<backup, work, toOut, changed, edits>>
Replace == step = "backed" /\ step' = "idle" /\ Write(work)
Move == step = "backed" /\ step' = "moving" /\ Write(NoDeck)
Moved == step = "moving" /\ step' = "idle" /\ Write(work)

(* The finally clause, or the process is killed: the deck is as it was, or   *)
(* the author copies the backup over a broken one.                           *)
Stop ==
  /\ step # "idle" /\ step' = "idle"
  /\ deck' = IF deck = NoDeck THEN backup ELSE deck
  /\ UNCHANGED <<backup, work, out, toOut, total, changed, edits>>

(* deck_edit.py or the author writes the deck.                               *)
EditDeck(e) ==
  /\ edits < MaxEdits /\ Len(deck) < MaxElements /\ deck # NoDeck
  /\ edits' = edits + 1 /\ deck' = Append(deck, e) /\ total' = Unknown
  /\ UNCHANGED <<backup, work, out, toOut, step, changed>>

Next == Report \/ Load \/ Apply \/ Save \/ Backup \/ Replace \/ Move \/ Moved \/ Stop \/ \E e \in Elements : EditDeck(e)

Spec == Init /\ [][Next]_vars

-----------------------------------------------------------------------------
(* What a run writes has retargeted what the report of the same deck         *)
(* foretold, no slide or note of it names a proportional Overpass family,    *)
(* and no code font has changed.                                             *)
ResultAsReported ==
  [][step = "backed" /\ step' # "backed" /\ (deck' # deck \/ out' # out) =>
       /\ \A i \in DOMAIN work : work[i].part # "layout" /\ work[i].font.overpass => work[i].font.mono
       /\ total # Unknown /\ work = Retargeted(deck) => changed = total]_vars

(* The deck that a run replaces is the newest backup, also when it was       *)
(* written since the run loaded it, unless that was after the backup, and    *)
(* remains so until the run is over.                                         *)
ReplacedDeckIsKept ==
  [][/\ step = "backed" /\ deck' # deck /\ step' # "backed" =>
          backup = deck \/ \E n \in 1..MaxEdits : backup = SubSeq(deck, 1, Len(deck) - n)
     /\ deck = NoDeck => step = "moving" /\ backup' = backup /\ deck' \in {backup, work}]_vars
=============================================================================
