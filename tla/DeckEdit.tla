------------------------------ MODULE DeckEdit -------------------------------
(* src/scripts/deck_edit.py: a list of operations is applied to a copy of a  *)
(* .pptx in memory, and the deck file is replaced by the result. A slide has *)
(* a text, pictures that name an image through a relationship (rId), and     *)
(* perhaps a notes part. A text is a sequence of words.                      *)
EXTENDS Naturals, SequencesExt, FiniteSetsExt, Functions

CONSTANTS
  FirstDeck,    \* the deck of the repository: [slides, notes]
  Ops,          \* the operations that an edits file may hold
  MaxOps,       \* bound on the length of the edits
  MaxRuns,      \* bound on the runs of the tool
  Broken        \* a file of which only a part is written

VARIABLES
  deck,      \* the deck file: a deck, or Broken
  backup,    \* the newest file of backup_dir(): NoFile, Broken or a deck
  ops,       \* the operations of the run
  work,      \* prs, the copy in memory
  created,   \* Ctx.created: the slides cloned by the run under a name
  todo,      \* the operations not yet applied
  step,      \* where the run is
  applied,   \* operations of all the runs that the copy in memory holds
  stored,    \* operations that the deck file holds
  before,    \* the deck file as the run loaded it
  runs       \* runs so far, for MaxRuns

deckfile == <<deck, backup, stored>>
vars == <<deck, backup, ops, work, created, todo, step, applied, stored, before, runs>>

NoFile == "none"

(* A deck as it is saved: ids are told apart, a notes part is of one slide,  *)
(* pictures point at relationships of their slide.                           *)
SoundSlide(s) ==
  /\ DOMAIN s = {"id", "text", "notes", "pics", "rels"} /\ s.id \in Nat
  /\ DOMAIN s.rels \subseteq Nat \ {0} /\ IsFiniteSet(DOMAIN s.rels)
  /\ Range(s.pics) \subseteq DOMAIN s.rels
SoundDeck(d) ==
  /\ DOMAIN d = {"slides", "notes"} /\ d.slides \in Seq(Range(d.slides))
  /\ DOMAIN d.notes \subseteq Nat \ {0} /\ IsFiniteSet(DOMAIN d.notes)
  /\ \A k \in DOMAIN d.slides : SoundSlide(d.slides[k]) /\ d.slides[k].notes \in DOMAIN d.notes \cup {0}
  /\ \A j, k \in DOMAIN d.slides : j # k =>
       /\ d.slides[j].id # d.slides[k].id
       /\ d.slides[j].notes = d.slides[k].notes => d.slides[j].notes = 0

TypeOK ==
  /\ step \in {"idle", "ops", "saved", "copying", "backed", "moving"}
  /\ IsSuffix(todo, ops) /\ Len(ops) <= MaxOps
  /\ step = "moving" <=> deck = Broken
  /\ created \subseteq {s.id : s \in Range(work.slides)}
  /\ runs \in 0..MaxRuns

Init ==
  /\ deck = FirstDeck /\ work = FirstDeck /\ before = FirstDeck
  /\ backup = NoFile
  /\ ops = <<>> /\ todo = <<>> /\ applied = <<>> /\ stored = <<>>
  /\ created = {}
  /\ step = "idle"
  /\ runs = 0

(* load_ops() and Presentation(): the edits files and the deck are read.     *)
Load ==
  /\ step = "idle" /\ deck # Broken /\ runs < MaxRuns
  /\ runs' = runs + 1
  /\ \E list \in BoundedSeq(Ops, MaxOps) : ops' = list /\ todo' = list
  /\ work' = deck /\ before' = deck /\ applied' = stored
  /\ created' = {}
  /\ step' = "ops"
  /\ UNCHANGED deckfile

-----------------------------------------------------------------------------
(* Ctx.slide(): a number is the id of a slide, "$r" the slide cloned as r.   *)
Named == 100
Found(d, ref) ==
  {k \in DOMAIN d.slides : d.slides[k].id = ref \/ (ref = Named /\ d.slides[k].id \in created)}
The(d, ref) == CHOOSE k \in Found(d, ref) : TRUE

Selected(d, op) == {k \in DOMAIN d.slides : op.ids = {} \/ d.slides[k].id \in op.ids}
Notes(d, k) == IF d.slides[k].notes \in DOMAIN d.notes THEN d.notes[d.slides[k].notes] ELSE <<>>
Count(text, word) == Quantify(DOMAIN text, LAMBDA i : text[i] = word)
Replaced(text, op) == [i \in DOMAIN text |-> IF text[i] = op.find THEN op.repl ELSE text[i]]

(* op_replace: the texts and notes of the selected slides; the number of     *)
(* matches must be the expected one.                                         *)
Matches(d, op) ==
  MapThenSumSet(LAMBDA k : (IF op.scope # "notes" THEN Count(d.slides[k].text, op.find) ELSE 0)
                           + (IF op.scope # "slide" THEN Count(Notes(d, k), op.find) ELSE 0),
                Selected(d, op))
ReplaceOk(d, op) ==
  /\ \A id \in op.ids : Found(d, id) # {}
  /\ Matches(d, op) = op.expect
Replace(d, op) ==
  [slides |-> [k \in DOMAIN d.slides |->
     IF k \in Selected(d, op) /\ op.scope # "notes"
       THEN [d.slides[k] EXCEPT !.text = Replaced(@, op)] ELSE d.slides[k]],
   notes |-> [n \in DOMAIN d.notes |->
     IF op.scope # "slide" /\ \E k \in Selected(d, op) : d.slides[k].notes = n
       THEN Replaced(d.notes[n], op) ELSE d.notes[n]]]

(* op_set_text, op_set_page_number: the text of one shape of one slide.      *)
SetText(d, op) == [d EXCEPT !.slides[The(d, op.ref)].text = op.text]

(* op_set_notes: slide.notes_slide creates the notes of a slide without any. *)
NewPart(d) == 1 + Max({0} \cup DOMAIN d.notes)
SetNotes(d, op) ==
  LET k == The(d, op.ref)
      n == IF d.slides[k].notes \in DOMAIN d.notes THEN d.slides[k].notes ELSE NewPart(d)
  IN  [slides |-> [d.slides EXCEPT ![k].notes = n],
       notes |-> [m \in DOMAIN d.notes \cup {n} |-> IF m = n THEN op.text ELSE d.notes[m]]]

(* op_replace_picture: get_or_add_image_part reuses the relationship of an   *)
(* image the slide has; the old one is dropped when no picture uses it.      *)
PictureOk(d, op) == Found(d, op.ref) # {} /\ op.pic \in DOMAIN d.slides[The(d, op.ref)].pics
RelOf(rels, image) ==
  IF image \in Range(rels) THEN CHOOSE r \in DOMAIN rels : rels[r] = image
  ELSE 1 + Max({0} \cup DOMAIN rels)
Kept_Unasked(pics, rels, old) == DOMAIN rels \ {old}
Kept(pics, rels, old) == IF old \in Range(pics) THEN DOMAIN rels ELSE DOMAIN rels \ {old}

ReplacePicture(d, op) ==
  LET k == The(d, op.ref)
      s == d.slides[k]
      rid == RelOf(s.rels, op.png)
      pics == [s.pics EXCEPT ![op.pic] = rid]
      rels == [r \in DOMAIN s.rels \cup {rid} |-> IF r = rid THEN op.png ELSE s.rels[r]]
      kept == IF s.pics[op.pic] = rid THEN DOMAIN rels ELSE Kept(pics, rels, s.pics[op.pic])
  IN  [d EXCEPT !.slides[k].pics = pics, !.slides[k].rels = Restrict(rels, kept)]

(* op_clone_slide: relationships to the same targets under new numbers, the  *)
(* XML copied with its references renumbered, notes of its own.              *)
CloneOk(d, op) == Found(d, op.ref) # {} /\ (op.after = 0 \/ Found(d, op.after) # {})
NotesOfClone_Shared(d, k) == d.slides[k].notes
NotesOfClone(d, k) == IF d.slides[k].notes \in DOMAIN d.notes THEN NewPart(d) ELSE 0

Renumbered(rels) == SetToSeq(Range(rels))
CloneSlide(d, op) ==
  LET k == The(d, op.ref)
      s == d.slides[k]
      rels == Renumbered(s.rels)
      n == NotesOfClone(d, k)
      new == [s EXCEPT !.id = 1 + Max({t.id : t \in Range(d.slides)}), !.notes = n, !.rels = rels,
                       !.pics = [j \in DOMAIN s.pics |-> RelOf(rels, s.rels[s.pics[j]])]]
      at == IF op.after = 0 THEN Len(d.slides) + 1 ELSE The(d, op.after) + 1
  IN  [slides |-> InsertAt(d.slides, at, new),
       notes |-> [m \in DOMAIN d.notes \cup ({n} \ {0}) |-> IF m = n THEN Notes(d, k) ELSE d.notes[m]]]

Applicable(d, op) ==
  CASE op.op = "replace" -> ReplaceOk(d, op)
    [] op.op = "replace_picture" -> PictureOk(d, op)
    [] op.op = "clone_slide" -> CloneOk(d, op)
    [] OTHER -> Found(d, op.ref) # {}
Applied(d, op) ==
  CASE op.op = "replace" -> Replace(d, op)
    [] op.op = "set_text" -> SetText(d, op)
    [] op.op = "set_notes" -> SetNotes(d, op)
    [] op.op = "replace_picture" -> ReplacePicture(d, op)
    [] op.op = "clone_slide" -> CloneSlide(d, op)

(* The process ends, with the copy in memory.                                *)
Ends ==
  /\ step' = "idle"
  /\ work' = deck' /\ before' = deck' /\ applied' = stored'
  /\ ops' = <<>> /\ todo' = <<>> /\ created' = {}
  /\ UNCHANGED runs

(* The loop of main() over the operations.                                   *)
Apply ==
  /\ step = "ops" /\ todo # <<>> /\ Applicable(work, Head(todo))
  /\ work' = Applied(work, Head(todo))
  /\ created' = IF Head(todo).op = "clone_slide"
                THEN {Max({s.id : s \in Range(work'.slides)})} ELSE created
  /\ todo' = Tail(todo) /\ applied' = Append(applied, Head(todo))
  /\ UNCHANGED <<deckfile, ops, step, before, runs>>

(* EditError: "FAILED, nothing written".                                     *)
OpFails_GoesOn ==
  /\ step = "ops" /\ todo # <<>> /\ ~Applicable(work, Head(todo))
  /\ todo' = Tail(todo)
  /\ UNCHANGED <<deckfile, ops, work, created, step, applied, before, runs>>
OpFails ==
  /\ step = "ops" /\ todo # <<>> /\ ~Applicable(work, Head(todo))
  /\ UNCHANGED deckfile /\ Ends

-----------------------------------------------------------------------------
copy == <<ops, work, created, todo, applied, before, runs>>

(* The result is saved to a temporary file and loaded again.                 *)
Save ==
  /\ step = "ops" /\ todo = <<>>
  /\ step' = "saved"
  /\ UNCHANGED <<deckfile, copy>>
DryRun ==
  /\ step = "saved"
  /\ UNCHANGED deckfile /\ Ends

(* shutil.copy2() to the backup directory writes that file in place.         *)
Backup ==
  /\ step = "saved"
  /\ backup' = Broken /\ step' = "copying"
  /\ UNCHANGED <<deck, stored, copy>>
Copied_Empty ==
  /\ step = "copying"
  /\ step' = "backed"
  /\ UNCHANGED <<deckfile, copy>>
Copied ==
  /\ step = "copying"
  /\ backup' = deck /\ step' = "backed"
  /\ UNCHANGED <<deck, stored, copy>>

Done == deck' = work /\ stored' = applied /\ UNCHANGED backup /\ Ends

(* os.replace(), when the temporary file is on the deck's device; otherwise  *)
(* shutil.move(), which writes the deck file in place.                       *)
ReplaceFile == step = "backed" /\ Done
Move ==
  /\ step = "backed"
  /\ deck' = Broken /\ step' = "moving"
  /\ UNCHANGED <<backup, stored, copy>>
Moved == step = "moving" /\ Done

(* The process is killed; the author copies the backup over a broken deck.   *)
Crash ==
  /\ step # "idle"
  /\ deck' = IF step = "moving" THEN backup ELSE deck
  /\ UNCHANGED <<backup, stored>> /\ Ends

Run == Load \/ Apply \/ OpFails \/ Save \/ DryRun
WriteDeck == Backup \/ Copied \/ ReplaceFile \/ Move \/ Moved
Next == Run \/ WriteDeck \/ Crash

Spec == Init /\ [][Next]_vars

-----------------------------------------------------------------------------
(* "A failing operation aborts the run and nothing is written": the deck     *)
(* file changes only from the deck the run loaded to that deck with every    *)
(* operation of the edits applied, in order.                                 *)
AllOrNothing ==
  [][stored' # stored => /\ stored' = stored \o ops
                         /\ todo = <<>>]_vars

(* However the run is interrupted, the deck it loaded is on disk, as the     *)
(* deck file or as its backup, until the new deck is complete.               *)
DeckIsOnDisk == step # "idle" => before \in {deck, backup}

(* No picture of the deck points at a relationship its slide does not have,  *)
(* through any sequence of replaced pictures and clones of clones.           *)
PicturesResolve ==
  \A s \in Range(work.slides) : Range(s.pics) \subseteq DOMAIN s.rels

(* What a viewer sees of a slide.                                            *)
Seen(d, k) ==
  LET s == d.slides[k]
  IN  <<s.text, Notes(d, k), [j \in DOMAIN s.pics |-> s.rels[s.pics[j]]]>>
Addressed(d, op) ==
  CASE op.op = "replace" -> {d.slides[k].id : k \in Selected(d, op)}
    [] op.op = "clone_slide" -> {}
    [] OTHER -> {d.slides[k].id : k \in Found(d, op.ref)}

(* An operation on one slide changes no other: a clone shares neither its    *)
(* notes nor its relationships with its template.                            *)
OtherSlidesKept ==
  [][todo' # todo /\ step = "ops" /\ step' = "ops" =>
       \A k \in DOMAIN work.slides, j \in DOMAIN work'.slides :
         work'.slides[j].id = work.slides[k].id /\ work.slides[k].id \notin Addressed(work, Head(todo))
           => Seen(work', j) = Seen(work, k)]_vars
=============================================================================
