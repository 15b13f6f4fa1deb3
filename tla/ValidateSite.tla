----------------------------- MODULE ValidateSite -----------------------------
(* src/scripts/validate_site.py, the checks before a commit: of the pages of *)
(* the site, of the Markdown of the decks, and of every file for podman. A   *)
(* file is a sequence of lines; Liquid drops its tags and leaves alone what  *)
(* is between raw and endraw; kramdown makes code blocks of fenced lines.    *)
EXTENDS Naturals, SequencesExt, FiniteSetsExt

CONSTANTS
  Site, Decks, History,   \* files that are pages, Markdown of the decks, and
                          \* plans that may name podman
  Tree0,                  \* the files before the first edit: name -> lines
  Lines,                  \* lines that an author may write
  MaxEdits                \* bound on the edits

VARIABLES
  tree,     \* the files: name -> sequence of lines
  report,   \* errors of the last run, if it saw this tree: <<file, line, check>>
  exit,     \* its exit code, or "none"
  edits     \* for MaxEdits

vars == <<tree, report, exit, edits>>

(* What the regular expressions see in a line; + is a trailing backslash.  *)
Marker(l) == CASE l = "~~~~" -> 4 [] l \in {"~~~", "~~~py"} -> 3 [] OTHER -> 0
Bare(l) == l \in {"~~~", "~~~~"}
Langs(l) == CASE l = "codetabs py" -> 1 [] l = "codetabs py|go" -> 2 [] OTHER -> 0
Codetabs == {"codetabs", "codetabs py", "codetabs py|go"}
Figures == {"figure", "figure lost", "figure mute"}
RawTags == {"raw", "endraw"}
Names(l) == l \in {"podman", "podman +", "dnf remove podman"}
Removes(l) == l \in {"dnf remove +", "dnf remove podman"}
Continues(l) == l \in {"dnf remove +", "podman +"}

Blanked(lines, at) == [i \in DOMAIN lines |-> IF i \in at THEN "" ELSE lines[i]]
Found(lines, what) == {i \in DOMAIN lines : lines[i] \in what}
Indexes(lines) == [i \in DOMAIN lines |-> i]

-----------------------------------------------------------------------------
(* split_front_matter() and its part of check_file()                         *)
FrontMatter(lines) ==
  LET ends == {i \in 2..Len(lines) : lines[i] = "---"}
      body == SubSeq(lines, 2, Min(ends \cup {Len(lines) + 1}) - 1)
  IN  CASE lines = <<>> \/ lines[1] # "---" -> {<<1, "no front matter">>}
        [] ends = {} -> {<<1, "front matter not closed">>}
        [] body = <<>> \/ \E i \in DOMAIN body : body[i] # "title:" -> {<<1, "not a mapping">>}
        [] OTHER -> {}

(* mask_raw(): what is in raw blocks is blanked, tags included.              *)
MaskRaw(lines) ==
  LET Tag(s, i) ==
        CASE lines[i] = "raw" /\ s.open # 0 -> [s EXCEPT !.errors = @ \cup {<<i, "raw">>}]
          [] lines[i] = "raw" -> [s EXCEPT !.open = i]
          [] lines[i] = "endraw" /\ s.open = 0 -> [s EXCEPT !.errors = @ \cup {<<i, "raw">>}]
          [] lines[i] = "endraw" -> [s EXCEPT !.open = 0, !.raw = @ \cup s.open..i]
          [] OTHER -> s
      end == FoldLeft(Tag, [open |-> 0, raw |-> {}, errors |-> {}], Indexes(lines))
      rest == IF end.open = 0 THEN {} ELSE end.open..Len(lines)
  IN  [text |-> Blanked(lines, end.raw \cup rest),
       errors |-> end.errors \cup (IF rest = {} THEN {} ELSE {<<end.open, "raw">>})]

(* fenced_regions(): <<first, last>> lines of the fenced blocks.             *)
Closes_AnyLength(open, l) == Bare(l)
Closes(open, l) == Bare(l) /\ Marker(l) >= Marker(open)

FencedRegions(lines) ==
  LET Step(s, i) ==
        IF s.open = 0 THEN IF Marker(lines[i]) > 0 THEN [s EXCEPT !.open = i] ELSE s
        ELSE IF Closes(lines[s.open], lines[i]) THEN [open |-> 0, regions |-> s.regions \cup {<<s.open, i>>}]
        ELSE s
      end == FoldLeft(Step, [open |-> 0, regions |-> {}], Indexes(lines))
  IN  end.regions \cup (IF end.open = 0 THEN {} ELSE {<<end.open, Len(lines)>>})

(* check_codetabs(): the includes are those outside raw blocks, the code     *)
(* blocks those of the page without its raw tags.                            *)
StripRawTags_Masked(lines) == MaskRaw(lines).text
StripRawTags(lines) == Blanked(lines, Found(lines, RawTags))

CountBlocks(lines, regions, tag) ==
  LET Step(s, i) ==
        IF s.done \/ i <= s.to \/ lines[i] = "" THEN s
        ELSE LET here == {r \in regions : r[1] = i}
             IN  IF here = {} THEN [s EXCEPT !.done = TRUE]
                 ELSE [s EXCEPT !.blocks = @ + 1, !.to = (CHOOSE r \in here : TRUE)[2]]
  IN  FoldLeft(Step, [blocks |-> 0, to |-> tag, done |-> FALSE], Indexes(lines)).blocks
CheckCodetabs(masked, rendered) ==
  LET regions == FencedRegions(rendered)
  IN  {<<i, "codetabs">> : i \in {j \in Found(masked, Codetabs) :
         Langs(masked[j]) = 0 \/ CountBlocks(rendered, regions, j) # Langs(masked[j])}}

(* prose_lines(), check_positional(): lines outside fenced code and tags.    *)
Prose(lines, i) == \A r \in FencedRegions(lines) : i \notin r[1]..r[2]

CheckPositional(lines) ==
  LET text == Blanked(lines, Found(lines, RawTags \cup Codetabs \cup Figures))
  IN  {<<i, "positional">> : i \in {j \in Found(text, {"see below"}) : Prose(text, j)}}

(* check_liquid_braces(): whatever Liquid would evaluate, in code or not.    *)
Unguarded_OutsideCode(text) == {i \in Found(text, {"{{"}) : Prose(text, i)}
Unguarded(text) == Found(text, {"{{"})

(* check_file(), with check_figures()                                        *)
CheckFile(lines) ==
  LET mask == MaskRaw(lines)
  IN  FrontMatter(lines) \cup mask.errors
        \cup {<<i, "braces">> : i \in Unguarded(mask.text)}
        \cup CheckCodetabs(mask.text, StripRawTags(lines))
        \cup {<<i, "figure">> : i \in Found(mask.text, {"figure lost"})}
        \cup CheckPositional(lines)
Warnings(lines) == Found(MaskRaw(lines).text, {"figure mute"})

(* check_podman(): a dnf remove command, continued with \, may name it.      *)
StillRemoving_Sticky(l) == l # ""
StillRemoving(l) == Continues(l)

CheckPodman(lines) ==
  LET Step(s, i) ==
        IF s.in_remove \/ Removes(lines[i]) THEN [s EXCEPT !.in_remove = StillRemoving(lines[i])]
        ELSE IF Names(lines[i]) THEN [s EXCEPT !.errors = @ \cup {<<i, "podman">>}] ELSE s
  IN  FoldLeft(Step, [in_remove |-> FALSE, errors |-> {}], Indexes(lines)).errors

(* check_denylist(): rules over every line of the copies, code included.     *)
CheckDenylist(lines) == {<<i, "denylist">> : i \in Found(lines, {"stale"})}

-----------------------------------------------------------------------------
TypeOK ==
  /\ DOMAIN tree = DOMAIN Tree0
  /\ \A f \in DOMAIN tree : tree[f] \in Seq(Lines)
  /\ report \in SUBSET ((DOMAIN tree) \X Nat \X {"no front matter", "front matter not closed", "not a mapping",
       "raw", "codetabs", "positional", "braces", "figure", "podman", "denylist"})
  /\ exit \in {"none", "0", "1"}
  /\ edits \in 0..MaxEdits

Init == tree = Tree0 /\ report = {} /\ exit = "none" /\ edits = 0

(* The author adds, rewrites or deletes a line.                              *)
Edit(f, lines) ==
  /\ edits < MaxEdits /\ edits' = edits + 1
  /\ tree' = [tree EXCEPT ![f] = lines]
  /\ report' = {} /\ exit' = "none"
EditFile(f) ==
  \/ \E i \in 1..(Len(tree[f]) + 1), l \in Lines : Edit(f, InsertAt(tree[f], i, l))
  \/ \E i \in DOMAIN tree[f], l \in Lines : Edit(f, [tree[f] EXCEPT ![i] = l])
  \/ \E i \in DOMAIN tree[f] : Edit(f, RemoveAt(tree[f], i))

(* main()                                                                    *)
Main(allow_podman, fail_on_warn) ==
  LET In(f, errors) == {<<f>> \o e : e \in errors}
      On(files, Check(_)) == UNION {In(f, Check(tree[f])) : f \in files}
      errors == On(Site, CheckFile) \cup On(Decks, CheckPositional) \cup On(Decks, CheckDenylist)
                  \cup (IF allow_podman THEN {} ELSE On(DOMAIN tree \ History, CheckPodman))
      warned == fail_on_warn /\ \E f \in Site : Warnings(tree[f]) # {}
  IN  /\ report' = errors
      /\ exit' = IF errors # {} \/ warned THEN "1" ELSE "0"
      /\ UNCHANGED <<tree, edits>>

Next ==
  \/ \E f \in DOMAIN tree : EditFile(f)
  \/ \E allow_podman, fail_on_warn \in BOOLEAN : Main(allow_podman, fail_on_warn)

Spec == Init /\ [][Next]_vars

-----------------------------------------------------------------------------
(* The page as Liquid and kramdown make it: after line i, what its elements  *)
(* are. The raw tags are gone, a fence runs to the first that closes it.     *)
InRaw(lines, i) ==
  \E r \in 1..(i - 1) : lines[r] = "raw" /\ \A k \in (r + 1)..(i - 1) : lines[k] # "endraw"
Elements(lines) ==
  LET next[i \in 1..(Len(lines) + 1)] ==
        LET l == lines[i]
            ends == {k \in (i + 1)..Len(lines) : Bare(lines[k]) /\ Marker(lines[k]) >= Marker(l)}
        IN  CASE i > Len(lines) -> <<>>
              [] i <= Len(lines) /\ l \in RawTags \cup {""} -> next[i + 1]
              [] i <= Len(lines) /\ Marker(l) > 0 -> <<"code">> \o next[Min(ends \cup {Len(lines)}) + 1]
              [] OTHER -> <<l>> \o next[i + 1]
  IN  next

(* The tabs of a group (assets/js/codetabs.js) are the code blocks that      *)
(* follow it: as many as it has languages, and no code block after them.     *)
GroupComplete(lines, i) ==
  LET n == Langs(lines[i])
      after == Elements(lines)[i + 1]
  IN  n > 0 /\ Len(after) >= n /\ (\A k \in 1..n : after[k] = "code") /\ ~(Len(after) > n /\ after[n + 1] = "code")

(* A tab group outside raw blocks is reported if and only if the page that   *)
(* Liquid and kramdown make of it has too few or too many code blocks there. *)
(* A group that stands inside a fence is always reported.                    *)
TabGroupsJudgedAsRendered ==
  exit # "none" =>
    \A f \in Site :
      LET lines == tree[f]
          shown == {i \in Found(lines, Codetabs) : ~InRaw(lines, i)}
          page == Blanked(lines, Found(lines, RawTags))
          fenced == {i \in shown : \E r \in FencedRegions(page) : i \in r[1]..r[2]}
      IN  (\A e \in report : e[1] = f => e[3] # "raw") =>
            \A i \in shown : <<f, i, "codetabs">> \in report <=> i \in fenced \/ ~GroupComplete(lines, i)

(* A run that exits with 0 leaves no expression that Liquid would evaluate,  *)
(* and none of the positional terms outside code, in any page.               *)
PassedPagesAreSafe ==
  exit = "0" =>
    \A f \in Site :
      /\ \A i \in Found(tree[f], {"{{"}) : InRaw(tree[f], i)
      /\ \A i \in DOMAIN tree[f] : tree[f][i] = "see below" => "see below" \notin Range(Elements(tree[f])[1])

(* A run that looks for podman reports every mention of it, except within a  *)
(* dnf remove command and the lines that continue it, and nothing else.      *)
Removing(lines, i) ==
  Removes(lines[i]) \/ \E j \in 1..(i - 1) : Removes(lines[j]) /\ \A k \in j..(i - 1) : Continues(lines[k])
PodmanReported ==
  [][exit' # "none" /\ Main(FALSE, FALSE) =>
       \A f \in DOMAIN tree \ History : \A i \in DOMAIN tree[f] :
         <<f, i, "podman">> \in report' <=> Names(tree[f][i]) /\ ~Removing(tree[f], i)]_vars
=============================================================================
