------------------------------ MODULE HostIds --------------------------------
(* src/scripts/host_ids.py over one repository: scrub rewrites the tracked   *)
(* files, history scans every version ever committed and writes the rules    *)
(* for git filter-repo. A text is a sequence of tokens: "/home", an account, *)
(* a directory, a kernel release with or without its architecture, "nl".     *)
EXTENDS Naturals, SequencesExt, FiniteSetsExt

CONSTANTS Files, Texts, MaxBlobs   \* Files: "doc", "pins", "tool"

VARIABLES
  work,     \* a tracked file: [path, text]
  blobs,    \* every version of every file in the history
  emitted,  \* the rules that history --emit-rules wrote, in order
  current,  \* ghost: nothing was committed since they were written
  clean     \* ghost: the history was rewritten with them

vars == <<work, blobs, emitted, current, clean>>

TypeOK ==
  /\ work.path \in Files /\ \A b \in blobs : b.path \in Files
  /\ Cardinality(blobs) <= MaxBlobs
  /\ \A r \in Range(emitted) : r.find # r.repl /\ r.find # <<>>
  /\ current \in BOOLEAN /\ clean \in BOOLEAN

Init ==
  /\ work \in [path : Files, text : Texts]
  /\ blobs = {} /\ emitted = <<>>
  /\ current = FALSE /\ clean = FALSE

-----------------------------------------------------------------------------
(* A rule finds a sequence of alternatives that is not followed by a token   *)
(* of `unless`; category and literal are those of the class Rule.            *)
Rule(category, find, unless, repl, literal) ==
  [category |-> category, find |-> find, unless |-> unless, repl |-> repl, literal |-> literal]

Accounts == {"acct", "guest"}
Releases == {"own", "pin"}

(* runtime_rules(): the values of this machine, the longest first.           *)
RuntimeRules == <<
  Rule("home-path", <<{"/home"}, {"acct"}, {"/repo"}>>, {}, <<"<repo>">>, TRUE),
  Rule("home-path", <<{"/home"}, {"acct"}>>, {}, <<"~">>, TRUE),
  Rule("kernel-build", <<{"own"}, {"arch"}>>, {}, <<"major.minor">>, TRUE),
  Rule("account", <<{"acct"}>>, {"arch"}, <<"user">>, TRUE)>>

(* generic_rules(): the shape of such values on any machine. A release       *)
(* without its architecture counts after the word "kernel" only.             *)
GenericRules == <<
  Rule("kernel-build", <<Releases, {"arch"}>>, {}, <<"major.minor">>, FALSE),
  Rule("kernel-build", <<{"kernel"}, {"nl"}, Releases>>, {"arch"}, <<"kernel", "nl", "major.minor">>, FALSE),
  Rule("home-path", <<{"/home"}, Accounts>>, {}, <<"~">>, FALSE)>>

Rules == RuntimeRules \o GenericRules

(* Config: [allow] exempts the pins file from kernel-build, [allow_match]    *)
(* the release of the lab guest and the guest's home.                        *)
Allowed(category, path) == category = "kernel-build" /\ path = "pins"
ValueAllowed(category, value) ==
  (category = "kernel-build" /\ value[1] = "pin") \/ (category = "home-path" /\ value = <<"/home", "guest">>)

Value(r, text, i) == SubSeq(text, i, i + Len(r.find) - 1)
MatchesAt(r, text, i) ==
  /\ i + Len(r.find) - 1 <= Len(text)
  /\ \A k \in DOMAIN r.find : text[i + k - 1] \in r.find[k]
  /\ i + Len(r.find) <= Len(text) => text[i + Len(r.find)] \notin r.unless
Hit(r, text, i) == MatchesAt(r, text, i) /\ ~ValueAllowed(r.category, Value(r, text, i))

(* pattern.sub(): matches from the left, not overlapping.                    *)
Sub_Once(r, text) ==
  LET hits == {i \in DOMAIN text : Hit(r, text, i)}
  IN  IF hits = {} THEN text ELSE ReplaceFirstSubSeq(r.repl, Value(r, text, Min(hits)), text)
Sub(r, text) ==
  FoldLeft(LAMBDA s, i :
             IF i < s.next THEN s
             ELSE IF MatchesAt(r, text, i)
                    THEN [next |-> i + Len(r.find),
                          out |-> s.out \o (IF Hit(r, text, i) THEN r.repl ELSE Value(r, text, i))]
                    ELSE [s EXCEPT !.out = Append(@, text[i])],
           [next |-> 1, out |-> <<>>], [i \in DOMAIN text |-> i]).out

(* cmd_check() holds the tool itself, whose examples look like values, against *)
(* the values of this machine only.                                          *)
FileRules(path) == {r \in Range(Rules) : path = "tool" => r.literal}

(* scrub_text(), hits()                                                      *)
ScrubText(text, path) ==
  FoldLeft(LAMBDA t, r : IF Allowed(r.category, path) THEN t ELSE Sub(r, t), text, Rules)
Hits(text, path) ==
  {h \in FileRules(path) \X DOMAIN text : ~Allowed(h[1].category, path) /\ Hit(h[1], text, h[2])}

-----------------------------------------------------------------------------
(* The file is committed, and its author writes the next.                    *)
Commit ==
  /\ Cardinality(blobs) < MaxBlobs
  /\ blobs' = blobs \cup {work}
  /\ work' \in [path : Files, text : Texts]
  /\ current' = FALSE /\ clean' = FALSE
  /\ UNCHANGED emitted

(* cmd_scrub, one file; the tool itself is left out.                         *)
Scrub ==
  /\ work.path # "tool" /\ ScrubText(work.text, work.path) # work.text
  /\ work' = [work EXCEPT !.text = ScrubText(@, work.path)]
  /\ UNCHANGED <<blobs, emitted, current, clean>>

(* format_rules(): a rule is one line, so a match over a line break is       *)
(* reduced to its last line, if the replacement keeps the lines before.      *)
Reduced_Dropped(v, repl) == [find |-> v, repl |-> repl]
Reduced(v, repl) ==
  LET n == SelectLastInSeq(v, LAMBDA t : t = "nl")
  IN  IF n > 0 /\ SubSeq(v, 1, n) = SubSeq(repl, 1, n)
      THEN [find |-> SubSeq(v, n + 1, Len(v)), repl |-> SubSeq(repl, n + 1, Len(repl))]
      ELSE [find |-> v, repl |-> repl]

(* cmd_history --emit-rules: every value found, the longest first.           *)
Found ==
  UNION {{Reduced(Value(h[1], b.text, h[2]), h[1].repl) : h \in Hits(b.text, b.path)} : b \in blobs}
LongestFirst(rules) ==
  FoldSet(LAMBDA r, s : SelectSeq(s, LAMBDA q : Len(q.find) > Len(r.find)) \o <<r>>
                        \o SelectSeq(s, LAMBDA q : Len(q.find) <= Len(r.find)), <<>>, rules)
History ==
  /\ emitted' = LongestFirst({r \in Found : ~Contains(r.find, "nl")})
  /\ current' = TRUE
  /\ UNCHANGED <<work, blobs, clean>>

(* git filter-repo --replace-text applies the literals one after another.    *)
Literal(r) == Rule("literal", [k \in DOMAIN r.find |-> {r.find[k]}], {}, r.repl, TRUE)
FilterRepo ==
  /\ emitted # <<>>
  /\ blobs' = {[b EXCEPT !.text = FoldLeft(LAMBDA t, r : Sub(Literal(r), t), @, emitted)] : b \in blobs}
  /\ clean' = current
  /\ UNCHANGED <<work, emitted, current>>

Next == Commit \/ Scrub \/ History \/ FilterRepo

Spec == Init /\ [][Next]_vars

-----------------------------------------------------------------------------
(* One pass over the rules is enough: what it leaves has no hit, although    *)
(* the output of a rule is the input of the next ones, and another pass      *)
(* changes nothing. What the config allows is still there.                   *)
OnePassCleans ==
  [][work' # work /\ work' = [work EXCEPT !.text = ScrubText(@, work.path)] /\ work'.path # "tool" =>
       /\ Hits(work'.text, work.path) = {}
       /\ ScrubText(work'.text, work.path) = work'.text]_vars

(* Once the history was rewritten with rules written for it, no version of   *)
(* any file holds anything that a scan would report.                         *)
HistoryClean == clean => \A b \in blobs : Hits(b.text, b.path) = {}
=============================================================================
