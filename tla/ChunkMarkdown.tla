---------------------------- MODULE ChunkMarkdown ----------------------------
(***************************************************************************)
(* How a policy document becomes the chunks that are searched and cited:    *)
(* chunk_markdown splits it at its headings of level one and two, _window   *)
(* cuts a long section into windows of whole lines that repeat the end of   *)
(* the one before.                                                         *)
(*                                                                         *)
(* A line is a heading, or text of which only the length matters; a text    *)
(* of length 0 is a blank line, and stripping removes blank lines.  A run   *)
(* of lines is the interval of their numbers.  A step is one line read or   *)
(* one section opened or closed.                                           *)
(***************************************************************************)
EXTENDS Integers, Sequences, FiniteSetsExt

CONSTANTS
  MaxLines, \* bound on the lines of a document
  Lengths,  \* lengths of lines that occur
  MaxChars, \* max_chars
  Overlap   \* overlap

ASSUME ChunkAssumption ==
  /\ MaxLines \in Nat /\ Lengths \subseteq Nat
  /\ MaxChars \in Nat /\ Overlap \in 0 .. MaxChars - 1

VARIABLES
  text,     \* the lines of the document
  pc,       \* where the two functions are
  at,       \* the line to read next
  heading,  \* line of the last heading, 0 for the introduction
  buf,      \* the lines since that heading
  sections, \* the sections found and not yet cut
  cur,      \* the lines of the window being filled
  cur_len,  \* their length as _window counts it
  windows   \* the windows of all sections so far

vars == <<text, pc, at, heading, buf, sections, cur, cur_len, windows>>

Heading == -1
Lines == Lengths \cup {Heading}
Documents == UNION {[1 .. n -> Lines] : n \in 0 .. MaxLines}

Runs == [lo : 1 .. MaxLines + 1, hi : 0 .. MaxLines]

\* An interval of line numbers, empty when it ends before it starts.
Run(lo, hi) == [lo |-> lo, hi |-> hi]
LinesOf(run) == run.lo .. run.hi
IsEmpty(run) == run.hi < run.lo

\* The characters of the lines up to each, with a line break after every one.
Upto(lines) ==
  LET upto[i \in 0 .. Len(lines)] ==
        IF i = 0 THEN 0 ELSE upto[i - 1] + lines[i] + 1
  IN  upto

\* The characters of the lines joined by line breaks.
Size(run) == Upto(text)[run.hi] - Upto(text)[run.lo - 1] - 1

\* strip: from the first to the last line that is not blank.
Strip(run) ==
  LET full == {i \in LinesOf(run) : text[i] > 0} IN
  IF full = {} THEN Run(1, 0) ELSE Run(Min(full), Max(full))

Section(run) == [heading |-> heading, body |-> Strip(run)]
Window(run) == [heading |-> Head(sections).heading, lines |-> run]

Init ==
  /\ text \in Documents
  /\ pc = "split"
  /\ at = 1 /\ heading = 0 /\ buf = Run(1, 0)
  /\ sections = <<>>
  /\ cur = Run(1, 0) /\ cur_len = 0
  /\ windows = <<>>

-----------------------------------------------------------------------------
(* chunk_markdown: the sections.                                           *)

\* Variant: the lines before the first heading belong to no section.
ClosedUnderHeading ==
  IF IsEmpty(buf) \/ heading = 0 THEN sections ELSE Append(sections, Section(buf))

\* The section before a heading, when there are lines.
Closed == IF IsEmpty(buf) THEN sections ELSE Append(sections, Section(buf))

ReadHeading ==
  /\ pc = "split" /\ at <= Len(text) /\ text[at] = Heading
  /\ sections' = Closed
  /\ heading' = at /\ buf' = Run(at + 1, at) /\ at' = at + 1
  /\ UNCHANGED <<text, pc, cur, cur_len, windows>>

ReadText ==
  /\ pc = "split" /\ at <= Len(text) /\ text[at] # Heading
  /\ buf' = Run(buf.lo, at) /\ at' = at + 1
  /\ UNCHANGED <<text, pc, heading, sections, cur, cur_len, windows>>

EndOfText ==
  /\ pc = "split" /\ at > Len(text)
  /\ sections' = Closed
  /\ pc' = "section"
  /\ UNCHANGED <<text, at, heading, buf, cur, cur_len, windows>>

-----------------------------------------------------------------------------
(* _window: the lines of one section.                                      *)

\* A section without text is skipped and one that fits is a single window.
OpenSection ==
  /\ pc = "section" /\ sections # <<>>
  /\ LET body == Head(sections).body IN
     \/ /\ IsEmpty(body) \/ Size(body) <= MaxChars
        /\ windows' = IF IsEmpty(body) THEN windows
                      ELSE Append(windows, Window(body))
        /\ sections' = Tail(sections)
        /\ UNCHANGED <<pc, at, cur, cur_len>>
     \/ /\ ~IsEmpty(body) /\ Size(body) > MaxChars
        /\ at' = body.lo /\ cur' = Run(body.lo, body.lo - 1) /\ cur_len' = 0
        /\ pc' = "window"
        /\ UNCHANGED <<sections, windows>>
  /\ UNCHANGED <<text, heading, buf>>

\* Variant: what is repeated is the first line that fits and all after it.
OverlapOfAny(run) ==
  LET fits == {lo \in LinesOf(run) : text[lo] <= Overlap} IN
  Run(IF fits = {} THEN run.hi + 1 ELSE Min(fits), run.hi)

\* The longest end of a window that may be repeated in the next.
OverlapOf(run) ==
  LET fits == {lo \in LinesOf(run) : Size(Run(lo, run.hi)) <= Overlap} IN
  Run(IF fits = {} THEN run.hi + 1 ELSE Min(fits), run.hi)

\* Variant: the window is closed once it is too long.
IsTooFull == cur_len > MaxChars /\ ~IsEmpty(cur)

\* The next line does not fit in the window any more.
IsFull == cur_len + text[at] + 1 > MaxChars /\ ~IsEmpty(cur)

\* The lines a window starts with after the one before was closed.
Carried == IF IsFull THEN OverlapOf(cur) ELSE cur

AddLine ==
  /\ pc = "window" /\ at <= Head(sections).body.hi
  /\ windows' = IF IsFull THEN Append(windows, Window(cur)) ELSE windows
  /\ cur' = Run(Carried.lo, at)
  /\ cur_len' = (IF IsFull THEN Size(Carried) + 1 ELSE cur_len) + text[at] + 1
  /\ at' = at + 1
  /\ UNCHANGED <<text, pc, heading, buf, sections>>

EndSection ==
  /\ pc = "window" /\ at > Head(sections).body.hi
  /\ windows' = IF IsEmpty(cur) THEN windows ELSE Append(windows, Window(cur))
  /\ sections' = Tail(sections)
  /\ pc' = "section"
  /\ UNCHANGED <<text, at, heading, buf, cur, cur_len>>

Next == ReadHeading \/ ReadText \/ EndOfText
        \/ OpenSection \/ AddLine \/ EndSection

Spec == Init /\ [][Next]_vars

-----------------------------------------------------------------------------
(* Safety.                                                                 *)

Finished == pc = "section" /\ sections = <<>>

\* The heading a line is under.
HeadingOf(i) == Max({0} \cup {h \in 1 .. i - 1 : text[h] = Heading})

\* Windows w and w + 1 belong to one section.
Continued(w) == w + 1 \in DOMAIN windows /\ windows[w].heading = windows[w + 1].heading

\* Document, intervals and lists have their types.
TypeOK ==
  /\ text \in Documents
  /\ pc \in {"split", "section", "window"}
  /\ at \in 1 .. Len(text) + 1
  /\ heading \in 0 .. Len(text)
  /\ buf \in Runs /\ cur \in Runs /\ cur_len \in Nat
  /\ sections \in Seq([heading : 0 .. Len(text), body : Runs])
  /\ windows \in Seq([heading : 0 .. Len(text), lines : Runs])

\* No line of text is lost and none is cited under a heading that is not its
\* own: when the document is cut, each is in a window of the heading above it.
NothingLost ==
  /\ \A w \in DOMAIN windows : \A i \in LinesOf(windows[w].lines) :
       text[i] # Heading /\ HeadingOf(i) = windows[w].heading
  /\ Finished => \A i \in DOMAIN text : text[i] > 0 =>
       \E w \in DOMAIN windows : i \in LinesOf(windows[w].lines)

\* The windows of a section follow one another without a gap, each brings a
\* line that is new, and what it repeats is no longer than the overlap.
WindowsFollow ==
  \A w \in DOMAIN windows : Continued(w) =>
    LET this == windows[w].lines
        next == windows[w + 1].lines IN
    /\ this.lo <= next.lo /\ next.lo <= this.hi + 1
    /\ this.hi < next.hi
    /\ Size(Run(next.lo, this.hi)) <= Overlap

\* A window of several lines is longer than max_chars only where the lines
\* repeated from the one before, which are within the overlap, are followed by
\* one line that does not fit beside them: no window exceeds max_chars, or its
\* last line, by more than the overlap and a line break.
SizeBounded ==
  \A w \in DOMAIN windows : Size(windows[w].lines) > MaxChars =>
    LET run == windows[w].lines
        repeated == Run(run.lo, run.hi - 1) IN
    \/ run.lo = run.hi
    \/ /\ w > 1 /\ Continued(w - 1)
       /\ windows[w - 1].lines.hi = repeated.hi
       /\ Size(repeated) <= Overlap

=============================================================================
