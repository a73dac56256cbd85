----------------------------- MODULE ReadmeLint -----------------------------
\* readme.lint: one pass over the lines of a README with a state for fenced
\* blocks, then checks of headings, links and sections.
EXTENDS Naturals, Sequences, SequencesExt

CONSTANTS
  Required,   \* REQUIRED_SECTIONS
  Rundown,    \* the one that must be on top
  Sections,   \* per title, the required sections that it names
  Anchor,     \* per title, what slugify makes of it; titles may share one
  BadTitles,  \* the titles with an emoji, a shortcode or an ampersand
  Numbered    \* the link targets that end in a number, as repeated anchors do

ASSUME LintAssumption == Rundown \in Required /\ DOMAIN Anchor = DOMAIN Sections

\* A line is "plain", a "fence" or a "heading", with the marker or the title in
\* `of`; whatever it is, it may have a forbidden character and links.
-----------------------------------------------------------------------------
\* The fence machine: `fence` is the marker of the open block, or "none".
Outside == [fence |-> "none", headings |-> <<>>, errors |-> {}]

\* Mutant: any marker closes a block.
FenceLineAny(state, marker) ==
  [state EXCEPT !.fence = IF state.fence = "none" THEN marker ELSE "none"]

FenceLine(state, marker) ==
  CASE state.fence = "none" -> [state EXCEPT !.fence = marker]
    [] state.fence = marker -> [state EXCEPT !.fence = "none"]
    [] OTHER -> state

Wrong(line, titled) ==
  (IF line.forbidden THEN {"forbidden-unicode"} ELSE {})
    \cup IF titled /\ line.of \in BadTitles THEN {"heading"} ELSE {}

\* Nothing more is asked of a line with a marker.  Forbidden characters count in
\* the other lines of a block too, headings only outside of one.
LintLine(state, line) ==
  LET titled == line.kind = "heading" /\ state.fence = "none"
  IN IF line.kind = "fence" THEN FenceLine(state, line.of)
     ELSE [state EXCEPT !.headings = IF titled THEN Append(@, line.of) ELSE @,
                        !.errors = @ \cup Wrong(line, titled)]

\* Links are looked for in every line, after all anchors are known.
Broken(lines, headings) ==
  \E i \in DOMAIN lines : \E target \in lines[i].links :
    target \notin Numbered /\ \A h \in Range(headings) : Anchor[h] # target

Missing(headings) == {s \in Required : \A h \in Range(headings) : s \notin Sections[h]}

RundownLow(headings) ==
  /\ headings # <<>>
  /\ \A k \in 1 .. Len(headings) : k <= 4 => Rundown \notin Sections[headings[k]]

Lint(doc) ==
  LET state  == FoldLeft(LintLine, Outside, doc.lines)
      errors == state.errors
        \cup IF doc.dash THEN {"prose-dash"} ELSE {}
        \cup IF Broken(doc.lines, state.headings) THEN {"broken-toc-anchor"} ELSE {}
        \cup IF doc.sections /\ Missing(state.headings) # {} THEN {"missing"} ELSE {}
        \cup IF doc.sections /\ RundownLow(state.headings) THEN {"section-order"} ELSE {}
  IN [status |-> IF errors = {} THEN "PASS" ELSE "FAIL", headings |-> state.headings]
=============================================================================
