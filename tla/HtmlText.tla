------------------------------ MODULE HtmlText ------------------------------
(***************************************************************************)
(* html_to_text (src/web.py:53-127): the parser's callbacks, which decide   *)
(* by a depth counter and a flag what of a document reaches the model's     *)
(* reader, and get_text, which lays it out.  The document is fed tag by tag *)
(* and may be as messy as real pages are.  Its data is fed line by line:    *)
(* what the parser hands over in one call is, to the callbacks and to the   *)
(* join of get_text, its pieces (a piece of a line, not blank) and its      *)
(* newlines one after the other.  Blank data is left out: get_text strips   *)
(* it from every line.                                                      *)
(*                                                                          *)
(* A definition without a comment right before the one it alters is a       *)
(* plausible bug, used only to check that a property can fail.              *)
(***************************************************************************)
EXTENDS Naturals, Sequences, SequencesExt

CONSTANTS SkipTags,  \* _SKIP_TAGS
          BlockTags, \* _BLOCK_TAGS
          MaxFed     \* bound: tags, pieces and newlines of data of a document

ASSUME TagsAssumption ==
    /\ SkipTags \cap BlockTags = {}
    /\ "title" \notin SkipTags \cup BlockTags
ASSUME MaxFedAssumption == MaxFed \in Nat

VARIABLES skip_depth, \* _skip_depth
          in_title,   \* _in_title
          parts,      \* _parts: Newline, or the number of a piece of data
          title,      \* the pieces and newlines that title is made of
          fed,        \* what the parser has been fed so far, counted
          elements,   \* history: the elements that are open, innermost last
          faults,     \* history: {"stray", "crossed"} end tags met so far
          visible,    \* history: the pieces outside title and skipped elements
          titled,     \* history: the pieces inside a title
          blocks,     \* history: block-level tags met so far
          paragraph,  \* history: block-level tags before a visible piece
          breaks,     \* history: block-level tags and visible newlines so far
          lineAt      \* history: of those, the ones before a visible piece

htmlVars == <<skip_depth, in_title, parts, title, fed, elements, faults,
              visible, titled, blocks, paragraph, breaks, lineAt>>

Newline == 0
Tags == SkipTags \cup BlockTags \cup {"title"}

HtmlInit ==
    /\ skip_depth = 0 /\ in_title = FALSE
    /\ parts = <<>> /\ title = <<>>
    /\ fed = 0
    /\ elements = <<>> /\ faults = {}
    /\ visible = {} /\ titled = {}
    /\ blocks = 0 /\ paragraph = <<>>
    /\ breaks = 0 /\ lineAt = <<>>

Feed == fed < MaxFed /\ fed' = fed + 1

(* A block-level tag, opening or closing, ends a line. *)
LineAt(tag) ==
    parts' = IF tag \in BlockTags THEN Append(parts, Newline) ELSE parts

handle_starttag(tag) ==
    /\ skip_depth' = IF tag \in SkipTags THEN skip_depth + 1 ELSE skip_depth
    /\ in_title' = IF tag = "title" THEN TRUE ELSE in_title
    /\ LineAt(tag)

(* max(0, _skip_depth - 1) *)
ClosedToZero(depth) == 0
Closed(depth) == IF depth = 0 THEN 0 ELSE depth - 1

EndtagInline(tag) ==
    /\ skip_depth' = IF tag \in SkipTags THEN Closed(skip_depth) ELSE skip_depth
    /\ in_title' = IF tag = "title" THEN FALSE ELSE in_title
    /\ UNCHANGED parts
handle_endtag(tag) ==
    /\ skip_depth' = IF tag \in SkipTags THEN Closed(skip_depth) ELSE skip_depth
    /\ in_title' = IF tag = "title" THEN FALSE ELSE in_title
    /\ LineAt(tag)

(* The title is looked at first, for it lies inside <head>.  A datum is the *)
(* number of a piece, or Newline.                                           *)
DataSkipFirst(n) ==
    /\ title' = IF skip_depth = 0 /\ in_title THEN Append(title, n) ELSE title
    /\ parts' = IF skip_depth = 0 /\ ~in_title THEN Append(parts, n) ELSE parts
handle_data(n) ==
    /\ title' = IF in_title THEN Append(title, n) ELSE title
    /\ parts' = IF ~in_title /\ skip_depth = 0 THEN Append(parts, n) ELSE parts

CountBlock(tag) ==
    /\ blocks' = IF tag \in BlockTags THEN blocks + 1 ELSE blocks
    /\ breaks' = IF tag \in BlockTags THEN breaks + 1 ELSE breaks

(* Any element may open anywhere, but a title holds no other title. *)
Starts(tag) ==
    /\ Feed /\ CountBlock(tag)
    /\ tag = "title" => tag \notin ToSet(elements)
    /\ handle_starttag(tag)
    /\ elements' = Append(elements, tag)
    /\ UNCHANGED <<title, faults, visible, titled, paragraph, lineAt>>

(* An end tag closes its element, and with it those inside that are still   *)
(* open (their end tags were omitted); without such an element it is stray. *)
Ends(tag) ==
    /\ Feed /\ CountBlock(tag)
    /\ handle_endtag(tag)
    /\ IF tag \notin ToSet(elements)
       THEN faults' = faults \cup {"stray"} /\ UNCHANGED elements
       ELSE LET at == CHOOSE i \in DOMAIN elements :
                        /\ elements[i] = tag
                        /\ \A j \in i + 1 .. Len(elements) : elements[j] # tag
                closed == SubSeq(elements, at + 1, Len(elements))
            IN /\ elements' = SubSeq(elements, 1, at - 1)
               /\ faults' = IF \E j \in DOMAIN closed : closed[j] \notin BlockTags
                            THEN faults \cup {"crossed"} ELSE faults
    /\ UNCHANGED <<title, visible, titled, paragraph, lineAt>>

InTitle == "title" \in ToSet(elements)
Hidden  == InTitle \/ ToSet(elements) \cap SkipTags # {}

Piece ==
    /\ Feed
    /\ handle_data(fed')
    /\ titled' = IF InTitle THEN titled \cup {fed'} ELSE titled
    /\ IF Hidden THEN UNCHANGED <<visible, paragraph, lineAt>>
       ELSE /\ visible' = visible \cup {fed'}
            /\ paragraph' = [n \in visible' |-> IF n = fed' THEN blocks ELSE paragraph[n]]
            /\ lineAt' = [n \in visible' |-> IF n = fed' THEN breaks ELSE lineAt[n]]
    /\ UNCHANGED <<skip_depth, in_title, elements, faults, blocks, breaks>>

LineFeed ==
    /\ Feed
    /\ handle_data(Newline)
    /\ breaks' = IF Hidden THEN breaks ELSE breaks + 1
    /\ UNCHANGED <<skip_depth, in_title, elements, faults, visible, titled,
                   blocks, paragraph, lineAt>>

Data == Piece \/ LineFeed

HtmlNext == Data \/ \E tag \in Tags : Starts(tag) \/ Ends(tag)

HtmlSpec == HtmlInit /\ [][HtmlNext]_htmlVars

(***************************************************************************)
(* get_text: split at newlines, squeeze runs of blank lines, strip.  A line *)
(* is the sequence of its data, and blank when it is empty.                 *)
(***************************************************************************)
WithPart(ls, p) ==
    IF p = Newline THEN Append(ls, <<>>)
    ELSE Append(Front(ls), Append(Last(ls), p))

Lines(ps) ==
    LET before[i \in 0 .. Len(ps)] ==
            IF i = 0 THEN << <<>> >> ELSE WithPart(before[i - 1], ps[i])
    IN before[Len(ps)]

Squeeze(out, line) ==
    IF line = <<>> /\ (out = <<>> \/ Last(out) = <<>>) THEN out
    ELSE Append(out, line)

Squeezed(ls) ==
    LET before[i \in 0 .. Len(ls)] ==
            IF i = 0 THEN <<>> ELSE Squeeze(before[i - 1], ls[i])
    IN before[Len(ls)]

Stripped(out) == IF out # <<>> /\ Last(out) = <<>> THEN Front(out) ELSE out

get_text == Stripped(Squeezed(Lines(parts)))

(***************************************************************************)
(* Properties.                                                              *)
(***************************************************************************)
Kept == {n \in 1 .. fed : n \in ToSet(parts)}

(* "Content inside _SKIP_TAGS is dropped" (web.py:68) and nothing else is:  *)
(* of a document without stray or crossed end tags the text is what is      *)
(* outside skipped elements, however they nest.  With stray end tags,       *)
(* dropped content may come through, but visible content is never lost.     *)
VisibleIsKept ==
    /\ faults = {} => Kept = visible
    /\ faults \subseteq {"stray"} => visible \subseteq Kept

(* The title is the content of the title elements, although they lie in the *)
(* head, which is skipped (web.py:94); where no end tag is crossed.         *)
TitleIsCaptured ==
    "crossed" \notin faults => ToSet(title) \ {Newline} = titled

(* "block-level tags emit a newline so the reduced text keeps paragraph     *)
(* structure" (web.py:68-69): no line of the text holds pieces of visible   *)
(* data that a block-level tag came between, however messy the document.    *)
(* In one without stray or crossed end tags a line is broken exactly where  *)
(* a block-level tag or a newline of the visible data was.  No piece is     *)
(* dropped, doubled or out of its order, and no two blank lines follow one  *)
(* another.                                                                 *)
Comes(i, k, j, l) == i < j \/ (i = j /\ k < l)
ParagraphsAreKept ==
    LET text == get_text
        LineOf(n) == CHOOSE i \in DOMAIN text : n \in ToSet(text[i])
    IN /\ UNION {ToSet(text[i]) : i \in DOMAIN text} = Kept
       /\ \A i, j \in DOMAIN text : \A k \in DOMAIN text[i], l \in DOMAIN text[j] :
             Comes(i, k, j, l) => text[i][k] < text[j][l]
       /\ \A m, n \in visible \cap Kept :
             /\ LineOf(m) = LineOf(n) => paragraph[m] = paragraph[n]
             /\ faults = {} => (LineOf(m) = LineOf(n) <=> lineAt[m] = lineAt[n])
       /\ \A i \in 1 .. Len(text) - 1 : text[i] # <<>> \/ text[i + 1] # <<>>
=============================================================================
