------------------------------ MODULE TextProofs ------------------------------
(***************************************************************************)
(* Theorems about TopicTags and HtmlText: the tags of questions of any      *)
(* length, and what of a document of any length, however it is nested,      *)
(* reaches the text and the title.                                          *)
(***************************************************************************)
EXTENDS TopicTags, HtmlText, FiniteSetTheorems, WellFoundedInduction, TLAPS

(***************************************************************************)
(* html_to_text.  The depth counter is compared with the number of skipped  *)
(* elements that are open.                                                  *)
(***************************************************************************)
SkippedAt(es) == {i \in 1 .. Len(es) : es[i] \in SkipTags}
Depth(es)     == Cardinality(SkippedAt(es))

LEMMA DepthFacts ==
  ASSUME NEW es \in Seq(Tags)
  PROVE  /\ Depth(es) \in Nat /\ IsFiniteSet(SkippedAt(es))
         /\ Depth(es) = 0 <=> ToSet(es) \cap SkipTags = {}
<1>1. Len(es) \in Nat /\ Len(es) \in Int /\ 1 \in Int
  OBVIOUS
<1>2. IsFiniteSet(1 .. Len(es)) /\ SkippedAt(es) \in SUBSET (1 .. Len(es))
  BY <1>1, FS_Interval DEF SkippedAt
<1>3. IsFiniteSet(SkippedAt(es)) /\ Depth(es) \in Nat
  BY <1>2, FS_Subset, FS_CardinalityType DEF Depth
<1>4. Depth(es) = 0 <=> SkippedAt(es) = {}
  BY <1>3, FS_EmptySet DEF Depth
<1>5. SkippedAt(es) = {} <=> ToSet(es) \cap SkipTags = {}
  BY DEF SkippedAt, ToSet
<1>. QED  BY <1>3, <1>4, <1>5

LEMMA DepthOfAppend ==
  ASSUME NEW es \in Seq(Tags), NEW tag \in Tags
  PROVE  Depth(Append(es, tag)) = IF tag \in SkipTags THEN Depth(es) + 1 ELSE Depth(es)
<1>1. SkippedAt(Append(es, tag)) =
          IF tag \in SkipTags THEN SkippedAt(es) \cup {Len(es) + 1} ELSE SkippedAt(es)
  BY DEF SkippedAt
<1>2. Len(es) + 1 \notin SkippedAt(es)
  BY DEF SkippedAt
<1>. QED  BY <1>1, <1>2, DepthFacts, FS_AddElement DEF Depth

(* An end tag takes its element and, uncrossed, only block-level ones with  *)
(* it, which are not skipped.                                               *)
LEMMA DepthOfClosed ==
  ASSUME NEW es \in Seq(Tags), NEW at \in 1 .. Len(es),
         \A j \in at + 1 .. Len(es) : es[j] \in BlockTags
  PROVE  /\ SubSeq(es, 1, at - 1) \in Seq(Tags)
         /\ Depth(SubSeq(es, 1, at - 1)) =
               IF es[at] \in SkipTags THEN Depth(es) - 1 ELSE Depth(es)
         /\ Depth(es) > 0 \/ es[at] \notin SkipTags
<1> DEFINE rest == SubSeq(es, 1, at - 1)
<1>1. rest \in Seq(Tags) /\ Len(rest) = at - 1 /\ \A i \in 1 .. at - 1 : rest[i] = es[i]
  OBVIOUS
<1>2. \A j \in at + 1 .. Len(es) : es[j] \notin SkipTags
  BY TagsAssumption
<1> HIDE DEF rest
<1>3. SkippedAt(rest) = SkippedAt(es) \ {at}
  BY <1>1, <1>2 DEF SkippedAt
<1>4. at \in SkippedAt(es) <=> es[at] \in SkipTags
  BY DEF SkippedAt
<1>5. Depth(rest) = IF es[at] \in SkipTags THEN Depth(es) - 1 ELSE Depth(es)
  BY <1>3, <1>4, DepthFacts, FS_RemoveElement DEF Depth
<1>6. Depth(rest) \in Nat /\ Depth(es) \in Nat
  BY <1>1, DepthFacts
<1>. QED  BY <1>1, <1>5, <1>6 DEF rest

(* A set of numbers has a least one, a list a last place of what it holds.  *)
LEMMA LeastElement ==
  ASSUME NEW T \in SUBSET Nat, T # {}
  PROVE  \E m \in T : \A k \in T : m <= k
<1>1. PICK m \in T : \A k \in T : <<k, m>> \notin OpToRel(<, Nat)
  BY WFMin, NatLessThanWellFounded, Zenon
<1>2. \A k \in T : ~(k < m)
  BY <1>1, Zenon DEF OpToRel
<1>. QED  BY <1>2

LEMMA Induct ==
  ASSUME NEW S \in SUBSET Nat, 0 \in S, \A n \in Nat : n \in S => n + 1 \in S
  PROVE  S = Nat
<1> SUFFICES ASSUME S # Nat PROVE FALSE
  OBVIOUS
<1> DEFINE T == Nat \ S
<1>1. T \in SUBSET Nat /\ T # {}
  OBVIOUS
<1> HIDE DEF T
<1>2. PICK m \in T : \A k \in T : m <= k
  BY <1>1, LeastElement
<1>3. m \in Nat /\ m # 0 /\ m \notin S
  BY <1>2 DEF T
<1>4. m - 1 \in Nat /\ m - 1 + 1 = m /\ ~(m <= m - 1)
  BY <1>3
<1>5. m - 1 \in S
  BY <1>2, <1>4 DEF T
<1>. QED  BY <1>3, <1>4, <1>5

LEMMA LastPlace ==
  ASSUME NEW es \in Seq(Tags), NEW tag \in ToSet(es)
  PROVE  \E i \in DOMAIN es : es[i] = tag /\ \A j \in i + 1 .. Len(es) : es[j] # tag
<1> DEFINE T == {n \in Nat : n < Len(es) /\ es[Len(es) - n] = tag}
<1>1. PICK i \in 1 .. Len(es) : es[i] = tag
  BY DEF ToSet
<1>2. Len(es) - i \in T
  BY <1>1
<1>3. T \in SUBSET Nat /\ T # {}
  BY <1>2
<1> HIDE DEF T
<1>4. PICK m \in T : \A k \in T : m <= k
  BY <1>3, LeastElement
<1>5. m \in Nat /\ m < Len(es) /\ es[Len(es) - m] = tag
  BY <1>4 DEF T
<1>6. ASSUME NEW j \in (Len(es) - m) + 1 .. Len(es), es[j] = tag PROVE FALSE
  <2>1. Len(es) - j \in Nat /\ Len(es) - j < Len(es) /\ Len(es) - (Len(es) - j) = j /\ Len(es) - j < m
    BY <1>5, <1>6
  <2>2. Len(es) - j \in T
    BY <1>6, <2>1 DEF T
  <2>. QED  BY <1>4, <1>5, <2>1, <2>2
<1>. QED  BY <1>5, <1>6

LEMMA ToSetOfAppend ==
  ASSUME NEW S, NEW s \in Seq(S), NEW x \in S
  PROVE  Append(s, x) \in Seq(S) /\ ToSet(Append(s, x)) = ToSet(s) \cup {x}
<1>1. /\ Append(s, x) \in Seq(S) /\ Len(s) \in Nat /\ DOMAIN s = 1 .. Len(s)
      /\ DOMAIN Append(s, x) = 1 .. Len(s) + 1
      /\ \A i \in 1 .. Len(s) : Append(s, x)[i] = s[i]
      /\ Append(s, x)[Len(s) + 1] = x
  OBVIOUS
<1>2. 1 .. Len(s) + 1 = (1 .. Len(s)) \cup {Len(s) + 1}
  BY <1>1
<1>. QED  BY <1>1, <1>2 DEF ToSet

HtmlTypes ==
    /\ fed \in Nat /\ skip_depth \in Nat /\ in_title \in BOOLEAN
    /\ elements \in Seq(Tags)
    /\ \A i, j \in DOMAIN elements : elements[i] = "title" /\ elements[j] = "title" => i = j
    /\ parts \in Seq(Nat) /\ ToSet(parts) \subseteq 0 .. fed
    /\ title \in Seq(Nat)
    /\ faults \subseteq {"stray", "crossed"}
    /\ visible \subseteq 1 .. fed /\ titled \subseteq 1 .. fed

LEMMA EmptyList == ToSet(<<>>) = {} /\ DOMAIN <<>> = {} /\ \A S : <<>> \in Seq(S)
<1>1. DOMAIN <<>> = {} /\ \A S : <<>> \in Seq(S)
  OBVIOUS
<1>. QED  BY <1>1 DEF ToSet

LEMMA HtmlTypesInit == HtmlInit => HtmlTypes
<1> SUFFICES ASSUME HtmlInit PROVE HtmlTypes
  OBVIOUS
<1>1. fed = 0 /\ skip_depth = 0 /\ in_title = FALSE /\ faults = {} /\ visible = {} /\ titled = {}
  BY DEF HtmlInit
<1>2. elements = <<>> /\ parts = <<>> /\ title = <<>>
  BY DEF HtmlInit
<1>3. elements \in Seq(Tags) /\ DOMAIN elements = {} /\ parts \in Seq(Nat) /\ title \in Seq(Nat) /\ ToSet(parts) = {}
  BY <1>2, EmptyList
<1>. QED  BY <1>1, <1>3 DEF HtmlTypes

(* What an end tag does to the open elements. *)
LEMMA EndsFacts ==
  ASSUME HtmlTypes, NEW tag \in Tags, Ends(tag)
  PROVE  \/ /\ tag \notin ToSet(elements) /\ elements' = elements
            /\ faults' = faults \cup {"stray"}
         \/ \E at \in 1 .. Len(elements) :
            /\ elements[at] = tag /\ \A j \in at + 1 .. Len(elements) : elements[j] # tag
            /\ elements' = SubSeq(elements, 1, at - 1)
            /\ faults' = faults \cup {"crossed"} \/ faults' = faults
            /\ "crossed" \notin faults' => \A j \in at + 1 .. Len(elements) : elements[j] \in BlockTags
<1>1. CASE tag \notin ToSet(elements)
  BY <1>1 DEF Ends
<1>2. CASE tag \in ToSet(elements)
  <2> DEFINE at == CHOOSE i \in DOMAIN elements :
                       /\ elements[i] = tag
                       /\ \A j \in i + 1 .. Len(elements) : elements[j] # tag
             closed == SubSeq(elements, at + 1, Len(elements))
  <2>1. at \in DOMAIN elements /\ elements[at] = tag
        /\ \A j \in at + 1 .. Len(elements) : elements[j] # tag
    BY <1>2, LastPlace DEF HtmlTypes
  <2>2. /\ elements' = SubSeq(elements, 1, at - 1)
        /\ faults' = IF \E j \in DOMAIN closed : closed[j] \notin BlockTags
                     THEN faults \cup {"crossed"} ELSE faults
    BY <1>2 DEF Ends
  <2> HIDE DEF at
  <2>3. at \in 1 .. Len(elements) /\ Len(elements) \in Nat /\ elements \in Seq(Tags)
    BY <2>1 DEF HtmlTypes
  <2>4. ASSUME "crossed" \notin faults', NEW j \in at + 1 .. Len(elements) PROVE elements[j] \in BlockTags
    <3>1. j - at \in DOMAIN closed /\ closed[j - at] = elements[j]
      BY <2>3
    <3>. QED  BY <2>2, <2>4, <3>1
  <2>. QED  BY <2>1, <2>2, <2>3, <2>4
<1>. QED  BY <1>1, <1>2

LEMMA LineFacts ==
  ASSUME HtmlTypes, NEW tag \in Tags, LineAt(tag), fed' = fed + 1
  PROVE  /\ parts' \in Seq(Nat) /\ ToSet(parts') \subseteq 0 .. fed'
         /\ Kept' = Kept
<1>1. Newline \in Nat /\ parts \in Seq(Nat) /\ ToSet(parts) \subseteq 0 .. fed /\ fed \in Nat
  BY DEF Newline, HtmlTypes
<1>2. parts' \in Seq(Nat) /\ (ToSet(parts') = ToSet(parts) \/ ToSet(parts') = ToSet(parts) \cup {0})
  BY <1>1, ToSetOfAppend DEF LineAt, Newline
<1>. QED  BY <1>1, <1>2 DEF Kept

(* A newline of the data, whether it is kept, part of a title, or dropped.  *)
LEMMA LineFeedFacts ==
  ASSUME HtmlTypes, LineFeed
  PROVE  /\ fed' = fed + 1 /\ fed \in Nat
         /\ title' \in Seq(Nat) /\ ToSet(title') \ {Newline} = ToSet(title) \ {Newline}
         /\ parts' \in Seq(Nat) /\ ToSet(parts') \subseteq 0 .. fed'
         /\ parts' = IF ~in_title /\ skip_depth = 0 THEN Append(parts, Newline) ELSE parts
         /\ Kept' = Kept
<1>1. /\ fed' = fed + 1 /\ fed \in Nat
      /\ title' = IF in_title THEN Append(title, Newline) ELSE title
      /\ parts' = IF ~in_title /\ skip_depth = 0 THEN Append(parts, Newline) ELSE parts
  BY DEF LineFeed, Feed, handle_data, HtmlTypes
<1>2. title \in Seq(Nat) /\ parts \in Seq(Nat) /\ ToSet(parts) \subseteq 0 .. fed /\ Newline \in Nat
  BY DEF HtmlTypes, Newline
<1>3. title' \in Seq(Nat) /\ (ToSet(title') = ToSet(title) \/ ToSet(title') = ToSet(title) \cup {Newline})
  BY <1>1, <1>2, ToSetOfAppend
<1>4. parts' \in Seq(Nat) /\ (ToSet(parts') = ToSet(parts) \/ ToSet(parts') = ToSet(parts) \cup {0})
  BY <1>1, <1>2, ToSetOfAppend DEF Newline
<1>5. ToSet(parts') \subseteq 0 .. fed' /\ Kept' = Kept
  BY <1>1, <1>2, <1>4 DEF Kept
<1>. QED  BY <1>1, <1>3, <1>4, <1>5

LEMMA HtmlTypesStep == HtmlTypes /\ [HtmlNext]_htmlVars => HtmlTypes'
<1> SUFFICES ASSUME HtmlTypes, [HtmlNext]_htmlVars PROVE HtmlTypes'
  OBVIOUS
<1>1. ASSUME NEW tag \in Tags, Starts(tag) PROVE HtmlTypes'
  <2>1. /\ fed' = fed + 1 /\ LineAt(tag) /\ elements' = Append(elements, tag)
        /\ tag = "title" => tag \notin ToSet(elements)
        /\ UNCHANGED <<title, faults, visible, titled>>
        /\ skip_depth' = IF tag \in SkipTags THEN skip_depth + 1 ELSE skip_depth
        /\ in_title' = IF tag = "title" THEN TRUE ELSE in_title
    BY <1>1, Zenon DEF Starts, Feed, handle_starttag
  <2>d. skip_depth' \in Nat
    BY <2>1 DEF HtmlTypes
  <2>t. in_title' \in BOOLEAN
    BY <2>1, Zenon DEF HtmlTypes
  <2>2. ASSUME NEW i \in DOMAIN elements', NEW j \in DOMAIN elements', elements'[i] = "title", elements'[j] = "title"
        PROVE  i = j
    BY <2>1, <2>2 DEF HtmlTypes, ToSet
  <2>3. elements' \in Seq(Tags) /\ parts' \in Seq(Nat) /\ ToSet(parts') \subseteq 0 .. fed'
    BY <2>1, LineFacts, ToSetOfAppend DEF HtmlTypes
  <2>4. fed' \in Nat /\ visible' \subseteq 1 .. fed' /\ titled' \subseteq 1 .. fed' /\ title' \in Seq(Nat)
        /\ faults' \subseteq {"stray", "crossed"}
    BY <2>1 DEF HtmlTypes
  <2>. QED  BY <2>2, <2>3, <2>4, <2>d, <2>t DEF HtmlTypes
<1>2. ASSUME NEW tag \in Tags, Ends(tag) PROVE HtmlTypes'
  <2>1. /\ fed' = fed + 1 /\ LineAt(tag)
        /\ UNCHANGED <<title, visible, titled>>
        /\ skip_depth' = IF tag \in SkipTags THEN Closed(skip_depth) ELSE skip_depth
        /\ in_title' = IF tag = "title" THEN FALSE ELSE in_title
    BY <1>2, Zenon DEF Ends, Feed, handle_endtag
  <2>d. skip_depth' \in Nat
    BY <2>1 DEF HtmlTypes, Closed
  <2>t. in_title' \in BOOLEAN
    BY <2>1, Zenon DEF HtmlTypes
  <2>2. /\ elements' \in Seq(Tags) /\ faults' \subseteq {"stray", "crossed"}
        /\ \A i, j \in DOMAIN elements' : elements'[i] = "title" /\ elements'[j] = "title" => i = j
    <3>1. CASE elements' = elements /\ faults' = faults \cup {"stray"}
      BY <3>1 DEF HtmlTypes
    <3>2. ASSUME NEW at \in 1 .. Len(elements), elements' = SubSeq(elements, 1, at - 1),
                 faults' = faults \cup {"crossed"} \/ faults' = faults
          PROVE  /\ elements' \in Seq(Tags) /\ faults' \subseteq {"stray", "crossed"}
                 /\ \A i, j \in DOMAIN elements' : elements'[i] = "title" /\ elements'[j] = "title" => i = j
      <4>1. /\ elements' \in Seq(Tags) /\ DOMAIN elements' \subseteq DOMAIN elements
            /\ \A i \in DOMAIN elements' : elements'[i] = elements[i]
        BY <3>2 DEF HtmlTypes
      <4>. QED  BY <3>2, <4>1 DEF HtmlTypes
    <3>. QED  BY <1>2, <3>1, <3>2, EndsFacts
  <2>3. parts' \in Seq(Nat) /\ ToSet(parts') \subseteq 0 .. fed'
    BY <2>1, LineFacts
  <2>4. fed' \in Nat /\ visible' \subseteq 1 .. fed' /\ titled' \subseteq 1 .. fed' /\ title' \in Seq(Nat)
    BY <2>1 DEF HtmlTypes
  <2>. QED  BY <2>2, <2>3, <2>4, <2>d, <2>t DEF HtmlTypes
<1>3. ASSUME Piece PROVE HtmlTypes'
  <2>1. /\ fed' = fed + 1 /\ UNCHANGED <<skip_depth, in_title, elements, faults>>
        /\ visible' = visible \/ visible' = visible \cup {fed'}
        /\ titled' = titled \/ titled' = titled \cup {fed'}
        /\ parts' = parts \/ parts' = Append(parts, fed')
        /\ title' = title \/ title' = Append(title, fed')
    BY <1>3, Zenon DEF Piece, Feed, handle_data
  <2>2. fed \in Nat /\ fed' \in Nat /\ fed' # 0
    BY <2>1 DEF HtmlTypes
  <2>t. parts \in Seq(Nat) /\ title \in Seq(Nat) /\ ToSet(parts) \subseteq 0 .. fed
        /\ visible \subseteq 1 .. fed /\ titled \subseteq 1 .. fed
    BY DEF HtmlTypes
  <2>3. parts' \in Seq(Nat) /\ (ToSet(parts') = ToSet(parts) \/ ToSet(parts') = ToSet(parts) \cup {fed'})
    <3>1. CASE parts' = parts
      BY <2>t, <3>1
    <3>2. CASE parts' = Append(parts, fed')
      BY <2>2, <2>t, <3>2, ToSetOfAppend
    <3>. QED  BY <2>1, <3>1, <3>2
  <2>4. title' \in Seq(Nat)
    BY <2>1, <2>2, <2>t, ToSetOfAppend
  <2>5. ToSet(parts') \subseteq 0 .. fed' /\ visible' \subseteq 1 .. fed' /\ titled' \subseteq 1 .. fed'
    <3>1. 0 .. fed \subseteq 0 .. fed' /\ 1 .. fed \subseteq 1 .. fed' /\ fed' \in 1 .. fed' /\ fed' \in 0 .. fed'
      BY <2>1, <2>2
    <3>. QED  BY <2>1, <2>3, <2>t, <3>1
  <2>. QED  BY <2>1, <2>2, <2>3, <2>4, <2>5 DEF HtmlTypes
<1>4. ASSUME LineFeed PROVE HtmlTypes'
  <2>1. /\ fed' = fed + 1 /\ UNCHANGED <<skip_depth, in_title, elements, faults, visible, titled>>
        /\ ToSet(title') \ {Newline} = ToSet(title) \ {Newline} /\ title' \in Seq(Nat)
        /\ parts' \in Seq(Nat) /\ ToSet(parts') \subseteq 0 .. fed'
    BY <1>4, LineFeedFacts DEF LineFeed
  <2>. QED  BY <2>1 DEF HtmlTypes
<1>5. UNCHANGED htmlVars => HtmlTypes'
  BY DEF htmlVars, HtmlTypes
<1>. QED  BY <1>1, <1>2, <1>3, <1>4, <1>5 DEF HtmlNext, Data

(***************************************************************************)
(* As long as no element was crossed: the flag is raised exactly inside a   *)
(* title, and the counter is at most the number of skipped elements that    *)
(* are open (a stray end tag lowers it, too), and exactly that without      *)
(* stray end tags.                                                          *)
(***************************************************************************)
ParserInv == "crossed" \notin faults =>
    /\ in_title <=> "title" \in ToSet(elements)
    /\ skip_depth <= Depth(elements)
    /\ "stray" \notin faults => skip_depth = Depth(elements)
    /\ ToSet(title) \ {Newline} = titled
    /\ visible \subseteq Kept
    /\ "stray" \notin faults => Kept = visible

LEMMA ParserInit == HtmlInit => ParserInv
<1>1. SkippedAt(<<>>) = {}
  BY DEF SkippedAt
<1>2. Depth(<<>>) = 0
  BY <1>1, FS_EmptySet DEF Depth
<1>. QED  BY <1>2, EmptyList DEF HtmlInit, ParserInv, Kept

LEMMA ParserStep == HtmlTypes /\ HtmlTypes' /\ ParserInv /\ [HtmlNext]_htmlVars => ParserInv'
<1> SUFFICES ASSUME HtmlTypes, HtmlTypes', ParserInv, [HtmlNext]_htmlVars, "crossed" \notin faults'
             PROVE  ParserInv'
  BY DEF ParserInv
<1>0. /\ Depth(elements) \in Nat /\ Depth(elements)' \in Nat /\ skip_depth \in Nat /\ skip_depth' \in Nat
      /\ Depth(elements) = 0 <=> ToSet(elements) \cap SkipTags = {}
      /\ "title" \notin SkipTags \cup BlockTags /\ SkipTags \cap BlockTags = {}
  BY DepthFacts, TagsAssumption DEF HtmlTypes
<1>1. ASSUME NEW tag \in Tags, Starts(tag) PROVE ParserInv'
  <2>1. /\ fed' = fed + 1 /\ LineAt(tag) /\ elements' = Append(elements, tag)
        /\ UNCHANGED <<title, faults, visible, titled>>
        /\ skip_depth' = IF tag \in SkipTags THEN skip_depth + 1 ELSE skip_depth
        /\ in_title' = IF tag = "title" THEN TRUE ELSE in_title
    BY <1>1 DEF Starts, Feed, handle_starttag
  <2>2. Depth(elements)' = IF tag \in SkipTags THEN Depth(elements) + 1 ELSE Depth(elements)
    BY <2>1, DepthOfAppend DEF HtmlTypes
  <2>3. ToSet(elements') = ToSet(elements) \cup {tag}
    BY <2>1, ToSetOfAppend DEF HtmlTypes
  <2>4. Kept' = Kept
    BY <2>1, LineFacts
  <2>5. in_title' <=> "title" \in ToSet(elements')
    BY <2>1, <2>3 DEF ParserInv
  <2>6. skip_depth' <= Depth(elements)' /\ ("stray" \notin faults' => skip_depth' = Depth(elements)')
    BY <1>0, <2>1, <2>2 DEF ParserInv
  <2>. QED  BY <2>1, <2>4, <2>5, <2>6 DEF ParserInv
<1>2. ASSUME NEW tag \in Tags, Ends(tag) PROVE ParserInv'
  <2>1. /\ fed' = fed + 1 /\ LineAt(tag)
        /\ UNCHANGED <<title, visible, titled>>
        /\ skip_depth' = IF tag \in SkipTags THEN Closed(skip_depth) ELSE skip_depth
        /\ in_title' = IF tag = "title" THEN FALSE ELSE in_title
    BY <1>2 DEF Ends, Feed, handle_endtag
  <2>2. Kept' = Kept
    BY <2>1, LineFacts
  <2>3. CASE /\ tag \notin ToSet(elements) /\ elements' = elements
             /\ faults' = faults \cup {"stray"}
    <3>1. in_title' <=> "title" \in ToSet(elements')
      BY <2>1, <2>3 DEF ParserInv
    <3>2. skip_depth' <= Depth(elements)'
      BY <1>0, <2>1, <2>3 DEF ParserInv, Closed
    <3>. QED  BY <2>1, <2>2, <2>3, <3>1, <3>2 DEF ParserInv
  <2>4. ASSUME NEW at \in 1 .. Len(elements),
               elements[at] = tag, \A j \in at + 1 .. Len(elements) : elements[j] # tag,
               elements' = SubSeq(elements, 1, at - 1), faults' = faults,
               \A j \in at + 1 .. Len(elements) : elements[j] \in BlockTags
        PROVE  ParserInv'
    <3>1. /\ Depth(elements)' = IF tag \in SkipTags THEN Depth(elements) - 1 ELSE Depth(elements)
          /\ Depth(elements) > 0 \/ tag \notin SkipTags
      BY <2>4, DepthOfClosed DEF HtmlTypes
    <3>2. skip_depth' <= Depth(elements)' /\ ("stray" \notin faults' => skip_depth' = Depth(elements)')
      BY <1>0, <2>1, <2>4, <3>1 DEF ParserInv, Closed
    <3>3. /\ DOMAIN elements = 1 .. Len(elements) /\ Len(elements) \in Nat
          /\ DOMAIN elements' = 1 .. at - 1
          /\ \A i \in 1 .. at - 1 : elements'[i] = elements[i]
      BY <2>4 DEF HtmlTypes
    <3>4. "title" \in ToSet(elements') <=> "title" \in ToSet(elements) /\ tag # "title"
      <4>1. CASE tag = "title"
        <5>1. \A i \in DOMAIN elements : elements[i] = "title" => i = at
          BY <2>4, <3>3, <4>1 DEF HtmlTypes
        <5>2. \A i \in 1 .. at - 1 : i \in DOMAIN elements /\ i # at
          BY <2>4, <3>3
        <5>. QED  BY <3>3, <4>1, <5>1, <5>2 DEF ToSet
      <4>2. CASE tag # "title"
        <5>1. \A i \in DOMAIN elements : elements[i] = "title" => i \in 1 .. at - 1
          BY <1>0, <2>4, <3>3, <4>2
        <5>. QED  BY <3>3, <4>2, <5>1 DEF ToSet
      <4>. QED  BY <4>1, <4>2
    <3>5. in_title' <=> "title" \in ToSet(elements')
      BY <2>1, <2>4, <3>4 DEF ParserInv
    <3>. QED  BY <2>1, <2>2, <2>4, <3>2, <3>5 DEF ParserInv
  <2>. QED  BY <1>2, <2>3, <2>4, EndsFacts
<1>3. ASSUME Piece PROVE ParserInv'
  <2>1. /\ fed' = fed + 1 /\ fed \in Nat /\ fed' \in Nat
        /\ UNCHANGED <<skip_depth, in_title, elements, faults>>
        /\ title' = IF in_title THEN Append(title, fed') ELSE title
        /\ parts' = IF ~in_title /\ skip_depth = 0 THEN Append(parts, fed') ELSE parts
    BY <1>3 DEF Piece, Feed, handle_data, HtmlTypes
  <2>2. /\ titled' = IF "title" \in ToSet(elements) THEN titled \cup {fed'} ELSE titled
        /\ visible' = IF Hidden THEN visible ELSE visible \cup {fed'}
    BY <1>3 DEF Piece, InTitle
  <2>3. Hidden <=> "title" \in ToSet(elements) \/ Depth(elements) # 0
    BY <1>0 DEF Hidden, InTitle
  <2>4. /\ ToSet(title') = IF in_title THEN ToSet(title) \cup {fed'} ELSE ToSet(title)
        /\ ToSet(parts') = IF ~in_title /\ skip_depth = 0 THEN ToSet(parts) \cup {fed'} ELSE ToSet(parts)
    <3>1. title \in Seq(Nat) /\ parts \in Seq(Nat) /\ in_title \in BOOLEAN
      BY DEF HtmlTypes
    <3>2. CASE in_title = TRUE
      BY <2>1, <3>1, <3>2, ToSetOfAppend
    <3>3. CASE in_title = FALSE
      BY <2>1, <3>1, <3>3, ToSetOfAppend
    <3>. QED  BY <3>1, <3>2, <3>3
  <2>5. Kept' = IF ~in_title /\ skip_depth = 0 THEN Kept \cup {fed'} ELSE Kept
    BY <2>1, <2>4 DEF Kept, HtmlTypes
  <2>6. in_title <=> "title" \in ToSet(elements)
    BY <2>1 DEF ParserInv
  <2>7. /\ visible \subseteq Kept /\ skip_depth <= Depth(elements)
        /\ "stray" \notin faults => Kept = visible /\ skip_depth = Depth(elements)
    BY <2>1 DEF ParserInv
  <2>8. visible' \subseteq Kept' /\ ("stray" \notin faults' => Kept' = visible')
    <3>1. CASE "title" \in ToSet(elements)
      <4>1. visible' = visible /\ Kept' = Kept
        BY <2>2, <2>3, <2>5, <2>6, <3>1
      <4>. QED  BY <2>1, <2>7, <4>1
    <3>2. CASE "title" \notin ToSet(elements) /\ skip_depth = 0
      BY <1>0, <2>1, <2>2, <2>3, <2>5, <2>6, <2>7, <3>2
    <3>3. CASE "title" \notin ToSet(elements) /\ skip_depth # 0
      <4>1. visible' = visible /\ Kept' = Kept
        BY <1>0, <2>2, <2>3, <2>5, <2>7, <3>3
      <4>. QED  BY <2>1, <2>7, <4>1
    <3>. QED  BY <3>1, <3>2, <3>3
  <2>9. ToSet(title') \ {Newline} = titled'
    BY <2>1, <2>2, <2>4, <2>6 DEF ParserInv, Newline
  <2>. QED  BY <2>1, <2>6, <2>7, <2>8, <2>9 DEF ParserInv
<1>4. ASSUME LineFeed PROVE ParserInv'
  <2>1. UNCHANGED <<skip_depth, in_title, elements, faults, visible, titled>>
    BY <1>4 DEF LineFeed
  <2>2. Kept' = Kept /\ ToSet(title') \ {Newline} = ToSet(title) \ {Newline}
    BY <1>4, LineFeedFacts
  <2>. QED  BY <2>1, <2>2 DEF ParserInv
<1>5. UNCHANGED htmlVars => ParserInv'
  BY DEF htmlVars, ParserInv, Kept
<1>. QED  BY <1>1, <1>2, <1>3, <1>4, <1>5 DEF HtmlNext, Data

LEMMA ParserInvariance == HtmlSpec => [](HtmlTypes /\ ParserInv)
BY HtmlTypesInit, HtmlTypesStep, ParserInit, ParserStep, PTL DEF HtmlSpec

(* The text of a well-formed document is what is outside skipped elements,  *)
(* however long it is and however they nest; stray end tags lose nothing.   *)
THEOREM VisibleReachesText == HtmlSpec => []VisibleIsKept
<1>1. HtmlTypes /\ ParserInv => VisibleIsKept
  BY DEF HtmlTypes, ParserInv, VisibleIsKept
<1>. QED  BY <1>1, ParserInvariance, PTL

(* The title is what the title elements hold, although skipped elements     *)
(* enclose them, and although end tags may be stray.                        *)
THEOREM TitleReachesTitle == HtmlSpec => []TitleIsCaptured
<1>1. ParserInv => TitleIsCaptured
  BY DEF ParserInv, TitleIsCaptured
<1>. QED  BY <1>1, ParserInvariance, PTL

(***************************************************************************)
(* get_text.  What the loop has put out of a page is kept in order, no two  *)
(* paragraphs in a line, and what it is reading belongs to the last one.    *)
(* Both are stated of any data numbered up to top, of which the pieces in   *)
(* seen are visible and belong to the paragraphs that para says.  Where the *)
(* paragraphs are exact none is broken into lines, either.                  *)
(***************************************************************************)
All(out) == UNION {ToSet(out[i]) : i \in DOMAIN out}

Filed(out, top, seen, para, how) ==
    /\ out \in Seq(Seq(Nat))
    /\ All(out) \subseteq 1 .. top
    /\ \A i, j \in DOMAIN out : \A k \in DOMAIN out[i], l \in DOMAIN out[j] :
          Comes(i, k, j, l) => out[i][k] < out[j][l]
    /\ \A i, j \in DOMAIN out : \A m \in ToSet(out[i]) \cap seen, n \in ToSet(out[j]) \cap seen :
          /\ i = j => para[m] = para[n]
          /\ how = "exact" => (para[m] = para[n] => i = j)
    /\ \A i \in 1 .. Len(out) - 1 : out[i] # <<>> \/ out[i + 1] # <<>>

Reading(out, line, top, seen, para, count, how) ==
    /\ line \in Seq(Nat) /\ ToSet(line) \subseteq 1 .. top
    /\ \A k, l \in DOMAIN line : k < l => line[k] < line[l]
    /\ \A m \in All(out), n \in ToSet(line) : m < n
    /\ \A n \in ToSet(line) \cap seen : para[n] = count
    /\ \A n \in All(out) \cap seen : para[n] \in 0 .. count /\ (how = "exact" => para[n] # count)

LEMMA AllOfAppend ==
  ASSUME NEW out \in Seq(Seq(Nat)), NEW line \in Seq(Nat)
  PROVE  All(Append(out, line)) = All(out) \cup ToSet(line)
<1>1. /\ Len(out) \in Nat /\ DOMAIN out = 1 .. Len(out)
      /\ DOMAIN Append(out, line) = 1 .. Len(out) + 1
      /\ \A i \in 1 .. Len(out) : Append(out, line)[i] = out[i]
      /\ Append(out, line)[Len(out) + 1] = line
  OBVIOUS
<1> DEFINE longer == Append(out, line)
<1> HIDE DEF longer
<1>2. \A i \in 1 .. Len(out) + 1 : i = Len(out) + 1 \/ i \in 1 .. Len(out)
  BY <1>1
<1>3. \A i \in 1 .. Len(out) : i \in 1 .. Len(out) + 1
  BY <1>1
<1>4. Len(out) + 1 \in 1 .. Len(out) + 1
  BY <1>1
<1>5. \A n : n \in All(longer) <=> \E i \in 1 .. Len(out) + 1 : n \in ToSet(longer[i])
  BY <1>1, Zenon DEF All, longer
<1>6. \A n : n \in All(out) <=> \E i \in 1 .. Len(out) : n \in ToSet(out[i])
  BY <1>1, Zenon DEF All
<1>7. \A n : n \in All(longer) <=> n \in All(out) \/ n \in ToSet(line)
  BY <1>1, <1>2, <1>3, <1>4, <1>5, <1>6, Zenon DEF longer
<1>. QED  BY <1>7 DEF longer

(* One more round of the loop that squeezes. *)
LEMMA SqueezeFiles ==
  ASSUME NEW out, NEW line, NEW top \in Nat, NEW seen, NEW para, NEW count \in Nat, NEW how,
         Filed(out, top, seen, para, how), Reading(out, line, top, seen, para, count, how)
  PROVE  /\ Filed(Squeeze(out, line), top, seen, para, how)
         /\ All(Squeeze(out, line)) = All(out) \cup ToSet(line)
         /\ \A n \in All(Squeeze(out, line)) \cap seen : para[n] \in 0 .. count
<1> DEFINE more == Append(out, line)
<1>0. /\ out \in Seq(Seq(Nat)) /\ line \in Seq(Nat) /\ Len(out) \in Nat
      /\ DOMAIN out = 1 .. Len(out)
      /\ \A i \in 1 .. Len(out) : out[i] \in Seq(Nat)
  BY DEF Filed, Reading
<1>1. /\ more \in Seq(Seq(Nat)) /\ DOMAIN more = 1 .. Len(out) + 1 /\ Len(more) = Len(out) + 1
      /\ \A i \in 1 .. Len(out) : more[i] = out[i]
      /\ more[Len(out) + 1] = line
      /\ \A i \in DOMAIN more : i = Len(out) + 1 \/ i \in 1 .. Len(out)
  BY <1>0
<1>2. All(more) = All(out) \cup ToSet(line)
  BY <1>0, AllOfAppend
<1> HIDE DEF more
<1>3. \A n \in (All(out) \cup ToSet(line)) \cap seen : para[n] \in 0 .. count
  BY DEF Reading
<1>4. CASE line = <<>> /\ (out = <<>> \/ Last(out) = <<>>)
  <2>1. Squeeze(out, line) = out /\ ToSet(line) = {}
    BY <1>4, EmptyList DEF Squeeze
  <2>. QED  BY <1>3, <2>1
<1>5. CASE ~(line = <<>> /\ (out = <<>> \/ Last(out) = <<>>))
  <2>1. Squeeze(out, line) = more
    BY <1>5 DEF Squeeze, more
  <2>2. All(more) \subseteq 1 .. top
    BY <1>2 DEF Filed, Reading
  <2>3. \A i \in 1 .. Len(out) : ToSet(out[i]) \subseteq All(out)
    BY <1>0 DEF All
  <2>4. \A i \in 1 .. Len(out) : \A k \in DOMAIN out[i] : out[i][k] \in All(out)
    BY <2>3, <1>0 DEF ToSet
  <2>5. \A l \in DOMAIN line : line[l] \in ToSet(line)
    BY <1>0 DEF ToSet
  <2>6. ASSUME NEW i \in DOMAIN more, NEW j \in DOMAIN more,
               NEW k \in DOMAIN more[i], NEW l \in DOMAIN more[j], Comes(i, k, j, l)
        PROVE  more[i][k] < more[j][l]
    <3>1. CASE i \in 1 .. Len(out) /\ j \in 1 .. Len(out)
      BY <1>0, <1>1, <2>6, <3>1 DEF Filed
    <3>2. CASE i \in 1 .. Len(out) /\ j = Len(out) + 1
      BY <1>1, <2>4, <2>5, <3>2 DEF Reading
    <3>3. CASE i = Len(out) + 1 /\ j = Len(out) + 1
      <4>1. k < l
        BY <1>0, <2>6, <3>3 DEF Comes
      <4>. QED  BY <1>1, <3>3, <4>1 DEF Reading
    <3>4. CASE i = Len(out) + 1 /\ j \in 1 .. Len(out)
      BY <1>0, <2>6, <3>4 DEF Comes
    <3>. QED  BY <1>1, <3>1, <3>2, <3>3, <3>4
  <2>7. ASSUME NEW i \in DOMAIN more, NEW j \in DOMAIN more,
               NEW m \in ToSet(more[i]) \cap seen, NEW n \in ToSet(more[j]) \cap seen
        PROVE  /\ i = j => para[m] = para[n]
               /\ how = "exact" => (para[m] = para[n] => i = j)
    <3>1. CASE i \in 1 .. Len(out) /\ j \in 1 .. Len(out)
      BY <1>0, <1>1, <3>1 DEF Filed
    <3>2. CASE i \in 1 .. Len(out) /\ j = Len(out) + 1
      <4>1. (how = "exact" => para[m] # count) /\ para[n] = count
        BY <1>1, <2>3, <3>2 DEF Reading
      <4>. QED  BY <1>0, <3>2, <4>1
    <3>3. CASE i = Len(out) + 1 /\ j = Len(out) + 1
      BY <1>1, <3>3 DEF Reading
    <3>4. CASE i = Len(out) + 1 /\ j \in 1 .. Len(out)
      <4>1. (how = "exact" => para[n] # count) /\ para[m] = count
        BY <1>1, <2>3, <3>4 DEF Reading
      <4>. QED  BY <1>0, <3>4, <4>1
    <3>. QED  BY <1>1, <3>1, <3>2, <3>3, <3>4
  <2>8. ASSUME NEW i \in 1 .. Len(more) - 1 PROVE more[i] # <<>> \/ more[i + 1] # <<>>
    <3>1. CASE i + 1 \in 1 .. Len(out)
      <4>1. i \in 1 .. Len(out) - 1
        BY <1>0, <1>1, <3>1
      <4>2. more[i] = out[i] /\ more[i + 1] = out[i + 1]
        BY <1>0, <1>1, <3>1, <4>1
      <4>. QED  BY <4>1, <4>2 DEF Filed
    <3>2. CASE i + 1 = Len(out) + 1
      <4>0. i \in Int /\ 1 <= i /\ i + 1 = Len(out) + 1
        BY <1>0, <1>1, <3>2
      <4>e. Len(out) \in Nat /\ (out = <<>> => Len(out) = 0)
        BY <1>0
      <4>i. i = Len(out) /\ 1 <= Len(out)
        BY <4>0, <4>e
      <4>1. i = Len(out) /\ i \in 1 .. Len(out) /\ out # <<>>
        BY <4>e, <4>i
      <4>2. more[i] = Last(out) /\ more[i + 1] = line
        BY <1>1, <3>2, <4>1 DEF Last
      <4>. QED  BY <1>5, <4>1, <4>2
    <3>3. i \in 1 .. Len(out) /\ Len(out) \in Nat
      BY <1>0, <1>1
    <3>4. i + 1 \in 1 .. Len(out) \/ i + 1 = Len(out) + 1
      BY <3>3
    <3>. QED  BY <3>1, <3>2, <3>4
  <2>9. Filed(more, top, seen, para, how)
    BY <1>1, <2>2, <2>6, <2>7, <2>8 DEF Filed
  <2>. QED  BY <1>2, <1>3, <2>1, <2>9
<1>. QED  BY <1>4, <1>5

(* A loop over a list has a run, if every round yields what the next takes. *)
RunsTo(f, n, Out, start, step, list) ==
    \A i \in 0 .. n : /\ f[i] \in Out
                      /\ f[i] = IF i = 0 THEN start ELSE step[<<f[i - 1], list[i]>>]

LEMMA RunExists ==
  ASSUME NEW In, NEW Out, NEW start \in Out, NEW step \in [Out \X In -> Out], NEW list \in Seq(In)
  PROVE  \E f : RunsTo(f, Len(list), Out, start, step, list)
<1> DEFINE S == {n \in Nat : n <= Len(list) => \E f : RunsTo(f, n, Out, start, step, list)}
<1>0. Len(list) \in Nat /\ \A i \in 1 .. Len(list) : list[i] \in In
  OBVIOUS
<1>1. 0 \in S
  <2> DEFINE f == [i \in 0 .. 0 |-> start]
  <2>1. RunsTo(f, 0, Out, start, step, list)
    BY DEF RunsTo
  <2>. QED  BY <2>1
<1>2. ASSUME NEW n \in Nat, n \in S, n + 1 <= Len(list)
      PROVE  \E f : RunsTo(f, n + 1, Out, start, step, list)
  <2>0. n <= Len(list)
    BY <1>0, <1>2
  <2>1. PICK f : RunsTo(f, n, Out, start, step, list)
    BY <1>2, <2>0
  <2> DEFINE g == [i \in 0 .. n + 1 |-> IF i = n + 1 THEN step[<<f[n], list[n + 1]>>] ELSE f[i]]
  <2>2. /\ \A i \in 0 .. n : f[i] \in Out
        /\ \A i \in 0 .. n : f[i] = IF i = 0 THEN start ELSE step[<<f[i - 1], list[i]>>]
    BY <2>1 DEF RunsTo
  <2>3. /\ \A i \in 0 .. n : g[i] = f[i]
        /\ g[n + 1] = step[<<f[n], list[n + 1]>>]
    OBVIOUS
  <2>4. f[n] \in Out /\ list[n + 1] \in In
    BY <1>0, <1>2, <2>2
  <2>5. step[<<f[n], list[n + 1]>>] \in Out
    BY <2>4
  <2> HIDE DEF g
  <2>6. ASSUME NEW i \in 0 .. n + 1
        PROVE  g[i] \in Out /\ g[i] = IF i = 0 THEN start ELSE step[<<g[i - 1], list[i]>>]
    <3>1. CASE i = n + 1
      <4>1. i # 0 /\ i - 1 = n /\ g[i - 1] = f[n]
        BY <2>3, <3>1
      <4>. QED  BY <2>3, <2>5, <3>1, <4>1
    <3>2. CASE i = 0
      <4>1. 0 \in 0 .. n /\ g[0] = f[0]
        BY <2>3
      <4>2. f[0] \in Out /\ f[0] = start
        BY <2>2, <4>1
      <4>. QED  BY <3>2, <4>1, <4>2
    <3>3. CASE i \in 1 .. n
      <4>1. i # 0 /\ i - 1 \in 0 .. n /\ i \in 0 .. n
        BY <3>3
      <4>. QED  BY <2>2, <2>3, <4>1
    <3>. QED  BY <3>1, <3>2, <3>3
  <2>. QED  BY <2>6 DEF RunsTo
<1>3. \A n \in Nat : n \in S => n + 1 \in S
  BY <1>2
<1>4. S \in SUBSET Nat
  OBVIOUS
<1>5. S = Nat
  <2> HIDE DEF S
  <2>. QED  BY <1>1, <1>3, <1>4, Induct
<1>6. Len(list) \in S /\ Len(list) <= Len(list)
  BY <1>0, <1>5
<1>. QED  BY <1>6

(* Two runs that make the same rounds end alike. *)
LEMMA RunsAgree ==
  ASSUME NEW f, NEW g, NEW n \in Nat, f[0] = g[0],
         \A i \in 1 .. n : f[i - 1] = g[i - 1] => f[i] = g[i]
  PROVE  f[n] = g[n]
<1> DEFINE S == {i \in Nat : i <= n => f[i] = g[i]}
<1>1. 0 \in S
  OBVIOUS
<1>2. ASSUME NEW i \in Nat, i \in S PROVE i + 1 \in S
  <2>1. CASE i + 1 <= n
    <3>1. i + 1 \in 1 .. n /\ i + 1 - 1 = i /\ f[i] = g[i]
      BY <1>2, <2>1
    <3>. QED  BY <3>1
  <2>. QED  BY <2>1
<1>3. S \in SUBSET Nat
  OBVIOUS
<1> HIDE DEF S
<1>4. S = Nat
  BY <1>1, <1>2, <1>3, Induct
<1>. QED  BY <1>4 DEF S

Pages == Seq(Seq(Nat)) \ {<<>>}

LEMMA FrontAndLast ==
  ASSUME NEW S, NEW s \in Seq(S)
  PROVE  /\ s # <<>> => /\ Front(s) \in Seq(S) /\ Last(s) \in S
                        /\ s = Append(Front(s), Last(s))
         /\ \A x \in S : /\ Append(s, x) \in Seq(S) \ {<<>>}
                         /\ Front(Append(s, x)) = s /\ Last(Append(s, x)) = x
<1>1. ASSUME s # <<>> PROVE Front(s) \in Seq(S) /\ Last(s) \in S /\ s = Append(Front(s), Last(s))
  BY <1>1 DEF Front, Last
<1>2. ASSUME NEW x \in S
      PROVE  /\ Append(s, x) \in Seq(S) \ {<<>>}
             /\ Front(Append(s, x)) = s /\ Last(Append(s, x)) = x
  BY DEF Front, Last
<1>. QED  BY <1>1, <1>2

(* What a part of the document does to its lines. *)
LEMMA PartFacts ==
  ASSUME NEW ls \in Pages, NEW p \in Nat
  PROVE  /\ WithPart(ls, p) \in Pages
         /\ p = Newline => Front(WithPart(ls, p)) = ls /\ Last(WithPart(ls, p)) = <<>>
         /\ p # Newline => /\ Front(WithPart(ls, p)) = Front(ls)
                           /\ Last(WithPart(ls, p)) = Append(Last(ls), p)
<1>1. /\ ls \in Seq(Seq(Nat)) /\ ls # <<>> /\ <<>> \in Seq(Nat)
      /\ Front(ls) \in Seq(Seq(Nat)) /\ Last(ls) \in Seq(Nat)
  BY FrontAndLast DEF Pages
<1>2. Append(Last(ls), p) \in Seq(Nat)
  BY <1>1
<1>3. /\ Append(ls, <<>>) \in Pages
      /\ Front(Append(ls, <<>>)) = ls /\ Last(Append(ls, <<>>)) = <<>>
  BY <1>1, FrontAndLast DEF Pages
<1>4. LET new == Append(Front(ls), Append(Last(ls), p)) IN
      /\ new \in Pages /\ Front(new) = Front(ls) /\ Last(new) = Append(Last(ls), p)
  <2> DEFINE front == Front(ls)
             line  == Append(Last(ls), p)
  <2>1. front \in Seq(Seq(Nat)) /\ line \in Seq(Nat)
    BY <1>1, <1>2
  <2> HIDE DEF front, line
  <2>2. /\ Append(front, line) \in Seq(Seq(Nat)) \ {<<>>}
        /\ Front(Append(front, line)) = front /\ Last(Append(front, line)) = line
    BY <2>1, FrontAndLast
  <2>. QED  BY <2>2 DEF Pages, front, line
<1>5. CASE p = Newline
  BY <1>3, <1>5 DEF WithPart
<1>6. CASE p # Newline
  BY <1>4, <1>6 DEF WithPart
<1>. QED  BY <1>5, <1>6

LEMMA LinesAre ==
  ASSUME NEW ps \in Seq(Nat)
  PROVE  \E f : /\ \A i \in 0 .. Len(ps) :
                      /\ f[i] \in Pages
                      /\ f[i] = IF i = 0 THEN << <<>> >> ELSE WithPart(f[i - 1], ps[i])
                /\ Lines(ps) = f[Len(ps)]
<1> DEFINE before == CHOOSE f : f = [i \in 0 .. Len(ps) |->
                        IF i = 0 THEN << <<>> >> ELSE WithPart(f[i - 1], ps[i])]
           step == [x \in Pages \X Nat |-> WithPart(x[1], x[2])]
<1>1. Lines(ps) = before[Len(ps)]
  BY DEF Lines
<1>2. step \in [Pages \X Nat -> Pages] /\ \A ls \in Pages, p \in Nat : step[<<ls, p>>] = WithPart(ls, p)
  BY PartFacts
<1>3. << <<>> >> \in Pages
  BY DEF Pages
<1> HIDE DEF step
<1>r. PICK f : RunsTo(f, Len(ps), Pages, << <<>> >>, step, ps)
  BY <1>2, <1>3, RunExists
<1>4. \A i \in 0 .. Len(ps) :
            /\ f[i] \in Pages
            /\ f[i] = IF i = 0 THEN << <<>> >> ELSE step[<<f[i - 1], ps[i]>>]
  BY <1>r DEF RunsTo
<1>5. \A i \in 0 .. Len(ps) : f[i] = IF i = 0 THEN << <<>> >> ELSE WithPart(f[i - 1], ps[i])
  <2> SUFFICES ASSUME NEW i \in 0 .. Len(ps), i # 0 PROVE f[i] = WithPart(f[i - 1], ps[i])
    BY <1>4
  <2>1. i - 1 \in 0 .. Len(ps) /\ ps[i] \in Nat
    OBVIOUS
  <2>. QED  BY <1>2, <1>4, <2>1
<1> DEFINE g == [i \in 0 .. Len(ps) |-> f[i]]
<1>6. g = [i \in 0 .. Len(ps) |-> IF i = 0 THEN << <<>> >> ELSE WithPart(g[i - 1], ps[i])]
  <2>1. \A i \in 0 .. Len(ps) : g[i] = IF i = 0 THEN << <<>> >> ELSE WithPart(g[i - 1], ps[i])
    BY <1>5
  <2>. QED  BY <2>1
<1> HIDE DEF g
<1>7. before = [i \in 0 .. Len(ps) |-> IF i = 0 THEN << <<>> >> ELSE WithPart(before[i - 1], ps[i])]
  BY <1>6
<1> HIDE DEF before
<1>8. \A i \in 0 .. Len(ps) : before[i] = IF i = 0 THEN << <<>> >> ELSE WithPart(before[i - 1], ps[i])
  BY <1>7, Zenon
<1>9. \A i \in 0 .. Len(ps) : before[i] = f[i]
  <2> SUFFICES ASSUME NEW n \in 0 .. Len(ps) PROVE before[n] = f[n]
    OBVIOUS
  <2>1. n \in Nat /\ before[0] = f[0] /\ \A i \in 1 .. n : i \in 0 .. Len(ps) /\ i # 0
    BY <1>5, <1>8
  <2>2. \A i \in 1 .. n : before[i - 1] = f[i - 1] => before[i] = f[i]
    BY <1>5, <1>8, <2>1
  <2>. QED  BY <2>1, <2>2, RunsAgree
<1>. QED  BY <1>1, <1>4, <1>8, <1>9

LEMMA LinesFacts ==
  /\ Lines(<<>>) = << <<>> >>
  /\ \A ps \in Seq(Nat) : Lines(ps) \in Pages
  /\ \A ps \in Seq(Nat), p \in Nat : Lines(Append(ps, p)) = WithPart(Lines(ps), p)
<1>1. Lines(<<>>) = << <<>> >>
  <2>1. <<>> \in Seq(Nat) /\ Len(<<>>) = 0 /\ 0 \in 0 .. 0
    OBVIOUS
  <2>2. PICK f : /\ \A i \in 0 .. 0 : f[i] = IF i = 0 THEN << <<>> >> ELSE WithPart(f[i - 1], <<>>[i])
                 /\ Lines(<<>>) = f[0]
    BY <2>1, LinesAre, Zenon
  <2>. QED  BY <2>1, <2>2, Zenon
<1>2. ASSUME NEW ps \in Seq(Nat) PROVE Lines(ps) \in Pages
  <2>1. Len(ps) \in 0 .. Len(ps)
    OBVIOUS
  <2>. QED  BY <2>1, LinesAre, Zenon
<1>3. ASSUME NEW ps \in Seq(Nat), NEW p \in Nat
      PROVE  Lines(Append(ps, p)) = WithPart(Lines(ps), p)
  <2> DEFINE longer == Append(ps, p)
             n      == Len(ps)
  <2>1. /\ longer \in Seq(Nat) /\ n \in Nat /\ Len(longer) = n + 1
        /\ \A i \in 1 .. n : longer[i] = ps[i]
        /\ longer[n + 1] = p
    OBVIOUS
  <2> HIDE DEF longer
  <2>2. PICK f : /\ \A i \in 0 .. n : f[i] = IF i = 0 THEN << <<>> >> ELSE WithPart(f[i - 1], ps[i])
                 /\ Lines(ps) = f[n]
    BY LinesAre, Zenon
  <2> HIDE DEF n
  <2>3. PICK g : /\ \A i \in 0 .. n + 1 : g[i] = IF i = 0 THEN << <<>> >> ELSE WithPart(g[i - 1], longer[i])
                 /\ Lines(longer) = g[n + 1]
    BY <2>1, LinesAre, Zenon
  <2>4. f[0] = g[0] /\ \A i \in 1 .. n : f[i - 1] = g[i - 1] => f[i] = g[i]
    <3>1. 0 \in 0 .. n /\ 0 \in 0 .. n + 1 /\ \A i \in 1 .. n : i \in 0 .. n /\ i \in 0 .. n + 1 /\ i # 0
      BY <2>1
    <3>. QED  BY <2>1, <2>2, <2>3, <3>1, Zenon
  <2>5. f[n] = g[n]
    BY <2>1, <2>4, RunsAgree
  <2>6. n + 1 \in 0 .. n + 1 /\ n + 1 # 0 /\ n + 1 - 1 = n
    BY <2>1
  <2>. QED  BY <2>1, <2>2, <2>3, <2>5, <2>6 DEF longer
<1>. QED  BY <1>1, <1>2, <1>3

(* The same of the loop that squeezes the lines. *)
LEMMA SqueezeTypes ==
  ASSUME NEW out \in Seq(Seq(Nat)), NEW line \in Seq(Nat)
  PROVE  Squeeze(out, line) \in Seq(Seq(Nat))
BY DEF Squeeze

LEMMA SqueezedAre ==
  ASSUME NEW ls \in Seq(Seq(Nat))
  PROVE  \E f : /\ \A i \in 0 .. Len(ls) :
                      f[i] = IF i = 0 THEN <<>> ELSE Squeeze(f[i - 1], ls[i])
                /\ Squeezed(ls) = f[Len(ls)]
<1> DEFINE before == CHOOSE f : f = [i \in 0 .. Len(ls) |->
                        IF i = 0 THEN <<>> ELSE Squeeze(f[i - 1], ls[i])]
           step == [x \in Seq(Seq(Nat)) \X Seq(Nat) |-> Squeeze(x[1], x[2])]
<1>1. Squeezed(ls) = before[Len(ls)]
  BY DEF Squeezed
<1>2. /\ step \in [Seq(Seq(Nat)) \X Seq(Nat) -> Seq(Seq(Nat))]
      /\ \A out \in Seq(Seq(Nat)), line \in Seq(Nat) : step[<<out, line>>] = Squeeze(out, line)
  BY SqueezeTypes
<1>3. <<>> \in Seq(Seq(Nat))
  OBVIOUS
<1> HIDE DEF step
<1>r. PICK f : RunsTo(f, Len(ls), Seq(Seq(Nat)), <<>>, step, ls)
  BY <1>2, <1>3, RunExists
<1>4. \A i \in 0 .. Len(ls) :
            /\ f[i] \in Seq(Seq(Nat))
            /\ f[i] = IF i = 0 THEN <<>> ELSE step[<<f[i - 1], ls[i]>>]
  BY <1>r DEF RunsTo
<1>5. \A i \in 0 .. Len(ls) : f[i] = IF i = 0 THEN <<>> ELSE Squeeze(f[i - 1], ls[i])
  <2> SUFFICES ASSUME NEW i \in 0 .. Len(ls), i # 0 PROVE f[i] = Squeeze(f[i - 1], ls[i])
    BY <1>4
  <2>1. i - 1 \in 0 .. Len(ls) /\ ls[i] \in Seq(Nat)
    OBVIOUS
  <2>. QED  BY <1>2, <1>4, <2>1
<1> DEFINE g == [i \in 0 .. Len(ls) |-> f[i]]
<1>6. g = [i \in 0 .. Len(ls) |-> IF i = 0 THEN <<>> ELSE Squeeze(g[i - 1], ls[i])]
  <2>1. \A i \in 0 .. Len(ls) : g[i] = IF i = 0 THEN <<>> ELSE Squeeze(g[i - 1], ls[i])
    BY <1>5
  <2>. QED  BY <2>1
<1> HIDE DEF g
<1>7. before = [i \in 0 .. Len(ls) |-> IF i = 0 THEN <<>> ELSE Squeeze(before[i - 1], ls[i])]
  BY <1>6
<1> HIDE DEF before
<1>8. \A i \in 0 .. Len(ls) : before[i] = IF i = 0 THEN <<>> ELSE Squeeze(before[i - 1], ls[i])
  BY <1>7, Zenon
<1>. QED  BY <1>1, <1>8

LEMMA SqueezedFacts ==
  /\ Squeezed(<<>>) = <<>>
  /\ \A ls \in Seq(Seq(Nat)), line \in Seq(Nat) :
        Squeezed(Append(ls, line)) = Squeeze(Squeezed(ls), line)
<1>1. Squeezed(<<>>) = <<>>
  <2>1. <<>> \in Seq(Seq(Nat)) /\ Len(<<>>) = 0 /\ 0 \in 0 .. 0
    OBVIOUS
  <2>2. PICK f : /\ \A i \in 0 .. 0 : f[i] = IF i = 0 THEN <<>> ELSE Squeeze(f[i - 1], <<>>[i])
                 /\ Squeezed(<<>>) = f[0]
    BY <2>1, SqueezedAre, Zenon
  <2>. QED  BY <2>1, <2>2, Zenon
<1>2. ASSUME NEW ls \in Seq(Seq(Nat)), NEW line \in Seq(Nat)
      PROVE  Squeezed(Append(ls, line)) = Squeeze(Squeezed(ls), line)
  <2> DEFINE longer == Append(ls, line)
             n      == Len(ls)
  <2>1. /\ longer \in Seq(Seq(Nat)) /\ n \in Nat /\ Len(longer) = n + 1
        /\ \A i \in 1 .. n : longer[i] = ls[i]
        /\ longer[n + 1] = line
    OBVIOUS
  <2> HIDE DEF longer
  <2>2. PICK f : /\ \A i \in 0 .. n : f[i] = IF i = 0 THEN <<>> ELSE Squeeze(f[i - 1], ls[i])
                 /\ Squeezed(ls) = f[n]
    BY SqueezedAre, Zenon
  <2> HIDE DEF n
  <2>3. PICK g : /\ \A i \in 0 .. n + 1 : g[i] = IF i = 0 THEN <<>> ELSE Squeeze(g[i - 1], longer[i])
                 /\ Squeezed(longer) = g[n + 1]
    BY <2>1, SqueezedAre, Zenon
  <2>4. f[0] = g[0] /\ \A i \in 1 .. n : f[i - 1] = g[i - 1] => f[i] = g[i]
    <3>1. 0 \in 0 .. n /\ 0 \in 0 .. n + 1 /\ \A i \in 1 .. n : i \in 0 .. n /\ i \in 0 .. n + 1 /\ i # 0
      BY <2>1
    <3>. QED  BY <2>1, <2>2, <2>3, <3>1, Zenon
  <2>5. f[n] = g[n]
    BY <2>1, <2>4, RunsAgree
  <2>6. n + 1 \in 0 .. n + 1 /\ n + 1 # 0 /\ n + 1 - 1 = n
    BY <2>1
  <2>. QED  BY <2>1, <2>2, <2>3, <2>5, <2>6 DEF longer
<1>. QED  BY <1>1, <1>2

(* A further piece of data, whether it is kept and visible or neither.      *)
LEMMA ReadsOn ==
  ASSUME NEW out, NEW line, NEW top \in Nat, NEW seen, NEW para, NEW count \in Nat, NEW how,
         Filed(out, top, seen, para, how), Reading(out, line, top, seen, para, count, how),
         NEW seen2, NEW para2, seen2 = seen \/ seen2 = seen \cup {top + 1},
         \A n \in seen : para2[n] = para[n],
         top + 1 \in seen2 => para2[top + 1] = count
  PROVE  /\ Filed(out, top + 1, seen2, para2, how)
         /\ Reading(out, line, top + 1, seen2, para2, count, how)
         /\ Reading(out, Append(line, top + 1), top + 1, seen2, para2, count, how)
         /\ ToSet(Append(line, top + 1)) = ToSet(line) \cup {top + 1}
<1> DEFINE more == Append(line, top + 1)
<1>1. /\ out \in Seq(Seq(Nat)) /\ line \in Seq(Nat)
      /\ All(out) \subseteq 1 .. top /\ ToSet(line) \subseteq 1 .. top
  BY DEF Filed, Reading
<1>2. 1 .. top \subseteq 1 .. top + 1 /\ top + 1 \notin 1 .. top /\ top + 1 \in 1 .. top + 1 /\ top + 1 \in Nat
  OBVIOUS
<1>3. more \in Seq(Nat) /\ ToSet(more) = ToSet(line) \cup {top + 1}
  <2>1. line \in Seq(Nat) /\ top + 1 \in Nat
    BY <1>1, <1>2
  <2>. QED  BY <2>1, ToSetOfAppend
<1>4. /\ DOMAIN line = 1 .. Len(line) /\ DOMAIN more = 1 .. Len(line) + 1 /\ Len(line) \in Nat
      /\ \A k \in DOMAIN line : more[k] = line[k] /\ line[k] \in ToSet(line)
      /\ more[Len(line) + 1] = top + 1
  BY <1>1 DEF ToSet
<1> HIDE DEF more
<1>5. \A S \in SUBSET (1 .. top) : \A n \in S \cap seen2 : n \in seen /\ para2[n] = para[n]
  BY <1>2
<1>6. \A i \in DOMAIN out : ToSet(out[i]) \in SUBSET (1 .. top)
  BY <1>1 DEF All
<1>7. ASSUME NEW i \in DOMAIN out, NEW j \in DOMAIN out,
             NEW m \in ToSet(out[i]) \cap seen2, NEW n \in ToSet(out[j]) \cap seen2
      PROVE  /\ i = j => para2[m] = para2[n]
             /\ how = "exact" => (para2[m] = para2[n] => i = j)
  <2>1. m \in seen /\ para2[m] = para[m] /\ n \in seen /\ para2[n] = para[n]
    BY <1>5, <1>6
  <2>2. /\ i = j => para[m] = para[n]
        /\ how = "exact" => (para[m] = para[n] => i = j)
    BY <2>1 DEF Filed
  <2>. QED  BY <2>1, <2>2
<1>8. Filed(out, top + 1, seen2, para2, how)
  BY <1>1, <1>2, <1>7 DEF Filed
<1>9. /\ \A n \in ToSet(line) \cap seen2 : para2[n] = count
      /\ \A n \in All(out) \cap seen2 : para2[n] \in 0 .. count /\ (how = "exact" => para2[n] # count)
  BY <1>1, <1>5 DEF Reading
<1>10. /\ \A k, l \in DOMAIN line : k < l => line[k] < line[l]
       /\ \A m \in All(out), n \in ToSet(line) : m < n
  BY DEF Reading
<1>11. Reading(out, line, top + 1, seen2, para2, count, how)
  BY <1>1, <1>2, <1>9, <1>10 DEF Reading
<1>12. ASSUME NEW k \in DOMAIN more, NEW l \in DOMAIN more, k < l PROVE more[k] < more[l]
  <2>1. k \in DOMAIN line
    BY <1>4, <1>12
  <2>2. CASE l \in DOMAIN line
    BY <1>4, <1>10, <1>12, <2>1, <2>2
  <2>3. CASE l = Len(line) + 1
    <3>1. more[k] \in 1 .. top /\ more[l] = top + 1
      BY <1>1, <1>4, <2>1, <2>3
    <3>. QED  BY <3>1
  <2>. QED  BY <1>4, <2>2, <2>3
<1>13. /\ ToSet(more) \subseteq 1 .. top + 1
       /\ \A n \in ToSet(more) \cap seen2 : para2[n] = count
  BY <1>1, <1>2, <1>3, <1>9
<1>14. \A m \in All(out), n \in ToSet(more) : m < n
  BY <1>1, <1>3, <1>10
<1>15. Reading(out, more, top + 1, seen2, para2, count, how)
  BY <1>3, <1>9, <1>12, <1>13, <1>14 DEF Reading
<1>. QED  BY <1>3, <1>8, <1>11, <1>15 DEF more

(* The end of a line: what comes next is another paragraph, or, where that  *)
(* is not exact, more of the same.                                          *)
LEMMA LineEnds ==
  ASSUME NEW out, NEW line, NEW top \in Nat, NEW seen, NEW para, NEW count \in Nat, NEW how,
         Filed(out, top, seen, para, how), Reading(out, line, top, seen, para, count, how)
  PROVE  /\ Filed(Squeeze(out, line), top + 1, seen, para, how)
         /\ Reading(Squeeze(out, line), <<>>, top + 1, seen, para, count + 1, how)
         /\ ~how = "exact" => Reading(Squeeze(out, line), <<>>, top + 1, seen, para, count, how)
         /\ All(Squeeze(out, line)) = All(out) \cup ToSet(line)
<1>1. /\ Filed(Squeeze(out, line), top, seen, para, how)
      /\ All(Squeeze(out, line)) = All(out) \cup ToSet(line)
      /\ \A n \in All(Squeeze(out, line)) \cap seen : para[n] \in 0 .. count
  BY SqueezeFiles
<1>2. /\ 1 .. top \subseteq 1 .. top + 1
      /\ \A n \in 0 .. count : n \in 0 .. count + 1 /\ n # count + 1
  OBVIOUS
<1>3. Filed(Squeeze(out, line), top + 1, seen, para, how)
  BY <1>1, <1>2 DEF Filed
<1>4. Reading(Squeeze(out, line), <<>>, top + 1, seen, para, count + 1, how)
  BY <1>1, <1>2, EmptyList DEF Reading
<1>5. ASSUME how # "exact" PROVE Reading(Squeeze(out, line), <<>>, top + 1, seen, para, count, how)
  BY <1>1, <1>2, <1>5, EmptyList DEF Reading
<1>. QED  BY <1>1, <1>3, <1>4, <1>5

(***************************************************************************)
(* The invariant of the layout: a line never crosses a block-level tag, and *)
(* without faults it is broken at exactly these and the visible newlines.   *)
(***************************************************************************)
Page    == Lines(parts)
Out     == Squeezed(Front(Page))
Current == Last(Page)
LayoutInv ==
    /\ blocks \in Nat /\ DOMAIN paragraph = visible
    /\ breaks \in Nat /\ DOMAIN lineAt = visible
    /\ Filed(Out, fed, visible, paragraph, "loose")
    /\ Reading(Out, Current, fed, visible, paragraph, blocks, "loose")
    /\ faults = {} => /\ Filed(Out, fed, visible, lineAt, "exact")
                      /\ Reading(Out, Current, fed, visible, lineAt, breaks, "exact")
    /\ All(Out) \cup ToSet(Current) = Kept

LEMMA PageFacts ==
  ASSUME HtmlTypes, NEW p \in Nat
  PROVE  /\ Page \in Pages
         /\ parts' = parts => Page' = Page /\ Out' = Out /\ Current' = Current
         /\ parts' = Append(parts, p) =>
               /\ p = Newline => Out' = Squeeze(Out, Current) /\ Current' = <<>>
               /\ p # Newline => Out' = Out /\ Current' = Append(Current, p)
<1>1. parts \in Seq(Nat)
  BY DEF HtmlTypes
<1>2. Page \in Pages
  BY <1>1, LinesFacts DEF Page
<1>3. parts' = parts => Page' = Page /\ Out' = Out /\ Current' = Current
  BY DEF Page, Out, Current
<1>4. ASSUME parts' = Append(parts, p)
      PROVE  /\ p = Newline => Out' = Squeeze(Out, Current) /\ Current' = <<>>
             /\ p # Newline => Out' = Out /\ Current' = Append(Current, p)
  <2>1. Page' = WithPart(Page, p)
    BY <1>1, <1>4, LinesFacts DEF Page
  <2>2. CASE p = Newline
    <3>1. Front(Page') = Page /\ Last(Page') = <<>>
      BY <1>2, <2>1, <2>2, PartFacts
    <3>2. /\ Front(Page) \in Seq(Seq(Nat)) /\ Last(Page) \in Seq(Nat)
          /\ Page = Append(Front(Page), Last(Page))
      BY <1>2, FrontAndLast DEF Pages
    <3>3. Squeezed(Page) = Squeeze(Squeezed(Front(Page)), Last(Page))
      BY <3>2, SqueezedFacts
    <3>4. Out' = Squeeze(Out, Current) /\ Current' = <<>>
      BY <3>1, <3>3 DEF Out, Current
    <3>. QED  BY <2>2, <3>4
  <2>3. CASE p # Newline
    <3>1. Front(Page') = Front(Page) /\ Last(Page') = Append(Last(Page), p)
      BY <1>2, <2>1, <2>3, PartFacts
    <3>. QED  BY <2>3, <3>1 DEF Out, Current
  <2>. QED  BY <2>2, <2>3
<1>. QED  BY <1>2, <1>3, <1>4

LEMMA LayoutInit == HtmlInit => LayoutInv
<1> SUFFICES ASSUME HtmlInit PROVE LayoutInv
  OBVIOUS
<1>1. Page = << <<>> >>
  BY LinesFacts DEF HtmlInit, Page
<1>2. Front(<< <<>> >>) = <<>> /\ Last(<< <<>> >>) = <<>>
  BY DEF Front, Last
<1>3. Out = <<>> /\ Current = <<>>
  BY <1>1, <1>2, SqueezedFacts DEF Out, Current
<1>4. All(<<>>) = {} /\ <<>> \in Seq(Seq(Nat)) /\ <<>> \in Seq(Nat) /\ Len(<<>>) = 0
  BY EmptyList DEF All
<1>5. /\ blocks = 0 /\ visible = {} /\ DOMAIN paragraph = {} /\ Kept = {}
      /\ breaks = 0 /\ DOMAIN lineAt = {}
  BY EmptyList DEF HtmlInit, Kept
<1>6. \A para, how : Filed(<<>>, fed, visible, para, how)
  BY <1>4, <1>5, EmptyList DEF Filed
<1>7. \A para, count, how : Reading(<<>>, <<>>, fed, visible, para, count, how)
  BY <1>4, <1>5, EmptyList DEF Reading
<1>. QED  BY <1>3, <1>4, <1>5, <1>6, <1>7, EmptyList DEF LayoutInv

(* Where a line is broken, and where it is not. *)
LEMMA BreakLaysOut ==
  ASSUME HtmlTypes, LayoutInv, fed' = fed + 1, parts' = Append(parts, Newline), Kept' = Kept,
         UNCHANGED <<visible, paragraph, lineAt>>,
         blocks' = blocks \/ blocks' = blocks + 1, breaks' \in Nat,
         faults' = {} => faults = {} /\ breaks' = breaks + 1
  PROVE  LayoutInv'
<1>1. fed \in Nat /\ blocks \in Nat /\ breaks \in Nat /\ Newline \in Nat
  BY DEF HtmlTypes, LayoutInv, Newline
<1>2. Out' = Squeeze(Out, Current) /\ Current' = <<>>
  BY <1>1, PageFacts
<1>3. /\ Filed(Squeeze(Out, Current), fed + 1, visible, paragraph, "loose")
      /\ Reading(Squeeze(Out, Current), <<>>, fed + 1, visible, paragraph, blocks + 1, "loose")
      /\ Reading(Squeeze(Out, Current), <<>>, fed + 1, visible, paragraph, blocks, "loose")
      /\ All(Squeeze(Out, Current)) = All(Out) \cup ToSet(Current)
  BY <1>1, LineEnds DEF LayoutInv
<1>4. ASSUME faults' = {}
      PROVE  /\ Filed(Squeeze(Out, Current), fed + 1, visible, lineAt, "exact")
             /\ Reading(Squeeze(Out, Current), <<>>, fed + 1, visible, lineAt, breaks + 1, "exact")
  BY <1>1, <1>4, LineEnds DEF LayoutInv
<1>5. /\ Filed(Out', fed', visible', paragraph', "loose")
      /\ Reading(Out', Current', fed', visible', paragraph', blocks', "loose")
  BY <1>2, <1>3
<1>6. faults' = {} => /\ Filed(Out', fed', visible', lineAt', "exact")
                      /\ Reading(Out', Current', fed', visible', lineAt', breaks', "exact")
  BY <1>2, <1>4
<1>7. All(Out') \cup ToSet(Current') = Kept'
  BY <1>2, <1>3, EmptyList DEF LayoutInv
<1>8. /\ blocks' \in Nat /\ DOMAIN paragraph' = visible'
      /\ breaks' \in Nat /\ DOMAIN lineAt' = visible'
  BY <1>1 DEF LayoutInv
<1>. QED  BY <1>5, <1>6, <1>7, <1>8 DEF LayoutInv

LEMMA NothingLaysOut ==
  ASSUME HtmlTypes, LayoutInv, fed' = fed + 1,
         UNCHANGED <<parts, visible, paragraph, lineAt, blocks>>, Kept' = Kept,
         breaks' \in Nat, faults' = {} => faults = {} /\ breaks' = breaks
  PROVE  LayoutInv'
<1>1. fed \in Nat /\ blocks \in Nat /\ breaks \in Nat /\ Newline \in Nat /\ fed + 1 \notin visible
  BY DEF HtmlTypes, LayoutInv, Newline
<1>2. Out' = Out /\ Current' = Current
  BY <1>1, PageFacts
<1>3. /\ Filed(Out, fed + 1, visible, paragraph, "loose")
      /\ Reading(Out, Current, fed + 1, visible, paragraph, blocks, "loose")
  BY <1>1, ReadsOn DEF LayoutInv
<1>4. ASSUME faults' = {}
      PROVE  /\ Filed(Out, fed + 1, visible, lineAt, "exact")
             /\ Reading(Out, Current, fed + 1, visible, lineAt, breaks, "exact")
  BY <1>1, <1>4, ReadsOn DEF LayoutInv
<1>5. /\ Filed(Out', fed', visible', paragraph', "loose")
      /\ Reading(Out', Current', fed', visible', paragraph', blocks', "loose")
  BY <1>2, <1>3
<1>6. faults' = {} => /\ Filed(Out', fed', visible', lineAt', "exact")
                      /\ Reading(Out', Current', fed', visible', lineAt', breaks', "exact")
  BY <1>2, <1>4
<1>7. All(Out') \cup ToSet(Current') = Kept'
  BY <1>2 DEF LayoutInv
<1>. QED  BY <1>1, <1>5, <1>6, <1>7 DEF LayoutInv

LEMMA TagLaysOut ==
  ASSUME HtmlTypes, LayoutInv, NEW tag \in Tags, fed' = fed + 1,
         LineAt(tag), CountBlock(tag), UNCHANGED <<visible, paragraph, lineAt>>,
         faults \subseteq faults'
  PROVE  LayoutInv'
<1>1. Kept' = Kept /\ breaks \in Nat
  BY LineFacts DEF LayoutInv
<1>2. CASE tag \in BlockTags
  <2>1. blocks' = blocks + 1 /\ breaks' = breaks + 1 /\ parts' = Append(parts, Newline)
    BY <1>2 DEF CountBlock, LineAt
  <2>. QED  BY <1>1, <2>1, BreakLaysOut
<1>3. CASE tag \notin BlockTags
  <2>1. blocks' = blocks /\ breaks' = breaks /\ parts' = parts
    BY <1>3 DEF CountBlock, LineAt
  <2>. QED  BY <1>1, <2>1, NothingLaysOut
<1>. QED  BY <1>2, <1>3

LEMMA PieceLaysOut ==
  ASSUME HtmlTypes, LayoutInv, Piece
  PROVE  LayoutInv'
<1>1. /\ fed \in Nat /\ fed' = fed + 1 /\ fed' \in Nat /\ fed' # Newline
      /\ blocks' = blocks /\ blocks \in Nat /\ breaks' = breaks /\ breaks \in Nat /\ faults' = faults
      /\ visible \subseteq 1 .. fed /\ DOMAIN paragraph = visible /\ DOMAIN lineAt = visible
      /\ parts \in Seq(Nat)
  BY DEF HtmlTypes, LayoutInv, Piece, Feed, Newline
<1>2. \/ visible' = visible /\ paragraph' = paragraph /\ lineAt' = lineAt
      \/ /\ visible' = visible \cup {fed'}
         /\ paragraph' = [n \in visible' |-> IF n = fed' THEN blocks ELSE paragraph[n]]
         /\ lineAt' = [n \in visible' |-> IF n = fed' THEN breaks ELSE lineAt[n]]
  BY DEF Piece
<1>3. fed' \notin visible
  BY <1>1
<1>4. /\ visible' = visible \/ visible' = visible \cup {fed + 1}
      /\ DOMAIN paragraph' = visible' /\ DOMAIN lineAt' = visible'
      /\ \A n \in visible : paragraph'[n] = paragraph[n] /\ lineAt'[n] = lineAt[n]
      /\ fed + 1 \in visible' => paragraph'[fed + 1] = blocks /\ lineAt'[fed + 1] = breaks
  BY <1>1, <1>2, <1>3
<1>5. ASSUME NEW para, NEW count \in Nat, NEW how,
             Filed(Out, fed, visible, para, how), Reading(Out, Current, fed, visible, para, count, how),
             NEW seen, NEW para2, seen = visible \/ seen = visible \cup {fed + 1},
             \A n \in visible : para2[n] = para[n],
             fed + 1 \in seen => para2[fed + 1] = count
      PROVE  /\ Filed(Out, fed + 1, seen, para2, how)
             /\ Reading(Out, Current, fed + 1, seen, para2, count, how)
             /\ Reading(Out, Append(Current, fed + 1), fed + 1, seen, para2, count, how)
             /\ ToSet(Append(Current, fed + 1)) = ToSet(Current) \cup {fed + 1}
  <2>1. fed \in Nat
    BY <1>1
  <2>. QED  BY <1>5, <2>1, ReadsOn
<1>6. /\ Filed(Out, fed + 1, visible', paragraph', "loose")
      /\ Reading(Out, Current, fed + 1, visible', paragraph', blocks, "loose")
      /\ Reading(Out, Append(Current, fed + 1), fed + 1, visible', paragraph', blocks, "loose")
      /\ ToSet(Append(Current, fed + 1)) = ToSet(Current) \cup {fed + 1}
  <2>1. /\ Filed(Out, fed, visible, paragraph, "loose")
        /\ Reading(Out, Current, fed, visible, paragraph, blocks, "loose")
    BY DEF LayoutInv
  <2>. QED  BY <1>1, <1>4, <1>5, <2>1, Zenon
<1>7. ASSUME faults = {}
      PROVE  /\ Filed(Out, fed + 1, visible', lineAt', "exact")
             /\ Reading(Out, Current, fed + 1, visible', lineAt', breaks, "exact")
             /\ Reading(Out, Append(Current, fed + 1), fed + 1, visible', lineAt', breaks, "exact")
  <2>1. /\ Filed(Out, fed, visible, lineAt, "exact")
        /\ Reading(Out, Current, fed, visible, lineAt, breaks, "exact")
    BY <1>7 DEF LayoutInv
  <2>. QED  BY <1>1, <1>4, <1>5, <2>1, Zenon
<1>8. CASE parts' = parts
  <2>1. Out' = Out /\ Current' = Current
    BY <1>8, PageFacts
  <2>2. Kept' = Kept
    BY <1>1, <1>8 DEF Kept, HtmlTypes
  <2>3. /\ Filed(Out', fed', visible', paragraph', "loose")
        /\ Reading(Out', Current', fed', visible', paragraph', blocks', "loose")
        /\ All(Out') \cup ToSet(Current') = Kept'
    BY <1>1, <1>6, <2>1, <2>2 DEF LayoutInv
  <2>4. faults' = {} => /\ Filed(Out', fed', visible', lineAt', "exact")
                        /\ Reading(Out', Current', fed', visible', lineAt', breaks', "exact")
    BY <1>1, <1>7, <2>1
  <2>. QED  BY <1>1, <1>4, <2>3, <2>4 DEF LayoutInv
<1>9. CASE parts' = Append(parts, fed')
  <2>1. Out' = Out /\ Current' = Append(Current, fed')
    BY <1>1, <1>9, PageFacts
  <2>2. ToSet(parts') = ToSet(parts) \cup {fed'}
    BY <1>1, <1>9, ToSetOfAppend
  <2>3. Kept' = Kept \cup {fed'}
    BY <1>1, <2>2 DEF Kept, HtmlTypes
  <2>4. /\ Filed(Out', fed', visible', paragraph', "loose")
        /\ Reading(Out', Current', fed', visible', paragraph', blocks', "loose")
        /\ All(Out') \cup ToSet(Current') = Kept'
    BY <1>1, <1>6, <2>1, <2>3 DEF LayoutInv
  <2>5. faults' = {} => /\ Filed(Out', fed', visible', lineAt', "exact")
                        /\ Reading(Out', Current', fed', visible', lineAt', breaks', "exact")
    BY <1>1, <1>7, <2>1
  <2>. QED  BY <1>1, <1>4, <2>4, <2>5 DEF LayoutInv
<1>10. parts' = parts \/ parts' = Append(parts, fed')
  BY DEF Piece, handle_data
<1>. QED  BY <1>8, <1>9, <1>10

(* Without faults the newlines that are kept are those that are visible. *)
LEMMA LineFeedLaysOut ==
  ASSUME HtmlTypes, ParserInv, LayoutInv, LineFeed
  PROVE  LayoutInv'
<1>1. /\ fed' = fed + 1 /\ Kept' = Kept
      /\ parts' = IF ~in_title /\ skip_depth = 0 THEN Append(parts, Newline) ELSE parts
  BY LineFeedFacts
<1>2. /\ breaks' = IF Hidden THEN breaks ELSE breaks + 1
      /\ breaks \in Nat /\ breaks' \in Nat
      /\ UNCHANGED <<faults, visible, blocks, paragraph, lineAt>>
  BY DEF LineFeed, LayoutInv
<1>3. faults = {} => (Hidden <=> in_title \/ skip_depth # 0)
  BY DepthFacts DEF Hidden, InTitle, ParserInv, HtmlTypes
<1>4. CASE ~in_title /\ skip_depth = 0
  <2>1. parts' = Append(parts, Newline)
    BY <1>1, <1>4
  <2>2. faults' = {} => faults = {} /\ breaks' = breaks + 1
    BY <1>2, <1>3, <1>4
  <2>. QED  BY <1>1, <1>2, <2>1, <2>2, BreakLaysOut
<1>5. CASE in_title \/ skip_depth # 0
  <2>1. parts' = parts
    BY <1>1, <1>5
  <2>2. faults' = {} => faults = {} /\ breaks' = breaks
    BY <1>2, <1>3, <1>5
  <2>. QED  BY <1>1, <1>2, <2>1, <2>2, NothingLaysOut
<1>. QED  BY <1>4, <1>5

LEMMA LayoutStep == HtmlTypes /\ ParserInv /\ LayoutInv /\ [HtmlNext]_htmlVars => LayoutInv'
<1> SUFFICES ASSUME HtmlTypes, ParserInv, LayoutInv, [HtmlNext]_htmlVars PROVE LayoutInv'
  OBVIOUS
<1>1. ASSUME NEW tag \in Tags, Starts(tag) PROVE LayoutInv'
  <2>1. /\ fed' = fed + 1 /\ LineAt(tag) /\ CountBlock(tag)
        /\ UNCHANGED <<visible, paragraph, lineAt>> /\ faults \subseteq faults'
    BY <1>1, Zenon DEF Starts, Feed, handle_starttag
  <2>. QED  BY <2>1, TagLaysOut
<1>2. ASSUME NEW tag \in Tags, Ends(tag) PROVE LayoutInv'
  <2>1. /\ fed' = fed + 1 /\ LineAt(tag) /\ CountBlock(tag) /\ UNCHANGED <<visible, paragraph, lineAt>>
    BY <1>2, Zenon DEF Ends, Feed, handle_endtag
  <2>2. faults \subseteq faults'
    BY <1>2, EndsFacts
  <2>. QED  BY <2>1, <2>2, TagLaysOut
<1>3. CASE Piece
  BY <1>3, PieceLaysOut
<1>4. CASE LineFeed
  BY <1>4, LineFeedLaysOut
<1>5. CASE UNCHANGED htmlVars
  BY <1>5 DEF htmlVars, LayoutInv, Page, Out, Current, Kept
<1>. QED  BY <1>1, <1>2, <1>3, <1>4, <1>5 DEF HtmlNext, Data

(* Stripping a text takes a blank last line only. *)
LEMMA StripFiles ==
  ASSUME NEW out, NEW top \in Nat, NEW seen, NEW para, NEW how, Filed(out, top, seen, para, how)
  PROVE  Filed(Stripped(out), top, seen, para, how) /\ All(Stripped(out)) = All(out)
<1>1. CASE out # <<>> /\ Last(out) = <<>>
  <2>1. out \in Seq(Seq(Nat)) /\ <<>> \in Seq(Nat)
    BY DEF Filed
  <2>2. Stripped(out) = Front(out) /\ Front(out) \in Seq(Seq(Nat)) /\ out = Append(Front(out), <<>>)
    BY <1>1, <2>1, FrontAndLast DEF Stripped
  <2>3. All(Stripped(out)) = All(out)
    BY <2>1, <2>2, AllOfAppend, EmptyList
  <2> DEFINE text == Stripped(out)
  <2>4. /\ text \in Seq(Seq(Nat)) /\ Len(text) \in Nat /\ DOMAIN text = 1 .. Len(text)
        /\ DOMAIN out = 1 .. Len(text) + 1 /\ Len(out) = Len(text) + 1
        /\ \A i \in 1 .. Len(text) : text[i] = out[i]
    <3>1. text \in Seq(Seq(Nat)) /\ out = Append(text, <<>>)
      BY <2>2
    <3> HIDE DEF text
    <3>. QED  BY <2>1, <3>1
  <2> HIDE DEF text
  <2>5. /\ \A i \in DOMAIN text : i \in DOMAIN out /\ text[i] = out[i]
        /\ \A i \in 1 .. Len(text) - 1 : /\ i \in 1 .. Len(out) - 1
                                         /\ text[i] = out[i] /\ text[i + 1] = out[i + 1]
    BY <2>4
  <2>6. \A i, j \in DOMAIN text : \A k \in DOMAIN text[i], l \in DOMAIN text[j] :
            Comes(i, k, j, l) => text[i][k] < text[j][l]
    BY <2>5 DEF Filed
  <2>7. \A i, j \in DOMAIN text : \A m \in ToSet(text[i]) \cap seen, n \in ToSet(text[j]) \cap seen :
            /\ i = j => para[m] = para[n]
            /\ how = "exact" => (para[m] = para[n] => i = j)
    BY <2>5 DEF Filed
  <2>8. \A i \in 1 .. Len(text) - 1 : text[i] # <<>> \/ text[i + 1] # <<>>
    BY <2>5 DEF Filed
  <2>9. All(text) \subseteq 1 .. top
    BY <2>3 DEF Filed, text
  <2>10. Filed(text, top, seen, para, how)
    BY <2>4, <2>6, <2>7, <2>8, <2>9 DEF Filed
  <2>. QED  BY <2>3, <2>10 DEF text
<1>2. CASE ~(out # <<>> /\ Last(out) = <<>>)
  BY <1>2 DEF Stripped
<1>. QED  BY <1>1, <1>2

LEMMA LayoutIsText == HtmlTypes /\ LayoutInv => ParagraphsAreKept
<1> SUFFICES ASSUME HtmlTypes, LayoutInv PROVE ParagraphsAreKept
  OBVIOUS
<1>1. Page \in Pages /\ fed \in Nat /\ blocks \in Nat
  BY PageFacts DEF HtmlTypes, LayoutInv
<1>2. Squeezed(Page) = Squeeze(Out, Current)
  <2>1. /\ Front(Page) \in Seq(Seq(Nat)) /\ Last(Page) \in Seq(Nat)
        /\ Page = Append(Front(Page), Last(Page))
    BY <1>1, FrontAndLast DEF Pages
  <2>. QED  BY <2>1, SqueezedFacts DEF Out, Current
<1>3. /\ Filed(Squeezed(Page), fed, visible, paragraph, "loose")
      /\ All(Squeezed(Page)) = Kept
      /\ faults = {} => Filed(Squeezed(Page), fed, visible, lineAt, "exact")
  <2>1. Filed(Squeezed(Page), fed, visible, paragraph, "loose") /\ All(Squeezed(Page)) = Kept
    <3>1. /\ Filed(Out, fed, visible, paragraph, "loose")
          /\ Reading(Out, Current, fed, visible, paragraph, blocks, "loose")
          /\ All(Out) \cup ToSet(Current) = Kept
      BY DEF LayoutInv
    <3>2. /\ Filed(Squeeze(Out, Current), fed, visible, paragraph, "loose")
          /\ All(Squeeze(Out, Current)) = All(Out) \cup ToSet(Current)
      BY <1>1, <3>1, SqueezeFiles
    <3>. QED  BY <1>2, <3>1, <3>2
  <2>2. ASSUME faults = {} PROVE Filed(Squeezed(Page), fed, visible, lineAt, "exact")
    <3>1. /\ Filed(Out, fed, visible, lineAt, "exact")
          /\ Reading(Out, Current, fed, visible, lineAt, breaks, "exact") /\ breaks \in Nat
      BY <2>2 DEF LayoutInv
    <3>2. Filed(Squeeze(Out, Current), fed, visible, lineAt, "exact")
      BY <1>1, <3>1, SqueezeFiles
    <3>. QED  BY <1>2, <3>2
  <2>. QED  BY <2>1, <2>2
<1> DEFINE text == get_text
<1>4. /\ Filed(text, fed, visible, paragraph, "loose") /\ All(text) = Kept
      /\ faults = {} => Filed(text, fed, visible, lineAt, "exact")
  BY <1>1, <1>3, StripFiles DEF get_text, Page
<1> DEFINE LineOf(n) == CHOOSE i \in DOMAIN text : n \in ToSet(text[i])
<1>5. ParagraphsAreKept <=>
        /\ UNION {ToSet(text[i]) : i \in DOMAIN text} = Kept
        /\ \A i, j \in DOMAIN text : \A k \in DOMAIN text[i], l \in DOMAIN text[j] :
              Comes(i, k, j, l) => text[i][k] < text[j][l]
        /\ \A m, n \in visible \cap Kept :
              /\ LineOf(m) = LineOf(n) => paragraph[m] = paragraph[n]
              /\ faults = {} => (LineOf(m) = LineOf(n) <=> lineAt[m] = lineAt[n])
        /\ \A i \in 1 .. Len(text) - 1 : text[i] # <<>> \/ text[i + 1] # <<>>
  BY DEF ParagraphsAreKept
<1> HIDE DEF text
<1>6. \A n \in Kept : LineOf(n) \in DOMAIN text /\ n \in ToSet(text[LineOf(n)])
  BY <1>4 DEF All
<1> HIDE DEF LineOf
<1>7. ASSUME NEW m \in visible \cap Kept, NEW n \in visible \cap Kept
      PROVE  /\ LineOf(m) = LineOf(n) => paragraph[m] = paragraph[n]
             /\ faults = {} => (LineOf(m) = LineOf(n) <=> lineAt[m] = lineAt[n])
  BY <1>4, <1>6 DEF Filed
<1>. QED  BY <1>4, <1>5, <1>7 DEF Filed, All

(* The text of any document, well-formed or not, has its kept pieces once   *)
(* and in order, no two of the visible ones on a line that a block-level    *)
(* tag came between, and no two blank lines in a row; and of one without    *)
(* stray or crossed end tags its lines are those that block-level tags and  *)
(* the newlines of the visible data make.                                   *)
THEOREM ParagraphsReachText == HtmlSpec => []ParagraphsAreKept
<1>1. HtmlSpec => []LayoutInv
  BY ParserInvariance, LayoutInit, LayoutStep, PTL DEF HtmlSpec
<1>. QED  BY <1>1, ParserInvariance, LayoutIsText, PTL

(***************************************************************************)
(* topic_tags.  The loop is a recursion over the prefixes of a question; it *)
(* has one solution, and so a question that is longer by a word has the     *)
(* tags that one more round of the loop makes of those of the shorter.      *)
(***************************************************************************)
Round(seen, word) == IF Full(seen) \/ Skipped(word, seen) THEN seen ELSE Append(seen, word)
Loop(words, f, i) == IF i = 0 THEN <<>> ELSE Round(f[i - 1], words[i])
Follows(words, f, n) == \A i \in 0 .. n : f[i] = Loop(words, f, i)
Agree(words, others, n) == \A i \in 1 .. n : words[i] = others[i]
Loops(words, f, n) == f = [i \in 0 .. n |-> Loop(words, f, i)]

LEMMA LoopExists ==
  ASSUME NEW words \in Seq(Words)
  PROVE  \A n \in Nat : \E f : Loops(words, f, n)
<1> DEFINE S == {n \in Nat : \E f : Loops(words, f, n)}
<1>1. 0 \in S
  <2> DEFINE f == [i \in 0 .. 0 |-> <<>>]
  <2>1. f = [i \in 0 .. 0 |-> Loop(words, f, i)]
    BY DEF Loop
  <2>. QED  BY <2>1 DEF Loops
<1>2. ASSUME NEW n \in Nat, n \in S PROVE n + 1 \in S
  <2>1. PICK f : f = [i \in 0 .. n |-> Loop(words, f, i)]
    BY <1>2 DEF Loops
  <2> DEFINE g == [i \in 0 .. n + 1 |-> IF i = n + 1 THEN Round(f[n], words[n + 1]) ELSE f[i]]
  <2>2. \A i \in 0 .. n : g[i] = f[i]
    OBVIOUS
  <2>3. g[n + 1] = Round(f[n], words[n + 1]) /\ n + 1 # 0 /\ n + 1 - 1 = n
    OBVIOUS
  <2>4. ASSUME NEW i \in 0 .. n PROVE g[i] = Loop(words, g, i)
    <3>1. f[i] = Loop(words, f, i)
      BY <2>1
    <3>2. i # 0 => i - 1 \in 0 .. n
      OBVIOUS
    <3> HIDE DEF g
    <3>. QED  BY <2>2, <3>1, <3>2 DEF Loop
  <2>5. g[n + 1] = Loop(words, g, n + 1)
    <3> HIDE DEF g
    <3>. QED  BY <2>2, <2>3 DEF Loop
  <2>6. \A i \in 0 .. n + 1 : i \in 0 .. n \/ i = n + 1
    OBVIOUS
  <2>7. g = [i \in 0 .. n + 1 |-> g[i]]
    OBVIOUS
  <2> HIDE DEF g
  <2>8. g = [i \in 0 .. n + 1 |-> Loop(words, g, i)]
    BY <2>4, <2>5, <2>6, <2>7
  <2>. QED  BY <2>8 DEF Loops
<1> HIDE DEF S
<1>3. S \in SUBSET Nat
  BY DEF S
<1>4. S = Nat
  BY <1>1, <1>2, <1>3, Induct
<1>. QED  BY <1>4 DEF S

(* Two questions that agree on a prefix have the same tags so far.          *)
LEMMA LoopUnique ==
  ASSUME NEW words, NEW others, NEW f, NEW g, NEW n \in Nat,
         Agree(words, others, n), Follows(words, f, n), Follows(others, g, n)
  PROVE  f[n] = g[n]
<1>f. /\ \A i \in 1 .. n : words[i] = others[i]
      /\ \A i \in 0 .. n : f[i] = Loop(words, f, i) /\ g[i] = Loop(others, g, i)
  BY DEF Agree, Follows
<1>1. f[0] = g[0]
  BY <1>f DEF Loop
<1>2. \A i \in 1 .. n : f[i - 1] = g[i - 1] => f[i] = g[i]
  BY <1>f DEF Loop
<1>. QED  BY <1>1, <1>2, RunsAgree

LEMMA SeenIsLoop ==
  ASSUME NEW words \in Seq(Words)
  PROVE  \E f : /\ \A i \in 0 .. Len(words) : f[i] = Loop(words, f, i)
                /\ SeenAfter(words) = f[Len(words)]
<1> DEFINE seen == CHOOSE f : f = [i \in 0 .. Len(words) |-> Loop(words, f, i)]
<1>1. SeenAfter(words) = seen[Len(words)]
  BY DEF SeenAfter, Loop, Round
<1>2. \E f : f = [i \in 0 .. Len(words) |-> Loop(words, f, i)]
  BY LoopExists DEF Loops
<1>3. seen = [i \in 0 .. Len(words) |-> Loop(words, seen, i)]
  BY <1>2
<1> HIDE DEF seen
<1>4. \A i \in 0 .. Len(words) : seen[i] = Loop(words, seen, i)
  BY <1>3, Zenon
<1>. QED  BY <1>1, <1>4

LEMMA SeenFacts ==
  /\ SeenAfter(<<>>) = <<>>
  /\ \A words \in Seq(Words), word \in Words :
        SeenAfter(Append(words, word)) = Round(SeenAfter(words), word)
<1>1. SeenAfter(<<>>) = <<>>
  <2>1. <<>> \in Seq(Words) /\ Len(<<>>) = 0
    OBVIOUS
  <2>2. PICK f : /\ \A i \in 0 .. Len(<<>>) : f[i] = Loop(<<>>, f, i)
                 /\ SeenAfter(<<>>) = f[Len(<<>>)]
    BY <2>1, SeenIsLoop, Zenon
  <2>3. f[0] = Loop(<<>>, f, 0) /\ SeenAfter(<<>>) = f[0]
    BY <2>1, <2>2
  <2>. QED  BY <2>3 DEF Loop
<1>2. ASSUME NEW words \in Seq(Words), NEW word \in Words
      PROVE  SeenAfter(Append(words, word)) = Round(SeenAfter(words), word)
  <2> DEFINE longer == Append(words, word)
             n == Len(words)
  <2>1. /\ longer \in Seq(Words) /\ Len(longer) = n + 1 /\ n \in Nat
        /\ \A i \in 1 .. n : words[i] = longer[i]
        /\ longer[n + 1] = word
    OBVIOUS
  <2> HIDE DEF longer, n
  <2>2. PICK f : (\A i \in 0 .. n : f[i] = Loop(words, f, i)) /\ SeenAfter(words) = f[n]
    BY SeenIsLoop DEF n
  <2>3. PICK g : (\A i \in 0 .. n + 1 : g[i] = Loop(longer, g, i)) /\ SeenAfter(longer) = g[n + 1]
    BY <2>1, SeenIsLoop
  <2>4. \A i \in 0 .. n : f[i] = Loop(words, f, i) /\ g[i] = Loop(longer, g, i)
    BY <2>1, <2>2, <2>3
  <2>5. f[n] = g[n]
    <3>1. n \in Nat
      BY <2>1
    <3>2. Agree(words, longer, n) /\ Follows(words, f, n) /\ Follows(longer, g, n)
      BY <2>1, <2>4 DEF Agree, Follows
    <3>. QED  BY <3>1, <3>2, LoopUnique
  <2>6. g[n + 1] = Loop(longer, g, n + 1) /\ n + 1 # 0 /\ n + 1 - 1 = n
    BY <2>1, <2>3
  <2>7. g[n + 1] = Round(g[n], word)
    BY <2>1, <2>6 DEF Loop
  <2>. QED  BY <2>2, <2>3, <2>5, <2>7 DEF longer
<1>. QED  BY <1>1, <1>2

(* Where a word of a question occurs first, and that a longer question says *)
(* the same of the words of the shorter.                                    *)
IsFirstAt(words, w, i) ==
    i \in DOMAIN words /\ words[i] = w /\ \A j \in 1 .. i - 1 : words[j] # w

LEMMA FirstAtIs ==
  ASSUME NEW words \in Seq(Words), NEW w \in Range(words)
  PROVE  IsFirstAt(words, w, FirstAt(words, w))
<1> DEFINE T == {i \in 1 .. Len(words) : words[i] = w}
<1>1. T \in SUBSET Nat /\ T # {}
  BY DEF Range
<1>2. PICK i \in T : \A k \in T : i <= k
  BY <1>1, LeastElement
<1>3. \A j \in 1 .. i - 1 : words[j] # w
  BY <1>2
<1>4. \E k \in DOMAIN words : words[k] = w /\ \A j \in 1 .. k - 1 : words[j] # w
  BY <1>2, <1>3
<1>. QED  BY <1>4 DEF FirstAt, IsFirstAt

LEMMA FirstAtOnly ==
  ASSUME NEW words \in Seq(Words), NEW w \in Range(words), NEW i, IsFirstAt(words, w, i)
  PROVE  i = FirstAt(words, w)
<1> DEFINE k == FirstAt(words, w)
<1>1. IsFirstAt(words, w, k)
  BY FirstAtIs
<1> HIDE DEF k
<1>2. i \in 1 .. Len(words) /\ k \in 1 .. Len(words) /\ words[i] = w /\ words[k] = w
      /\ (\A j \in 1 .. i - 1 : words[j] # w) /\ \A j \in 1 .. k - 1 : words[j] # w
  BY <1>1 DEF IsFirstAt
<1>3. ~(i < k) /\ ~(k < i)
  BY <1>2
<1>4. i = k
  BY <1>2, <1>3
<1>. QED  BY <1>4 DEF k

LEMMA FirstAtOfAppend ==
  ASSUME NEW words \in Seq(Words), NEW word \in Words
  PROVE  /\ Append(words, word) \in Seq(Words)
         /\ Range(Append(words, word)) = Range(words) \cup {word}
         /\ \A w \in Range(words) : /\ FirstAt(Append(words, word), w) = FirstAt(words, w)
                                    /\ FirstAt(words, w) \in 1 .. Len(words)
         /\ word \notin Range(words) => FirstAt(Append(words, word), word) = Len(words) + 1
<1> DEFINE longer == Append(words, word)
<1>1. /\ longer \in Seq(Words) /\ Len(words) \in Nat
      /\ DOMAIN longer = 1 .. Len(words) + 1 /\ DOMAIN words = 1 .. Len(words)
      /\ \A i \in 1 .. Len(words) : longer[i] = words[i]
      /\ longer[Len(words) + 1] = word
  OBVIOUS
<1> HIDE DEF longer
<1>2. Range(longer) = Range(words) \cup {word}
  <2>1. 1 .. Len(words) + 1 = (1 .. Len(words)) \cup {Len(words) + 1}
    BY <1>1
  <2>. QED  BY <1>1, <2>1 DEF Range
<1>3. ASSUME NEW w \in Range(words)
      PROVE  FirstAt(longer, w) = FirstAt(words, w) /\ FirstAt(words, w) \in 1 .. Len(words)
  <2>1. IsFirstAt(words, w, FirstAt(words, w))
    BY FirstAtIs
  <2>2. IsFirstAt(longer, w, FirstAt(words, w)) /\ FirstAt(words, w) \in 1 .. Len(words)
    BY <1>1, <2>1 DEF IsFirstAt
  <2>. QED  BY <1>1, <1>2, <2>2, FirstAtOnly
<1>4. ASSUME word \notin Range(words) PROVE FirstAt(longer, word) = Len(words) + 1
  <2>1. \A i \in 1 .. Len(words) : longer[i] # word
    BY <1>1, <1>4 DEF Range
  <2>2. IsFirstAt(longer, word, Len(words) + 1)
    BY <1>1, <2>1 DEF IsFirstAt
  <2>. QED  BY <1>1, <1>2, <2>2, FirstAtOnly
<1>. QED  BY <1>1, <1>2, <1>3, <1>4 DEF longer

(* A list without repetitions has as many elements as places.               *)
LEMMA ElementsOfDistinct ==
  ASSUME NEW list \in Seq(Words), \A i, j \in 1 .. Len(list) : list[i] = list[j] => i = j,
         NEW n \in 0 .. Len(list)
  PROVE  LET S == {list[i] : i \in 1 .. n} IN IsFiniteSet(S) /\ Cardinality(S) = n
<1> DEFINE S == {list[i] : i \in 1 .. n}
           f == [i \in 1 .. n |-> list[i]]
<1>1. n \in Nat /\ \A i \in 1 .. n : i \in 1 .. Len(list)
  OBVIOUS
<1>2. f \in Bijection(1 .. n, S)
  <2>1. f \in [1 .. n -> S] /\ \A s \in S : \E i \in 1 .. n : f[i] = s
    OBVIOUS
  <2>2. \A i, j \in 1 .. n : f[i] = f[j] => i = j
    BY <1>1
  <2> HIDE DEF f, S
  <2>. QED  BY <2>1, <2>2 DEF Bijection, Injection, Surjection, IsInjective
<1> HIDE DEF f, S
<1>3. n \in Int /\ 1 \in Int
  BY <1>1
<1>4. /\ IsFiniteSet(1 .. n)
      /\ Cardinality(1 .. n) = IF 1 > n THEN 0 ELSE n - 1 + 1
  BY <1>3, FS_Interval
<1>5. Cardinality(1 .. n) = n
  BY <1>1, <1>4
<1>6. ExistsBijection(1 .. n, S)
  BY <1>2 DEF ExistsBijection
<1>7. IsFiniteSet(S) /\ Cardinality(S) = n
  BY <1>4, <1>5, <1>6, FS_Bijection
<1>. QED  BY <1>7 DEF S

(***************************************************************************)
(* What the loop has made of a question: each tag is preceded by exactly    *)
(* the words that the question has before it, and only a full list leaves   *)
(* out a significant word, one that comes after all the tags.               *)
(***************************************************************************)
TagsFor(words, seen) ==
    /\ words \in Seq(Words) /\ seen \in Seq(Words)
    /\ Len(seen) <= MaxTags
    /\ Range(seen) \subseteq Significant(words)
    /\ \A i, j \in 1 .. Len(seen) : seen[i] = seen[j] => i = j
    /\ \A i \in 1 .. Len(seen) : Earlier(words, seen[i]) = {seen[j] : j \in 1 .. i - 1}
    /\ \A w \in Significant(words) \ Range(seen) :
          Len(seen) = MaxTags /\ Range(seen) \subseteq Earlier(words, w)

LEMMA TagsForNothing == TagsFor(<<>>, <<>>)
<1>1. <<>> \in Seq(Words) /\ Len(<<>>) = 0 /\ DOMAIN <<>> = {}
  OBVIOUS
<1>2. Range(<<>>) = {}
  BY <1>1 DEF Range
<1>3. Significant(<<>>) = {}
  BY <1>2 DEF Significant
<1>4. 0 <= MaxTags /\ 1 .. 0 = {}
  BY MaxAssumption
<1>. QED  BY <1>1, <1>2, <1>3, <1>4 DEF TagsFor

LEMMA TagsForLonger ==
  ASSUME NEW words, NEW seen, TagsFor(words, seen), NEW word \in Words
  PROVE  TagsFor(Append(words, word), Round(seen, word))
<1> DEFINE longer == Append(words, word)
<1>0. /\ words \in Seq(Words) /\ seen \in Seq(Words) /\ Len(seen) <= MaxTags
      /\ Len(seen) \in Nat /\ MaxTags \in Nat
      /\ Range(seen) \subseteq Significant(words)
  BY MaxAssumption DEF TagsFor
<1>1. /\ longer \in Seq(Words) /\ Range(longer) = Range(words) \cup {word}
      /\ \A w \in Range(words) : /\ FirstAt(longer, w) = FirstAt(words, w)
                                 /\ FirstAt(words, w) \in 1 .. Len(words)
      /\ word \notin Range(words) => FirstAt(longer, word) = Len(words) + 1
  BY <1>0, FirstAtOfAppend
<1> HIDE DEF longer
<1>2. SUFFICES TagsFor(longer, Round(seen, word))
  BY DEF longer
<1>3. CASE word \in Ignored \/ word \in Range(words)
  <2>1. Significant(longer) = Significant(words)
    BY <1>1, <1>3 DEF Significant
  <2>2. \A w \in Significant(words) : Earlier(longer, w) = Earlier(words, w)
    BY <1>1, <2>1 DEF Earlier, Significant
  <2>3. Round(seen, word) = seen
    <3>1. CASE word \in Ignored
      BY <3>1 DEF Round, Skipped
    <3>2. CASE word \in Significant(words) /\ word \notin Range(seen)
      BY <1>0, <3>2 DEF TagsFor, Round, Full
    <3>3. CASE word \in Range(seen)
      BY <3>3 DEF Round, Skipped
    <3>. QED  BY <1>3, <3>1, <3>2, <3>3 DEF Significant
  <2>4. \A i \in 1 .. Len(seen) : seen[i] \in Significant(words)
    BY <1>0 DEF Range
  <2>5. \A w \in Significant(words) \ Range(seen) :
            Len(seen) = MaxTags /\ Range(seen) \subseteq Earlier(words, w)
    BY DEF TagsFor
  <2>6. \A w \in Significant(longer) \ Range(seen) :
            Len(seen) = MaxTags /\ Range(seen) \subseteq Earlier(longer, w)
    BY <2>1, <2>2, <2>5
  <2>7. /\ \A i, j \in 1 .. Len(seen) : seen[i] = seen[j] => i = j
        /\ \A i \in 1 .. Len(seen) : Earlier(words, seen[i]) = {seen[j] : j \in 1 .. i - 1}
    BY DEF TagsFor
  <2>8. \A i \in 1 .. Len(seen) : Earlier(longer, seen[i]) = {seen[j] : j \in 1 .. i - 1}
    BY <2>2, <2>4, <2>7
  <2>9. TagsFor(longer, seen)
    BY <1>0, <1>1, <2>1, <2>6, <2>7, <2>8 DEF TagsFor
  <2>. QED  BY <2>3, <2>9
<1>4. CASE word \notin Ignored /\ word \notin Range(words)
  <2>1. Significant(longer) = Significant(words) \cup {word} /\ word \notin Significant(words)
    BY <1>1, <1>4 DEF Significant
  <2>2. Len(words) \in Nat /\ \A w \in Significant(words) : w \in Range(words)
    BY <1>0 DEF Significant
  <2>3. \A w \in Significant(words) :
            FirstAt(longer, w) < FirstAt(longer, word) /\ ~(FirstAt(longer, word) < FirstAt(longer, w))
    BY <1>1, <1>4, <2>2
  <2>4. ~(FirstAt(longer, word) < FirstAt(longer, word))
    BY <1>1, <1>4, <2>2
  <2>5. Earlier(longer, word) = Significant(words)
    BY <2>1, <2>3, <2>4 DEF Earlier
  <2>6. \A w \in Significant(words) : Earlier(longer, w) = Earlier(words, w)
    BY <1>1, <2>1, <2>2, <2>3 DEF Earlier
  <2>7. \A i \in 1 .. Len(seen) : seen[i] \in Significant(words) /\ seen[i] \in Range(seen)
    BY <1>0 DEF Range
  <2>8. CASE Len(seen) >= MaxTags
    <3>1. Round(seen, word) = seen /\ Len(seen) = MaxTags
      BY <1>0, <2>8 DEF Round, Full
    <3>2. ASSUME NEW w \in Significant(longer) \ Range(seen) PROVE Range(seen) \subseteq Earlier(longer, w)
      <4>1. CASE w = word
        BY <1>0, <2>5, <4>1
      <4>2. CASE w \in Significant(words)
        BY <2>6, <3>2, <4>2 DEF TagsFor
      <4>. QED  BY <2>1, <3>2, <4>1, <4>2
    <3>. QED  BY <1>0, <1>1, <2>1, <2>6, <2>7, <3>1, <3>2 DEF TagsFor
  <2>9. CASE Len(seen) < MaxTags
    <3>1. word \notin Range(seen) /\ Round(seen, word) = Append(seen, word)
      BY <1>0, <1>4, <2>1, <2>9 DEF Round, Full, Skipped
    <3>2. Significant(words) = Range(seen)
      <4>1. \A w \in Significant(words) \ Range(seen) : Len(seen) = MaxTags
        BY DEF TagsFor
      <4>2. Significant(words) \ Range(seen) = {}
        BY <1>0, <2>9, <4>1
      <4>. QED  BY <1>0, <4>2
    <3> DEFINE more == Append(seen, word)
    <3>3. /\ more \in Seq(Words) /\ Len(more) = Len(seen) + 1
          /\ DOMAIN more = 1 .. Len(seen) + 1 /\ DOMAIN seen = 1 .. Len(seen)
          /\ \A i \in 1 .. Len(seen) : more[i] = seen[i]
          /\ more[Len(seen) + 1] = word
      BY <1>0
    <3> HIDE DEF more
    <3>4. /\ 1 .. Len(seen) + 1 = (1 .. Len(seen)) \cup {Len(seen) + 1}
          /\ \A i \in 1 .. Len(seen) : \A j \in 1 .. i - 1 : j \in 1 .. Len(seen)
          /\ (Len(seen) + 1) - 1 = Len(seen)
      BY <1>0
    <3>5. Range(more) = Range(seen) \cup {word} /\ Range(seen) = {seen[j] : j \in 1 .. Len(seen)}
      BY <3>3, <3>4 DEF Range
    <3>6. ASSUME NEW i \in 1 .. Len(more), NEW j \in 1 .. Len(more), more[i] = more[j] PROVE i = j
      BY <1>0, <2>7, <3>1, <3>3, <3>4, <3>6 DEF TagsFor
    <3>7. ASSUME NEW i \in 1 .. Len(more) PROVE Earlier(longer, more[i]) = {more[j] : j \in 1 .. i - 1}
      <4>1. CASE i \in 1 .. Len(seen)
        <5>1. Earlier(longer, seen[i]) = {seen[j] : j \in 1 .. i - 1}
          BY <2>6, <2>7, <4>1 DEF TagsFor
        <5>. QED  BY <3>3, <3>4, <4>1, <5>1
      <4>2. CASE i = Len(seen) + 1
        <5>1. Earlier(longer, word) = {seen[j] : j \in 1 .. Len(seen)}
          BY <2>5, <3>2, <3>5
        <5>. QED  BY <3>3, <3>4, <4>2, <5>1
      <4>. QED  BY <3>3, <3>4, <3>7, <4>1, <4>2
    <3>8. Significant(longer) = Range(more)
      BY <2>1, <3>2, <3>5
    <3>9. Len(more) <= MaxTags
      BY <1>0, <2>9, <3>3
    <3>10. TagsFor(longer, more)
      BY <1>1, <3>3, <3>6, <3>7, <3>8, <3>9 DEF TagsFor
    <3>. QED  BY <3>1, <3>10 DEF more
  <2>. QED  BY <1>0, <2>8, <2>9
<1>. QED  BY <1>3, <1>4

TagsInv ==
    /\ tags = SeenAfter(question) /\ TagsFor(question, tags)
    /\ relatedTags = SeenAfter(related) /\ TagsFor(related, relatedTags)

LEMMA TagsInvariance == Spec => []TagsInv
<1>1. Init => TagsInv
  BY SeenFacts, TagsForNothing DEF Init, TagsInv
<1>2. TagsInv /\ [Next]_vars => TagsInv'
  <2> SUFFICES ASSUME TagsInv, [Next]_vars
               PROVE  TagsInv'
    OBVIOUS
  <2>0. question \in Seq(Words) /\ related \in Seq(Words)
    BY DEF TagsInv, TagsFor
  <2>1. CASE Ask
    <3>1. PICK w \in Words : question' = Append(question, w)
      BY <2>1 DEF Ask
    <3>2. tags' = SeenAfter(question') /\ UNCHANGED <<related, relatedTags>>
      BY <2>1 DEF Ask
    <3>3. tags' = Round(tags, w)
      BY <2>0, <3>1, <3>2, SeenFacts DEF TagsInv
    <3>4. TagsFor(question', tags') /\ TagsFor(related', relatedTags')
      BY <3>1, <3>2, <3>3, TagsForLonger DEF TagsInv
    <3>. QED  BY <3>2, <3>4 DEF TagsInv
  <2>2. CASE AskRelated
    <3>1. PICK w \in Words : related' = Append(related, w)
      BY <2>2 DEF AskRelated
    <3>2. relatedTags' = SeenAfter(related') /\ UNCHANGED <<question, tags>>
      BY <2>2 DEF AskRelated
    <3>3. relatedTags' = Round(relatedTags, w)
      BY <2>0, <3>1, <3>2, SeenFacts DEF TagsInv
    <3>4. TagsFor(related', relatedTags') /\ TagsFor(question', tags')
      BY <3>1, <3>2, <3>3, TagsForLonger DEF TagsInv
    <3>. QED  BY <3>2, <3>4 DEF TagsInv
  <2>3. CASE UNCHANGED vars
    BY <2>3 DEF vars, TagsInv
  <2>. QED  BY <2>1, <2>2, <2>3 DEF Next
<1>. QED  BY <1>1, <1>2, PTL DEF Spec

(* What the docstring promises follows, of a question of any length.        *)
LEMMA TagsForFacts ==
  ASSUME NEW words, NEW seen, TagsFor(words, seen)
  PROVE  /\ \A w \in Significant(words) :
               LET place == Cardinality(Earlier(words, w)) + 1 IN
               IF place <= MaxTags THEN place <= Len(seen) /\ seen[place] = w
                                   ELSE w \notin Range(seen)
         /\ Range(seen) \subseteq Significant(words)
         /\ Cardinality(Significant(words)) <= MaxTags => Range(seen) = Significant(words)
<1>0. /\ words \in Seq(Words) /\ seen \in Seq(Words) /\ Len(seen) <= MaxTags
      /\ Len(seen) \in Nat /\ MaxTags \in Nat
      /\ Range(seen) \subseteq Significant(words)
      /\ \A i, j \in 1 .. Len(seen) : seen[i] = seen[j] => i = j
  BY MaxAssumption DEF TagsFor
<1>1. IsFiniteSet(Significant(words))
  <2>1. words \in [1 .. Len(words) -> Range(words)] /\ Len(words) \in Nat
    BY <1>0 DEF Range
  <2>2. words \in Surjection(1 .. Len(words), Range(words))
    BY <1>0, <2>1 DEF Surjection, Range
  <2>3. Len(words) \in Int /\ 1 \in Int
    BY <2>1
  <2>4. IsFiniteSet(1 .. Len(words))
    BY <2>3, FS_Interval
  <2>5. IsFiniteSet(Range(words)) /\ Significant(words) \in SUBSET Range(words)
    BY <2>2, <2>4, FS_Surjection DEF Significant
  <2>. QED  BY <2>5, FS_Subset
<1>2. Range(seen) = {seen[i] : i \in 1 .. Len(seen)}
  BY <1>0 DEF Range
<1>3. Cardinality(Range(seen)) = Len(seen)
  <2>1. Len(seen) \in 0 .. Len(seen)
    BY <1>0
  <2>. QED  BY <1>0, <1>2, <2>1, ElementsOfDistinct
<1>4. ASSUME NEW w \in Significant(words)
      PROVE  LET place == Cardinality(Earlier(words, w)) + 1 IN
             IF place <= MaxTags THEN place <= Len(seen) /\ seen[place] = w
                                 ELSE w \notin Range(seen)
  <2>1. ASSUME NEW i \in 1 .. Len(seen), seen[i] = w
        PROVE  Cardinality(Earlier(words, w)) + 1 = i
    <3>1. Earlier(words, w) = {seen[j] : j \in 1 .. i - 1}
      BY <2>1 DEF TagsFor
    <3>2. i - 1 \in 0 .. Len(seen)
      BY <1>0
    <3>3. Cardinality(Earlier(words, w)) = i - 1
      BY <1>0, <3>1, <3>2, ElementsOfDistinct
    <3>. QED  BY <1>0, <3>3
  <2>2. CASE w \in Range(seen)
    <3>1. PICK i \in 1 .. Len(seen) : seen[i] = w
      BY <1>2, <2>2
    <3>2. Cardinality(Earlier(words, w)) + 1 = i
      BY <2>1, <3>1
    <3>. QED  BY <1>0, <3>1, <3>2
  <2>3. CASE w \notin Range(seen)
    <3>1. Len(seen) = MaxTags /\ Range(seen) \in SUBSET Earlier(words, w)
      BY <2>3 DEF TagsFor
    <3>2. Earlier(words, w) \in SUBSET Significant(words)
      BY DEF Earlier
    <3>3. IsFiniteSet(Earlier(words, w)) /\ Cardinality(Earlier(words, w)) \in Nat
      BY <1>1, <3>2, FS_Subset, FS_CardinalityType
    <3>4. Cardinality(Range(seen)) <= Cardinality(Earlier(words, w))
      BY <3>1, <3>3, FS_Subset
    <3>. QED  BY <1>0, <1>3, <2>3, <3>1, <3>3, <3>4
  <2>. QED  BY <2>2, <2>3
<1>5. ASSUME Cardinality(Significant(words)) <= MaxTags PROVE Range(seen) = Significant(words)
  <2>1. CASE Len(seen) = MaxTags
    <3>1. /\ Cardinality(Range(seen)) <= Cardinality(Significant(words))
          /\ Cardinality(Significant(words)) = Cardinality(Range(seen)) => Significant(words) = Range(seen)
          /\ Cardinality(Significant(words)) \in Nat
      BY <1>0, <1>1, FS_Subset, FS_CardinalityType
    <3>. QED  BY <1>0, <1>3, <1>5, <2>1, <3>1
  <2>2. CASE Len(seen) # MaxTags
    <3>1. \A w \in Significant(words) : w \in Range(seen)
      BY <2>2 DEF TagsFor
    <3>. QED  BY <1>0, <3>1
  <2>. QED  BY <2>1, <2>2
<1>. QED  BY <1>0, <1>4, <1>5

(* The tags are the first significant words, each once, in their order, of  *)
(* a question of any length.                                                *)
THEOREM TagsAreTheFirst == Spec => []TagsAreFirstWords
<1>1. TagsInv => TagsAreFirstWords
  BY TagsForFacts DEF TagsInv, TagsAreFirstWords
<1>. QED  BY <1>1, TagsInvariance, PTL

(* Two questions that share a significant word share a tag, when neither    *)
(* has more significant words than there are tags.                          *)
THEOREM RelatedFindEachOther == Spec => []RelatedOverlap
<1>1. TagsInv => RelatedOverlap
  BY TagsForFacts DEF TagsInv, RelatedOverlap
<1>. QED  BY <1>1, TagsInvariance, PTL
=============================================================================
