------------------------------ MODULE TopicTags ------------------------------
(***************************************************************************)
(* topic_tags (src/memory.py:58-82), the pure function that decides which   *)
(* sessions can recall each other, and what the recall rests on: a question *)
(* is asked word by word, and the tags are computed of every prefix.        *)
(*                                                                          *)
(* A definition without a comment right before the one it alters is a       *)
(* plausible bug, used only to check that a property can fail.              *)
(***************************************************************************)
EXTENDS Naturals, FiniteSets, Sequences, Functions

CONSTANTS Words,     \* lower-case words, split off at non-alphanumerics
          Ignored,   \* stopwords and words shorter than three characters
          MaxTags,   \* _MAX_TOPIC_TAGS
          MaxLength  \* bound: words of a question

ASSUME WordsAssumption == Ignored \subseteq Words
ASSUME MaxAssumption   == MaxTags \in Nat \ {0} /\ MaxLength \in Nat

VARIABLES question, \* the words of one session's question
          related,  \* those of another session's
          tags,     \* topic_tags of the first
          relatedTags

vars == <<question, related, tags, relatedTags>>

(* A word that the loop passes over. *)
SkippedOnlyIgnored(word, seen) == word \in Ignored
Skipped(word, seen) == word \in Ignored \/ word \in Range(seen)

(* The loop: `seen' after the first i words; it breaks when it is full. *)
FullEarly(seen) == Len(seen) >= MaxTags - 1
Full(seen) == Len(seen) >= MaxTags

SeenAfter(words) ==
    LET seen[i \in 0 .. Len(words)] ==
            IF i = 0 THEN <<>>
            ELSE IF Full(seen[i - 1]) \/ Skipped(words[i], seen[i - 1])
                 THEN seen[i - 1]
                 ELSE Append(seen[i - 1], words[i])
    IN seen[Len(words)]

Init ==
    /\ question = <<>> /\ related = <<>>
    /\ tags = <<>> /\ relatedTags = <<>>

Ask ==
    /\ Len(question) < MaxLength
    /\ \E w \in Words : question' = Append(question, w)
    /\ tags' = SeenAfter(question')
    /\ UNCHANGED <<related, relatedTags>>

AskRelated ==
    /\ Len(related) < MaxLength
    /\ \E w \in Words : related' = Append(related, w)
    /\ relatedTags' = SeenAfter(related')
    /\ UNCHANGED <<question, tags>>

Next == Ask \/ AskRelated

Spec == Init /\ [][Next]_vars

(***************************************************************************)
(* Properties.                                                              *)
(***************************************************************************)
(* The significant words of a question, and how many come before a word. *)
Significant(words)  == Range(words) \ Ignored
FirstAt(words, w)   == CHOOSE i \in DOMAIN words :
                          words[i] = w /\ \A j \in 1 .. i - 1 : words[j] # w
Earlier(words, w)   == {v \in Significant(words) : FirstAt(words, v) < FirstAt(words, w)}

(* The docstring (memory.py:61-62): the tags are the significant words, each *)
(* once, in the order in which they first occur, and the first MaxTags of    *)
(* them: a word is the tag in the place that the number of others before it  *)
(* gives.                                                                    *)
TagsAreFirstWords ==
    /\ \A w \in Significant(question) :
          LET place == Cardinality(Earlier(question, w)) + 1 IN
          IF place <= MaxTags THEN place <= Len(tags) /\ tags[place] = w
                              ELSE w \notin Range(tags)
    /\ Range(tags) \subseteq Significant(question)

(* Recall matches on any overlap, "so two differently-phrased questions      *)
(* about the same subject still find each other" (memory.py:63-64): they do  *)
(* when they share a significant word and neither has more than MaxTags.     *)
RelatedOverlap ==
    /\ Cardinality(Significant(question)) <= MaxTags
    /\ Cardinality(Significant(related)) <= MaxTags
    /\ Significant(question) \cap Significant(related) # {}
    => Range(tags) \cap Range(relatedTags) # {}
=============================================================================
