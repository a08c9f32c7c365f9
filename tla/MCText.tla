------------------------------- MODULE MCText -------------------------------
(***************************************************************************)
(* The two pure text functions of the agent in one instance for TLC: a      *)
(* behaviour asks questions (TopicTags) or feeds a document (HtmlText).     *)
(***************************************************************************)
EXTENDS TopicTags, HtmlText

TextInit == Init /\ HtmlInit

Questions == fed = 0 /\ Next /\ UNCHANGED htmlVars
Document  == question = <<>> /\ related = <<>> /\ HtmlNext /\ UNCHANGED vars

TextSpec == TextInit /\ [][Questions \/ Document]_<<vars, htmlVars>>
=============================================================================
