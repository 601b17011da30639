---------------------------- MODULE MCAlgorithms ----------------------------
(***************************************************************************)
(* The inputs of Algorithms for TLC.                                       *)
(***************************************************************************)
EXTENDS Algorithms, TLC

Agent(token)  == [field |-> "user-agent", value |-> token]
Allow(path)   == [field |-> "allow", value |-> path]
Disallow(path) == [field |-> "disallow", value |-> path]

\* Two tokens of ours, two that are not, rules of equal and of different
\* lengths, one that only fits decoded, an empty one, and the other fields.
MCLines ==
  {Agent("utsuroibot"), Agent("bot"), Agent("*"), Agent(""),
   Disallow(<<"/">>), Disallow(<<>>), Disallow(<<"/", "%61">>), Disallow(<<"*", "b", "$">>),
   Allow(<<"/">>), Allow(<<"/", "a">>), Allow(<<"b">>),
   [field |-> "sitemap", value |-> ""], [field |-> "other", value |-> ""]}

MCPatternSymbols == {"/", "a", "*", "$"}

MCPaths == {<<"/">>, <<"/", "a">>, <<"/", "a", "b">>, <<"/", "b", "a", "a">>,
            <<"/", "a", "/", "a", "a">>, <<"/", "%2f">>}

MCLinkTokens  == {"item", "a1", "a2", "mailto", "title", "X", "end"}
MCFieldTokens == {"dt", "dd", "field", "X", "Y", "end"}

MCPageOptions ==
  {[titles |-> FALSE, fields |-> <<"X", "field">>], [titles |-> TRUE, fields |-> <<"X", "X">>]}

MCExtraction ==
  [good        |-> [item |-> TRUE,  parses |-> TRUE,  oneKind |-> TRUE],
   unparsable  |-> [item |-> TRUE,  parses |-> FALSE, oneKind |-> TRUE],
   ambiguous   |-> [item |-> TRUE,  parses |-> TRUE,  oneKind |-> FALSE]]

MCClassifier ==
  [topics |-> [rules |-> <<[titles |-> {"t"}, tag |-> "a"], [titles |-> {"t"}, tag |-> "b"],
                           [titles |-> {"t"}, tag |-> "a"]>>,
               default |-> <<>>, sound |-> TRUE],
   kinds  |-> [rules |-> <<[titles |-> {"t"}, tag |-> "c"]>>, default |-> <<"d">>, sound |-> TRUE],
   broken |-> [rules |-> <<>>, default |-> <<>>, sound |-> FALSE]]

Symmetric ==
  Permutations(RobotsChecker) \cup Permutations(Check) \cup
  Permutations(Request) \cup Permutations(Kid)
=============================================================================
