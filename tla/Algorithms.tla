----------------------------- MODULE Algorithms -----------------------------
(***************************************************************************)
(* The functions of RobotsRules and ItemExtraction beside definitions that *)
(* say without a parser, a loop or a handler what they compute, on every   *)
(* input up to a bound; and the small machines of RobotsCheck,             *)
(* ExecutorToken, AccessKeys and SourceConfig.  A behaviour takes one of    *)
(* them as its subject and lets the others rest.                           *)
(*                                                                         *)
(* An input is a sequence that grows at its end: the lines of a            *)
(* robots.txt, the tokens of a page, or a pattern.                         *)
(***************************************************************************)
EXTENDS RobotsRules, RobotsCheck, ItemExtraction, ExecutorToken, AccessKeys, SourceConfig

CONSTANTS Lines,           \* the lines a robots.txt can have
          PatternSymbols,  \* the symbols a pattern can have
          Paths,           \* the paths a pattern and a robots.txt are asked about
          LinkTokens,      \* the tokens a page of links can have
          FieldTokens,     \* the tokens an item of fields can have
          PageOptions,     \* the options of the extraction
          MaxLines, MaxPattern, MaxLinks, MaxFields   \* bounds: lengths of an input

VARIABLES
  subject,  \* what the behaviour is about
  input     \* the input of a function

algorithmVars == <<subject, input, robotsVars, tokenVars, keyVars, configVars>>

Subjects == {"robots", "pattern", "links", "fields", "robots cache", "tokens", "keys", "config", "stages"}

Init ==
  /\ subject \in Subjects
  /\ input = IF subject = "fields" THEN <<"item", "a1", "end">> ELSE <<>>
  /\ RobotsInit /\ TokenInit /\ KeysInit /\ ConfigInit

OnlyMachine(vs) == UNCHANGED <<subject, input, vs>>

Grow(symbols, bound) ==
  /\ Len(input) < bound
  /\ \E s \in symbols : input' = Append(input, s)
  /\ UNCHANGED <<subject, robotsVars, tokenVars, keyVars, configVars>>

GrowRobots  == subject = "robots"  /\ Grow(Lines, MaxLines)
GrowPattern == subject = "pattern" /\ Grow(PatternSymbols, MaxPattern)

(***************************************************************************)
(* The places of a page: the element opened at i ends where as many        *)
(* elements have ended as were opened from i on.                           *)
(***************************************************************************)
Opens(tokens, i, j) == Cardinality({k \in i .. j : tokens[k] \notin Text \cup {"end"}})
Ends(tokens, i, j)  == Cardinality({k \in i .. j : tokens[k] = "end"})
Balanced(tokens, i, j) == Opens(tokens, i, j) = Ends(tokens, i, j)

Closing(tokens, i) ==
  CHOOSE j \in i .. Len(tokens) : Balanced(tokens, i, j) /\ \A k \in i .. j - 1 : ~Balanced(tokens, i, k)

IsWhole(tokens) == Balanced(tokens, 1, Len(tokens))

\* The page goes on: an element ends only when one is open.
GrowLinks ==
  /\ subject = "links"
  /\ Grow(IF IsWhole(input) THEN LinkTokens \ {"end"} ELSE LinkTokens, MaxLinks)

\* One item with a link and, up to its end, fields
GrowFields == subject = "fields" /\ ~IsWhole(input) /\ Grow(FieldTokens, MaxFields)

MoveRobotsCache ==
  /\ subject = "robots cache" /\ RobotsNext
  /\ OnlyMachine(<<tokenVars, keyVars, configVars>>)

MoveTokens ==
  /\ subject = "tokens" /\ TokenNext
  /\ OnlyMachine(<<robotsVars, keyVars, configVars>>)

MoveKeys ==
  /\ subject = "keys" /\ KeysNext
  /\ OnlyMachine(<<robotsVars, tokenVars, configVars>>)

\* ConfigNext in two subjects: every configuration of every type, and what
\* replaces it; ...
MoveConfig ==
  /\ subject = "config"
  /\ \/ \E type \in Types, config \in Configs : CreateSource(type, config)
     \/ \E config \in Configs : PatchSource(config)
  /\ OnlyMachine(<<robotsVars, tokenVars, keyVars>>)

FeedConfigs == {config \in Configs : ValidateSourceConfig("rss", config)}

\* ... a feed, and what its checks do with the tags
MoveStages ==
  /\ subject = "stages"
  /\ \/ \E config \in FeedConfigs : CreateSource("rss", config) \/ PatchSource(config)
     \/ \E c \in Check : StageStep(c)
  /\ OnlyMachine(<<robotsVars, tokenVars, keyVars>>)

Next ==
  \/ GrowRobots \/ GrowPattern \/ GrowLinks \/ GrowFields
  \/ MoveRobotsCache \/ MoveTokens \/ MoveKeys \/ MoveConfig \/ MoveStages

Spec == Init /\ [][Next]_algorithmVars

(***************************************************************************)
(* robots.txt without a parser.                                            *)
(***************************************************************************)
\* What a pattern of characters and '*' stands for, end to end
RECURSIVE StandsFor(_, _)
StandsFor(pattern, text) ==
  IF pattern = <<>> THEN text = <<>>
  ELSE IF Head(pattern) = "*"
       THEN \E n \in 0 .. Len(text) : StandsFor(Tail(pattern), SubSeq(text, n + 1, Len(text)))
       ELSE text # <<>> /\ Head(text) = Head(pattern) /\ StandsFor(Tail(pattern), Tail(text))

Covers(pattern, path) ==
  \E n \in 0 .. Len(path) :
    IF pattern # <<>> /\ Last(pattern) = "$"
    THEN n = Len(path) /\ StandsFor(Front(pattern), path)
    ELSE StandsFor(pattern, SubSeq(path, 1, n))

IsAgentLine(lines, i) == lines[i].field = "user-agent"
EndsAgents(lines, i)  == lines[i].field \in {"allow", "disallow", "sitemap"}

\* The agents line i is addressed to: those of the last unbroken list of
\* user-agent lines above it
AgentsOf(lines, i) ==
  LET above == {j \in 1 .. i - 1 : IsAgentLine(lines, j)} IN
  {lines[j].value : j \in {j \in above : \A m \in j .. Max(above) : ~EndsAgents(lines, m)}} \ {""}

\* The agents whose rules count: the longest that are part of our name, or '*'
Counted(lines) ==
  LET named == {lines[j].value : j \in {j \in DOMAIN lines : IsAgentLine(lines, j)}}
      ours  == {a \in named : AgentMatches(a)}
  IN  IF ours = {} THEN {"*"} ELSE {a \in ours : AgentLength[a] = Max({AgentLength[b] : b \in ours})}

\* The lengths of the rules of this kind that count and cover the path;
\* disallowing nothing is no rule.
Reach(lines, field, path) ==
  {Len(NormalizePercentEncoding(lines[i].value)) : i \in
     {i \in DOMAIN lines :
        /\ lines[i].field = field
        /\ AgentsOf(lines, i) \cap Counted(lines) # {}
        /\ IF lines[i].value = <<>> THEN field = "allow" ELSE lines[i].value[1] \in {"/", "*"}
        /\ Covers(NormalizePercentEncoding(lines[i].value), NormalizePercentEncoding(path))}}

\* Disallowed: some rule that disallows is longer than every one that allows.
Forbids(lines, path) ==
  \E n \in Reach(lines, "disallow", path) : \A m \in Reach(lines, "allow", path) : n > m

\* Every pattern is matched as its characters stand, and every robots.txt
\* gives a path the verdict its lines give it, wherever its groups begin,
\* end and are repeated, whatever lines are between and in whatever order
\* its rules are (parseRobotsTxt, evaluateRobots).
RobotsVerdictAgrees ==
  /\ subject = "pattern" =>
       \A path \in Paths : MatchesPattern(input, path) <=> input = <<>> \/ Covers(input, path)
  /\ subject = "robots" =>
       \A path \in Paths :
         EvaluateRobots(ParseRobotsTxt(input), path) =
           IF Forbids(input, path) THEN "disallowed" ELSE "allowed"

(***************************************************************************)
(* A page without handlers.                                                *)
(***************************************************************************)
IsWithin(tokens, j, i) == i < j /\ j < Closing(tokens, i)

Places(tokens, tags) == {i \in DOMAIN tokens : tokens[i] \in tags}

\* Items: no other item is around them.
ItemPlaces(tokens) ==
  {i \in Places(tokens, {"item"}) :
     \A k \in Places(tokens, {"item"}) : ~IsWithin(tokens, i, k)}

Inside(tokens, tags, i) == {j \in Places(tokens, tags) : IsWithin(tokens, j, i)}

TextAt(tokens, places) ==
  LET ordered == SetToSortSeq(places, <) IN [n \in DOMAIN ordered |-> tokens[ordered[n]]]

\* The link an item takes its address from
AddressAt(tokens, i) == Min(Inside(tokens, DOMAIN Href, i))

\* The text of the link, or that of the titles
TitleAt(tokens, i, opts) ==
  IF opts.titles
  THEN TextAt(tokens, UNION {Inside(tokens, Text, j) : j \in Inside(tokens, {"title"}, i)})
  ELSE TextAt(tokens, Inside(tokens, Text, AddressAt(tokens, i)))

\* The dd elements of an item whose last dt before them has this label
Labelled(tokens, i, label) ==
  {d \in Inside(tokens, {"dd"}, i) :
     \E t \in Inside(tokens, {"dt"}, i) :
       /\ Closing(tokens, t) < d
       /\ \A u \in Inside(tokens, {"dt"}, i) : u <= t \/ d < u
       /\ TextAt(tokens, Inside(tokens, Text, t)) = <<label>>}

\* A field's element: the first that fits it; of fields with one label,
\* the n-th takes the n-th.
FieldAt(tokens, i, opts, n) ==
  IF opts.fields[n] = "field" THEN Inside(tokens, {"field"}, i)
  ELSE LET before == {m \in 1 .. n - 1 : opts.fields[m] = opts.fields[n]}
           fit    == Labelled(tokens, i, opts.fields[n])
       IN  {d \in fit : Cardinality({e \in fit : e < d}) >= Cardinality(before)}

FieldsAt(tokens, i, opts) ==
  LET found == {n \in DOMAIN opts.fields : FieldAt(tokens, i, opts, n) # {}}
      ordered == SetToSortSeq(found, <)
  IN  [k \in DOMAIN ordered |->
         <<ordered[k], TextAt(tokens, Inside(tokens, Text, Min(FieldAt(tokens, i, opts, ordered[k]))))>>]

\* The items a reader finds in a page: one for each address, at its first
\* item that links there
FoundIn(tokens, opts) ==
  LET linked == {i \in ItemPlaces(tokens) : Inside(tokens, DOMAIN Href, i) # {}}
      UrlOf(i) == Href[tokens[AddressAt(tokens, i)]]
      firsts == {i \in linked : \A k \in linked : UrlOf(k) = UrlOf(i) => i <= k}
      ordered == SetToSortSeq(firsts, <)
  IN  [n \in DOMAIN ordered |->
         [url |-> UrlOf(ordered[n]), title |-> TitleAt(tokens, ordered[n], opts),
          fields |-> FieldsAt(tokens, ordered[n], opts)]]

\* A field in a field ends it early, a dt or dd in another loses it, and the
\* text around a link in a link can become its title: the comparison is for
\* pages without them.
IsFlat(tokens) ==
  \A tags \in {{"field"}, {"dt", "dd"}, Links} :
    \A i \in Places(tokens, tags) : Inside(tokens, tags, i) = {}

\* The items of a whole page are those its elements show: the outermost,
\* each with its first address, the text of that link only, and the values
\* that stand beside its labels, whatever is nested, repeated, empty or out
\* of place (the handlers of extractItems, called token by token).
ItemsAgree ==
  subject \in {"links", "fields"} /\ IsWhole(input) /\ IsFlat(input) =>
    \A opts \in PageOptions : ExtractItems(input, opts) = FoundIn(input, opts)
=============================================================================
