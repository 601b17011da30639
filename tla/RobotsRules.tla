----------------------------- MODULE RobotsRules -----------------------------
(***************************************************************************)
(* The parser of a robots.txt file and the evaluation of its rules         *)
(* (src/robots/parser.ts, src/robots/evaluator.ts).                        *)
(*                                                                         *)
(* A line is a record [field, value], the comment stripped and the field   *)
(* name in lower case; a blank line, a comment and a field the parser does *)
(* not know are lines of the field "other".  The value of a user-agent     *)
(* line is a token, and that of an allow or disallow line is a sequence of *)
(* symbols: a character, or an escape such as "%61".                       *)
(***************************************************************************)
EXTENDS Naturals, Sequences, SequencesExt

\* The declared tokens contained in "utsuroibot", with their lengths.
AgentLength == [utsuroibot |-> 10, bot |-> 3]

\* A declared token fits when it is part of ours; '*' and '' are no tokens.
AgentMatches(token) == token \in DOMAIN AgentLength

(***************************************************************************)
(* Normalisation and matching of paths.                                    *)
(***************************************************************************)
\* An escape of an unreserved character is decoded, another is put in upper
\* case, and a blank is escaped.
NormalForm(symbol) ==
  CASE symbol = "%61" -> <<"a">>
    [] symbol = "%2f" -> <<"%", "2", "F">>
    [] symbol = " "   -> <<"%", "2", "0">>
    [] OTHER          -> <<symbol>>

NormalizePercentEncoding(symbols) ==
  FlattenSeq([i \in DOMAIN symbols |-> NormalForm(symbols[i])])

\* One turn of the two-pointer loop: p and t are the places in the pattern
\* and in the text, star the last '*' met (0: none) and mark where the text
\* it stands for ends.
RECURSIVE GlobWalk(_, _, _, _, _, _)
GlobWalk(pattern, text, p, t, star, mark) ==
  LET atPattern == p <= Len(pattern) IN
  CASE t > Len(text) ->
         \A i \in p .. Len(pattern) : pattern[i] = "*"
    [] t <= Len(text) /\ atPattern /\ pattern[p] = "*" ->
         GlobWalk(pattern, text, p + 1, t, p, t)
    [] t <= Len(text) /\ atPattern /\ pattern[p] # "*" /\ pattern[p] = text[t] ->
         GlobWalk(pattern, text, p + 1, t + 1, star, mark)
    [] OTHER ->
         star # 0 /\ GlobWalk(pattern, text, star + 1, mark + 1, star, mark + 1)

GlobFullMatch(pattern, text) == GlobWalk(pattern, text, 1, 1, 0, 1)

\* A final '$' asks for the end of the path; without it the rest is free.
MatchesPattern(pattern, path) ==
  \/ pattern = <<>>
  \/ /\ pattern # <<>>
     /\ GlobFullMatch(IF Last(pattern) = "$" THEN Front(pattern)
                                             ELSE Append(pattern, "*"), path)

(***************************************************************************)
(* The parser: a fold over the lines.                                      *)
(***************************************************************************)
NoParse == [groups |-> <<>>, agents |-> <<>>, rules |-> <<>>, collecting |-> FALSE]

FlushGroup(s) ==
  [s EXCEPT !.groups = IF s.agents = <<>> THEN @
                       ELSE Append(@, [userAgents |-> s.agents, rules |-> s.rules]),
            !.agents = <<>>, !.rules = <<>>]

UserAgentLine(s, line) ==
  LET flushed == IF s.collecting THEN s ELSE FlushGroup(s) IN
  [flushed EXCEPT !.agents = IF line.value = "" THEN @ ELSE Append(@, line.value),
                  !.collecting = TRUE]

\* A rule that belongs to no group, whose path starts with neither '/' nor
\* '*', or that disallows nothing adds no rule.
AddsRule(s, line) ==
  /\ s.agents # <<>>
  /\ \/ line.value = <<>> /\ line.field = "allow"
     \/ line.value # <<>> /\ Head(line.value) \in {"/", "*"}

RuleLine(s, line) ==
  [s EXCEPT !.collecting = FALSE,
            !.rules = IF ~AddsRule(s, line) THEN @
                      ELSE Append(@, [directive |-> line.field,
                                      pattern |-> NormalizePercentEncoding(line.value)])]

\* A sitemap line ends the list of user-agent lines, an unknown one does not.
ParseLine(s, line) ==
  CASE line.field = "user-agent"           -> UserAgentLine(s, line)
    [] line.field \in {"allow", "disallow"} -> RuleLine(s, line)
    [] line.field = "sitemap"              -> [s EXCEPT !.collecting = FALSE]
    [] OTHER                               -> s

ParseRobotsTxt(lines) == FlushGroup(FoldLeft(ParseLine, NoParse, lines)).groups

(***************************************************************************)
(* The evaluation.                                                         *)
(***************************************************************************)
\* The groups with the longest fitting token, together; else those of '*'.
SelectApplicableGroups(groups) ==
  LET fitting == {t \in UNION {Range(groups[i].userAgents) : i \in DOMAIN groups} : AgentMatches(t)}
      longest == {t \in fitting : \A u \in fitting : AgentLength[u] <= AgentLength[t]}
      wanted  == IF fitting # {} THEN longest ELSE {"*"}
  IN  SelectSeq(groups, LAMBDA g : Range(g.userAgents) \cap wanted # {})

\* Mutant of Better: of two rules of one length, the first one wins.
BetterFirst(rule, best) == Len(rule.pattern) > Len(best.pattern)

\* The longer pattern wins, and of two of one length an allow.
Better(rule, best) ==
  \/ Len(rule.pattern) > Len(best.pattern)
  \/ /\ Len(rule.pattern) = Len(best.pattern)
     /\ rule.directive = "allow" /\ best.directive = "disallow"

NoRule == [directive |-> "none", pattern |-> <<>>]

BestRuleForPath(rules, path) ==
  FoldLeft(LAMBDA best, rule :
             IF /\ MatchesPattern(rule.pattern, path)
                /\ best = NoRule \/ Better(rule, best)
             THEN rule ELSE best,
           NoRule, rules)

EvaluateRobots(groups, url) ==
  LET applicable == SelectApplicableGroups(groups)
      best == BestRuleForPath(FlattenSeq([i \in DOMAIN applicable |-> applicable[i].rules]),
                              NormalizePercentEncoding(url))
  IN  IF best.directive = "disallow" THEN "disallowed" ELSE "allowed"
=============================================================================
