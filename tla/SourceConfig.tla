---------------------------- MODULE SourceConfig ----------------------------
(***************************************************************************)
(* The configuration of a source from the request that sets it to the      *)
(* notifications it shapes: its validation (src/api/routes/sources.ts),    *)
(* the processor it selects (src/pipeline/contentProcessor.ts), and the    *)
(* stages after the detection of an item - title, tags, fan-out -          *)
(* (src/pipeline/enrichTitle.ts, classify.ts, notify.ts), run by checks    *)
(* that each keep the configuration they were begun with.                  *)
(*                                                                         *)
(* A configuration is a function from the keys it has to their values.  An *)
(* extract or a classify value is a name: Extraction and Classifier say    *)
(* what the name stands for.                                               *)
(***************************************************************************)
EXTENDS Naturals, Sequences, SequencesExt

CONSTANTS Extraction,    \* name -> [item : has an item_selector, parses : every selector
                         \* parses, oneKind : each field has a selector or a label, not both]
          Classifier,    \* name -> [rules, default, sound]: rules a sequence of [titles, tag],
                         \* sound whether patterns compile and labels are well formed
          Item,          \* the items of the source
          Titles,        \* the titles an item or its page can have
          Check,         \* the checks of the monitor
          MaxTitleFetches

NoTitle  == "no title"
NoTags   == <<"no tags">>     \* tags IS NULL
NoSource == [type |-> "none"]

Types == {"page", "rss", "sitemap"}   \* atom is as rss, sitemap-index as sitemap

(***************************************************************************)
(* The keys, and the validation of POST and PATCH.                         *)
(***************************************************************************)
SitemapOnlyKeys == {"sitemap_mode", "lastmod_max_age_days"}
PageOnlyKeys    == {"page_mode", "extract", "ignore_selectors"}

ValuesOf(key) ==
  CASE key = "sitemap_mode" -> {"direct", "traverse"}
    [] key = "page_mode"    -> {"content", "extract"}
    [] key = "extract"      -> DOMAIN Extraction
    [] key = "classify"     -> DOMAIN Classifier
    [] OTHER                -> {"given"}

ConfigKeys == SitemapOnlyKeys \cup PageOnlyKeys \cup {"classify"}

\* Every configuration the schema lets through
Configs ==
  UNION {{config \in [keys -> UNION {ValuesOf(k) : k \in keys}] : \A k \in keys : config[k] \in ValuesOf(k)} :
           keys \in SUBSET ConfigKeys}

Has(config, key, value) == key \in DOMAIN config /\ config[key] = value

AllowedKeys(type) ==
  {"classify"} \cup CASE type = "sitemap" -> SitemapOnlyKeys
                      [] type = "page"    -> PageOnlyKeys
                      [] type = "rss"     -> {}

\* Tags are for items: a page or a sitemap must be in the mode that has them.
ClassifyApplies(type, config) ==
  /\ type = "sitemap" => Has(config, "sitemap_mode", "traverse")
  /\ type = "page"    => Has(config, "page_mode", "extract")

ExtractIsSound(config) ==
  /\ Has(config, "page_mode", "extract") =>
       "extract" \in DOMAIN config /\ Extraction[config["extract"]].item
  /\ "extract" \in DOMAIN config =>
       Extraction[config["extract"]].parses /\ Extraction[config["extract"]].oneKind

ValidateSourceConfig(type, config) ==
  /\ DOMAIN config \subseteq AllowedKeys(type)
  /\ "classify" \in DOMAIN config =>
       ClassifyApplies(type, config) /\ Classifier[config["classify"]].sound
  /\ ExtractIsSound(config)

\* resolveRecipeKey
RecipeKey(source) ==
  CASE source.type = "page" ->
         IF Has(source.config, "page_mode", "extract") THEN "page:extract" ELSE "page:content"
    [] source.type = "sitemap" ->
         IF Has(source.config, "sitemap_mode", "traverse") THEN "sitemap:traverse" ELSE "sitemap:direct"
    [] source.type = "rss" -> "feed"

(***************************************************************************)
(* The state: the stored source, the rows of changes, and the checks.      *)
(***************************************************************************)
VARIABLES
  source,   \* the row of sources, or NoSource
  changes,  \* the rows of changes: item -> [title, tags]
  routed,   \* history: the pairs <<item, tags>> deliveries were created for
  run       \* each check: pc, its configuration, its detected rows, titleFetchesUsed

configVars == <<source, changes, routed, run>>

EmptyRun == [pc |-> "idle", config |-> [k \in {} |-> ""], detected |-> <<>>, at |-> 1, fetches |-> 0]

ConfigInit ==
  /\ source = NoSource
  /\ changes = [i \in {} |-> 0]
  /\ routed = {}
  /\ run = [c \in Check |-> EmptyRun]

CreateSource(type, config) ==
  /\ source = NoSource
  /\ ValidateSourceConfig(type, config)
  /\ source' = [type |-> type, config |-> config]
  /\ UNCHANGED <<changes, routed, run>>

\* PATCH replaces the configuration whole; the type stays.
PatchSource(config) ==
  /\ source # NoSource
  /\ ValidateSourceConfig(source.type, config)
  /\ source' = [source EXCEPT !.config = config]
  /\ UNCHANGED <<changes, routed, run>>

\* The check reads the source, and keeps what it has read.
StartCheck(c) ==
  /\ run[c].pc = "idle" /\ source # NoSource
  /\ RecipeKey(source) \in {"page:extract", "sitemap:traverse", "feed"}
  /\ run' = [run EXCEPT ![c] = [EmptyRun EXCEPT !.pc = "detect", !.config = source.config]]
  /\ UNCHANGED <<source, changes, routed>>

\* insertChangeIfNew for one item: the row is this check's, or another's.
DetectItem(c, item, title) ==
  LET found == item \in DOMAIN changes
      row   == IF found THEN changes[item] ELSE [title |-> title, tags |-> NoTags]
  IN  /\ run[c].pc = "detect"
      /\ item \notin {run[c].detected[k].item : k \in DOMAIN run[c].detected}
      /\ changes' = [i \in DOMAIN changes \cup {item} |-> IF i = item THEN row ELSE changes[i]]
      /\ run' = [run EXCEPT ![c].detected =
                   Append(@, [item |-> item, inserted |-> ~found, title |-> row.title, tags |-> row.tags])]
      /\ UNCHANGED <<source, routed>>

\* The loops of the stages: at is the place in detected.
Current(c)   == run[c].detected[run[c].at]
Working(c, stage) == run[c].pc = stage /\ run[c].at <= Len(run[c].detected)

NextStage == [detect |-> "enrich", enrich |-> "classify", classify |-> "notify", notify |-> "idle"]

\* A stage is done with every item, and the next one begins.
EndStage(c) ==
  /\ run[c].pc # "idle"
  /\ run[c].pc # "detect" => run[c].at > Len(run[c].detected)
  /\ run' = [run EXCEPT ![c].pc = NextStage[@], ![c].at = 1]
  /\ UNCHANGED <<source, changes, routed>>

Advanced(c) == [run[c] EXCEPT !.at = @ + 1]

\* A row this check has inserted without a title, while the budget lasts
NeedsTitle(c) ==
  Current(c).inserted /\ Current(c).title = NoTitle /\ run[c].fetches < MaxTitleFetches

\* enrichDetectedChanges for one row; every failure of the fetch, of its
\* checks before and of the extraction leaves the row without a title.
EnrichItem(c) ==
  /\ Working(c, "enrich")
  /\ IF NeedsTitle(c)
     THEN \E title \in Titles \cup {NoTitle} :
            /\ changes' = IF title = NoTitle THEN changes
                          ELSE [changes EXCEPT ![Current(c).item].title = title]
            /\ run' = [run EXCEPT ![c] =
                 [Advanced(c) EXCEPT !.fetches = @ + 1, !.detected[run[c].at].title = title]]
     ELSE run' = [run EXCEPT ![c] = Advanced(c)] /\ UNCHANGED changes
  /\ UNCHANGED <<source, routed>>

\* computeTags: the tags of the rules that fit, each once, or the default.
ComputeTags(classify, title) ==
  LET fit == FoldLeft(LAMBDA tags, rule :
                        IF title \in rule.titles /\ ~Contains(tags, rule.tag)
                        THEN Append(tags, rule.tag) ELSE tags,
                      <<>>, classify.rules)
  IN  IF fit = <<>> THEN classify.default ELSE fit

\* Mutant of StoreTags: the check goes on with the tags it has computed.
StoreTagsOwn(c, tags) ==
  /\ changes' = [changes EXCEPT ![Current(c).item].tags = IF @ = NoTags THEN tags ELSE @]
  /\ run' = [run EXCEPT ![c] = [Advanced(c) EXCEPT !.detected[run[c].at].tags = tags]]

\* setChangeTagsIfNull: the tags stored first stay, and are what the check
\* goes on with.
StoreTags(c, tags) ==
  LET stored == changes[Current(c).item].tags
      kept   == IF stored = NoTags THEN tags ELSE stored
  IN  /\ changes' = [changes EXCEPT ![Current(c).item].tags = kept]
      /\ run' = [run EXCEPT ![c] = [Advanced(c) EXCEPT !.detected[run[c].at].tags = kept]]

\* classifyDetectedChanges for one row, by the check's own configuration; a
\* call that fails leaves the row as it is.
ClassifyItem(c) ==
  /\ Working(c, "classify")
  /\ \/ /\ "classify" \in DOMAIN run[c].config /\ Current(c).tags = NoTags
        /\ StoreTags(c, ComputeTags(Classifier[run[c].config["classify"]], Current(c).title))
     \/ run' = [run EXCEPT ![c] = Advanced(c)] /\ UNCHANGED changes
  /\ UNCHANGED <<source, routed>>

\* fanoutChange for one row: the deliveries are those of the subscriptions
\* without a tag and, unless the row has no tags, with one of its tags.
NotifyItem(c) ==
  /\ Working(c, "notify")
  /\ routed' = routed \cup {<<Current(c).item, Current(c).tags>>}
  /\ run' = [run EXCEPT ![c] = Advanced(c)]
  /\ UNCHANGED <<source, changes>>

\* The Worker dies; a later check finds the rows inserted.
DieInCheck(c) ==
  /\ run[c].pc # "idle"
  /\ run' = [run EXCEPT ![c] = EmptyRun]
  /\ UNCHANGED <<source, changes, routed>>

StageStep(c) ==
  \/ StartCheck(c) \/ EndStage(c) \/ DieInCheck(c)
  \/ \E item \in Item, title \in Titles \cup {NoTitle} : DetectItem(c, item, title)
  \/ EnrichItem(c) \/ ClassifyItem(c) \/ NotifyItem(c)

ConfigNext ==
  \/ \E type \in Types, config \in Configs : CreateSource(type, config)
  \/ \E config \in Configs : PatchSource(config)
  \/ \E c \in Check : StageStep(c)

ConfigSpec == ConfigInit /\ [][ConfigNext]_configVars

(***************************************************************************)
(* Properties.                                                             *)
(***************************************************************************)
\* The configuration stored fits the processor it selects, whatever PATCHes
\* have replaced: item extraction has selectors that parse, and a source
\* that classifies has items and rules that compile (validateSourceConfig
\* against resolveRecipeKey).
ConfigFitsRecipe ==
  source # NoSource =>
    LET recipe == RecipeKey(source) IN
    /\ recipe = "page:extract" =>
         "extract" \in DOMAIN source.config /\ Extraction[source.config["extract"]].item
           /\ Extraction[source.config["extract"]].parses
    /\ "classify" \in DOMAIN source.config =>
         /\ recipe \in {"page:extract", "sitemap:traverse", "feed"}
         /\ Classifier[source.config["classify"]].sound

\* A change is sent where its stored tags say: checks that overlap, began
\* with different configurations or find another's row have chosen its
\* deliveries by the same tags, or by none when their classification failed
\* (setChangeTagsIfNull, classifyDetectedChanges, fanoutChange).
RoutedByStoredTags ==
  \A pair \in routed : pair[2] \in {NoTags, changes[pair[1]].tags}

\* Both: what a source does with its items is what was accepted for it, in
\* every check and under every PATCH (validateSourceConfig,
\* resolveRecipeKey, setChangeTagsIfNull).
StagesFollowConfig == ConfigFitsRecipe /\ RoutedByStoredTags
=============================================================================
