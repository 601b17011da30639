--------------------------- MODULE ItemExtraction ---------------------------
(***************************************************************************)
(* extractItems of src/normalize/extractItems.ts: the handlers it gives to *)
(* HTMLRewriter, folded over the tokens of a page.                         *)
(*                                                                         *)
(* A token is a tag that opens an element, named for the selector it       *)
(* fits - "item"; a link, of Links; "title"; "field"; "dt"; "dd" -, "end", *)
(* which closes the last element opened, or a piece of Text.  Elements are *)
(* well nested: how HTMLRewriter reads a page that is not is its own       *)
(* affair.  Href gives the links their normalised address; a link without  *)
(* one has no href, or one that is no http(s) address.                     *)
(*                                                                         *)
(* The options are [titles, fields]: whether there is a titleSelector, and *)
(* the fields in their order, each "field" (a selector) or the text of its *)
(* label.                                                                  *)
(***************************************************************************)
EXTENDS Naturals, Sequences, SequencesExt

Href  == [a1 |-> "u1", a2 |-> "u2"]
Links == DOMAIN Href \cup {"mailto"}
Text  == {"X", "Y"}
NoAddress == "none"

NoField == [matched |-> FALSE, collecting |-> FALSE, value |-> <<>>]

NewItem(opts) ==
  [url |-> NoAddress, title |-> <<>>, collectingLinkTitle |-> FALSE,
   fields |-> [i \in DOMAIN opts.fields |-> NoField],
   dtCollecting |-> FALSE, dtBuffer |-> <<>>, lastLabel |-> <<>>, ddTarget |-> 0]

\* The handlers' state: the open elements and the items met so far, the
\* last of which is the current one while an item is open.
NoPage == [open |-> <<>>, items |-> <<>>]

Depth(s) == Len(SelectSeq(s.open, LAMBDA e : e = "item"))

\* An open element of tags that has an item around it
Within(s, tags) ==
  \E i, j \in DOMAIN s.open : i < j /\ s.open[i] = "item" /\ s.open[j] \in tags

Amend(s, item) == [s EXCEPT !.items[Len(s.items)] = item]

\* Only the outermost of nested items is one.
OpenItem(s, opts) ==
  [s EXCEPT !.items = IF Depth(s) = 0 THEN Append(@, NewItem(opts)) ELSE @]

\* Mutant of OpenLink: the text of the links after it goes into the title.
OpenLinkKeeping(c, tag, opts) ==
  IF c.url = NoAddress /\ tag \in DOMAIN Href
  THEN [c EXCEPT !.url = Href[tag], !.collectingLinkTitle = ~opts.titles]
  ELSE c

\* The first link with an address gives the item its url and, when there is
\* no titleSelector, its title; any other link ends the title.
OpenLink(c, tag, opts) ==
  IF c.url = NoAddress /\ tag \in DOMAIN Href
  THEN [c EXCEPT !.url = Href[tag], !.collectingLinkTitle = ~opts.titles]
  ELSE [c EXCEPT !.collectingLinkTitle = FALSE]

SelectorFields(opts) == {i \in DOMAIN opts.fields : opts.fields[i] = "field"}

OpenField(c, opts) ==
  [c EXCEPT !.fields = [i \in DOMAIN @ |->
     IF i \in SelectorFields(opts) /\ ~@[i].matched THEN [@[i] EXCEPT !.collecting = TRUE] ELSE @[i]]]

\* The fields with this label that have no value yet
Wanting(c, label, opts) ==
  {i \in DOMAIN opts.fields : <<opts.fields[i]>> = label /\ ~c.fields[i].matched}

OpenDt(c) == [c EXCEPT !.dtBuffer = <<>>, !.dtCollecting = TRUE, !.lastLabel = <<>>]

OpenDd(c, opts) ==
  LET wanting == Wanting(c, c.lastLabel, opts)
      first   == IF wanting = {} THEN 0 ELSE CHOOSE i \in wanting : \A j \in wanting : i <= j
  IN  [c EXCEPT !.ddTarget = first,
                !.fields = [i \in DOMAIN @ |->
                   IF i = first THEN [@[i] EXCEPT !.collecting = TRUE] ELSE @[i]]]

\* The dt's text becomes the label; one without text leaves none.
EndDt(c) == [c EXCEPT !.dtCollecting = FALSE, !.lastLabel = c.dtBuffer]

Matched(field) == [field EXCEPT !.matched = TRUE, !.collecting = FALSE]

EndDd(c) ==
  [c EXCEPT !.ddTarget = 0,
            !.fields = [i \in DOMAIN @ |-> IF i = c.ddTarget THEN Matched(@[i]) ELSE @[i]]]

\* A field's value ends with the first element of it that ends, an element
\* in another one included.
EndField(c, opts) ==
  [c EXCEPT !.fields = [i \in DOMAIN @ |->
     IF i \in SelectorFields(opts) /\ @[i].collecting THEN Matched(@[i]) ELSE @[i]]]

OpenTag(s, tag, opts) ==
  LET c == Last(s.items)
      opened == CASE tag = "item"                   -> OpenItem(s, opts)
                  [] Depth(s) > 0 /\ tag \in Links  -> Amend(s, OpenLink(c, tag, opts))
                  [] Depth(s) > 0 /\ tag = "field"  -> Amend(s, OpenField(c, opts))
                  [] Depth(s) > 0 /\ tag = "dt"     -> Amend(s, OpenDt(c))
                  [] Depth(s) > 0 /\ tag = "dd"     -> Amend(s, OpenDd(c, opts))
                  [] OTHER                          -> s
  IN  [opened EXCEPT !.open = Append(@, tag)]

EndTag(s, opts) ==
  LET tag  == Last(s.open)
      rest == [s EXCEPT !.open = Front(@)]
      c    == Last(s.items)
  IN  CASE Depth(rest) > 0 /\ tag = "field" -> Amend(rest, EndField(c, opts))
        [] Depth(rest) > 0 /\ tag = "dt"    -> Amend(rest, EndDt(c))
        [] Depth(rest) > 0 /\ tag = "dd"    -> Amend(rest, EndDd(c))
        [] OTHER                            -> rest

\* The text handlers: into the title, the label and the values under way.
TextToken(s, text, opts) ==
  LET c == Last(s.items)
      inTitle == IF opts.titles THEN Within(s, {"title"})
                 ELSE Within(s, Links) /\ c.collectingLinkTitle
      InField(i) == IF i \in SelectorFields(opts) THEN Within(s, {"field"}) /\ c.fields[i].collecting
                    ELSE Within(s, {"dd"}) /\ c.ddTarget = i
  IN  IF Depth(s) = 0 THEN s
      ELSE Amend(s, [c EXCEPT
             !.title = IF inTitle THEN Append(@, text) ELSE @,
             !.dtBuffer = IF Within(s, {"dt"}) /\ c.dtCollecting THEN Append(@, text) ELSE @,
             !.fields = [i \in DOMAIN @ |->
                IF InField(i) THEN [@[i] EXCEPT !.value = Append(@, text)] ELSE @[i]]])

Handle(s, token, opts) ==
  CASE token \in Text -> TextToken(s, token, opts)
    [] token = "end"  -> EndTag(s, opts)
    [] OTHER          -> OpenTag(s, token, opts)

\* What is kept of an item: the fields that have a value.
Kept(c) ==
  LET valued == SelectSeq([i \in DOMAIN c.fields |-> i], LAMBDA i : c.fields[i].matched)
  IN  [url |-> c.url, title |-> c.title,
       fields |-> [k \in DOMAIN valued |-> <<valued[k], c.fields[valued[k]].value>>]]

\* Items without an address are left out, and so is the second of two with
\* the same one.
Distinct(items) ==
  FoldLeft(LAMBDA kept, c :
             IF c.url = NoAddress \/ \E i \in DOMAIN kept : kept[i].url = c.url
             THEN kept ELSE Append(kept, Kept(c)),
           <<>>, items)

ExtractItems(tokens, opts) ==
  Distinct(FoldLeft(LAMBDA s, token : Handle(s, token, opts), NoPage, tokens).items)
=============================================================================
