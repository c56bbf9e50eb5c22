------------------------------ MODULE WebReader ------------------------------
(***************************************************************************)
(* What the web reader makes of a page: markup for the phone's screen      *)
(* (mobileReader), and a title, plain text and links (reader).  A page is  *)
(* the tree of html.Parse, an external library: a node has a tag, the      *)
(* children kids, and if it has them the text data or the target href.     *)
(* One tag stands for all those the code treats alike.                     *)
(***************************************************************************)
EXTENDS Naturals, Sequences, SequencesExt

CONSTANTS WebUrls,     \* the targets publicWebURL accepts: http or https, port 80
                       \* or 443 if any, no credentials, at most 2048 characters,
                       \* and any host: which are public shows when one is dialled
          MaxMarkup,   \* tokens after which mobileReader goes no further (128000)
          MaxText,     \* the same for reader (32000)
          MaxLinks     \* links reader collects (30)

Ignored == {"script"}                 \* and style, noscript, svg, iframe, form, ...
Hidden  == Ignored \cup {"head"}      \* and template, object, embed
Kept    == {"p", "td", "br"}          \* tags that are written out again
Breaks  == {"p", "br"}                \* reader starts a new line

publicWebURL(url) == url \in WebUrls

RECURSIVE contents(_), mobileReader(_, _), walk(_, _)

\* All the text below n, also of tags that are dropped elsewhere.
contents(n) == IF n.tag = "text" THEN <<n.data>>
               ELSE FoldLeft(LAMBDA s, k : s \o contents(k), <<>>, n.kids)

Token(kind, data) == <<kind, data>>

\* The opening and closing tokens of an element; a link is kept if its target is accepted.
Tag(n) == IF n.tag \in Kept \/ (n.tag = "a" /\ publicWebURL(n.href)) THEN n.tag ELSE ""
Open(n) == IF Tag(n) = "" THEN <<>>
           ELSE <<Token("open", IF n.tag = "a" THEN n.href ELSE n.tag)>>

\* Fault: a link that is not accepted is closed like the others.
Close_AnyLink(n) ==
  IF n.tag \in Kept \cup {"a"} /\ n.tag # "br" THEN <<Token("close", n.tag)>> ELSE <<>>

Close(n) == IF Tag(n) \in {"", "br"} THEN <<>> ELSE <<Token("close", n.tag)>>

mobileReader(out, n) ==
  IF Len(out) > MaxMarkup \/ n.tag \in Hidden THEN out
  ELSE IF n.tag = "text" THEN Append(out, Token("text", n.data))
  ELSE FoldLeft(mobileReader, out \o Open(n), n.kids) \o Close(n)

\* The links after an element: accepted, new, with a label, and not too many.
Linked(links, n) ==
  IF /\ n.tag = "a" /\ Len(links) < MaxLinks /\ publicWebURL(n.href)
     /\ \A i \in DOMAIN links : links[i].url # n.href
     /\ contents(n) # <<>>
  THEN Append(links, [url |-> n.href, label |-> contents(n)]) ELSE links

walk(s, n) ==
  IF Len(s.text) > MaxText \/ n.tag \in Ignored THEN s
  ELSE IF n.tag = "title" THEN [s EXCEPT !.title = contents(n)]
  ELSE IF n.tag = "text" THEN [s EXCEPT !.text = Append(@, n.data)]
  ELSE FoldLeft(walk, [s EXCEPT !.links = Linked(@, n),
                                !.text = IF n.tag \in Breaks THEN Append(@, "\n") ELSE @],
                n.kids)

reader(root) == walk([title |-> <<>>, text |-> <<>>, links |-> <<>>], root)

\* text/plain: the body, escaped.
Plain(root) == <<Token("open", "td")>>
               \o [i \in DOMAIN contents(root) |-> Token("text", contents(root)[i])]
               \o <<Token("close", "td")>>

\* What browse answers.  Of plain text, which is parsed too, only the links are
\* used.
Answer(root, type) ==
  LET read == reader(root)
  IN IF type = "html"
     THEN [root |-> root, type |-> type, read |-> read, html |-> mobileReader(<<>>, root)]
     ELSE [root |-> root, type |-> type, html |-> Plain(root),
           read |-> [read EXCEPT !.title = <<"host">>, !.text = contents(root)]]

-----------------------------------------------------------------------------
(* Reference definitions *)

RECURSIVE Visible(_, _)

\* The texts of the page that are not inside a dropped element.
Visible(n, dropped) ==
  IF n.tag \in dropped THEN {}
  ELSE IF n.tag = "text" THEN {n.data}
  ELSE UNION {Visible(n.kids[i], dropped) : i \in DOMAIN n.kids}

TextsOf(markup) == {t[2] : t \in {u \in ToSet(markup) : u[1] = "text"}}

Opened(t) == IF t[2] \in Kept THEN t[2] ELSE "a"

\* Every closing token closes the innermost open element.
Balanced(markup) ==
  LET after(stack, t) ==
        IF t[1] = "open" /\ t[2] # "br" THEN <<Opened(t)>> \o stack
        ELSE IF t[1] = "close"
             THEN IF stack # <<>> /\ Head(stack) = t[2] THEN Tail(stack) ELSE <<"wrong">>
        ELSE stack
  IN FoldLeft(after, <<>>, markup) = <<>>

-----------------------------------------------------------------------------
(* Properties *)

\* "Keep document structure without allowing remote code, styles, or resource
\* loads" (browse.go:151-152): the markup is well formed, and of an HTML page it
\* shows exactly the text outside the dropped elements, as the plain text does (of
\* a page that is cut off: some of it); the links of the markup and of the list have
\* targets that publicWebURL accepts, and none is listed twice.
Safe(answer) ==
  LET shown == TextsOf(answer.html)
      read == ToSet(answer.read.text) \ {"\n"}
      urls == [i \in DOMAIN answer.read.links |-> answer.read.links[i].url]
      Covers(texts, dropped, cut) ==
        LET wanted == Visible(answer.root, dropped)
        IN texts \subseteq wanted /\ (cut \/ texts = wanted)
  IN /\ Balanced(answer.html)
     /\ answer.type = "html" =>
          /\ Covers(shown, {"script", "head"}, Len(answer.html) > MaxMarkup)
          /\ Covers(read, {"script", "title"}, Len(answer.read.text) > MaxText)
     /\ \A i \in DOMAIN answer.html :
          answer.html[i][1] = "open" => answer.html[i][2] \in Kept \cup WebUrls
     /\ IsInjective(urls) /\ ToSet(urls) \subseteq WebUrls /\ Len(urls) <= MaxLinks
=============================================================================
