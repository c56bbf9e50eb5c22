----------------------------- MODULE MCUeInternet -----------------------------
(* Two addresses the Core may assign, and pages of a link or a paragraph,   *)
(* followed by an element with another one, or a text, and a text inside.  *)
EXTENDS UeInternet, WebReader

MCAddresses == {"global", "private", "cgnat"}
MCAnswers == {{"global"}, {"private"}, {"global", "cgnat"}}
MCUrls == {"web", "intranet"}

MCText(d) == [tag |-> "text", data |-> d]
MCNode(t, kids) == [tag |-> t, href |-> "none", kids |-> kids]
MCLink(u, kids) == [tag |-> "a", href |-> u, kids |-> kids]

MCInner ==
  {MCText("b")}
  \cup {MCNode(t, <<MCText("b")>>) : t \in {"script", "head", "title", "p", "br", "span"}}
  \cup {MCLink(u, <<MCText("b")>>) : u \in MCUrls \cup {"mailto"}}
MCPages ==
  {MCNode("body", <<first, MCNode(t, <<n, MCText("c")>>)>>) :
     first \in {MCLink("web", <<MCText("a")>>), MCNode("p", <<>>)},
     t \in {"td", "script", "span"}, n \in MCInner}

\* Every answer of the web reader is safe and faithful to its page: the pages
\* that arrive are Pages, and the answer is WebReader's.
PageSafe == page # None => Safe(Answer(page.root, page.type))
=============================================================================
