----------------------------- MODULE MCVerifier -----------------------------
(* Small sites: the listing pages p and q, which may link to each other, a *)
(* detail page d and a page x of another host.                             *)
EXTENDS Verifier, TLC

MCUrls == {"p", "q", "d", "x"}
MCHostOf == [u \in MCUrls |-> IF u = "x" THEN "files" ELSE "portal"]

Node(link, title, files) ==
    [is |-> "record", title |-> title, text |-> "none", link |-> link, files |-> files]

Site(kind, own, p, q, bad, max) ==
    [kind |-> kind, targets |-> own, fallback |-> <<>>,
     next |-> [u \in MCUrls |-> IF kind \in {"html", "wordpress", "ocds"} /\ u = "p" THEN "q"
                               ELSE NoUrl],
     entries |-> [u \in MCUrls |-> IF u = "p" THEN p ELSE IF u = "q" THEN q ELSE <<>>],
     bad |-> bad, selector |-> TRUE, most |-> 2, maxPages |-> max, follow |-> kind = "html",
     invalid |-> {}, connector |-> "ok", base |-> "portal", blank |-> {}, paged |-> kind = "html"]

File == {"document"}
Untitled == Node("d", "none", File)

\* Listings: good; with an item that is rejected; with nothing to keep; whose
\* only good item lies outside the sample; without titles.
Good == <<Node("d", "plain", File), Node("x", "plain", {})>>
Listings ==
    {Good,
     <<Untitled, Node("d", "short", {}), Node("x", "plain", {"page"})>>,
     <<Node("d", "short", File), Node("missing", "short", {})>>,
     <<Node("p", "short", {}), Node("p", "short", {}), Node("p", "plain", {"media"})>>,
     <<Untitled>>}
Rest == <<Node("q", "none", {}), Node("q", "plain", {})>>
More == {<<>>, Rest}

Json == {Site("json", own, Good, q, bad, 1) :
            own \in {<<>>, <<"p", "q">>}, q \in More, bad \in {{}, {"p"}, {"q"}}}

\* The second page links nowhere, back, or to itself.
Html == {[Site("html", <<"p">>, Good, Rest, {}, 3) EXCEPT !.next["q"] = back] :
            back \in {NoUrl, "p", "q"}}
        \cup {[Site("html", <<"p">>, Good, <<>>, {}, 3) EXCEPT !.next["q"] = "p"],
              [Site("html", <<"q", "p">>, Good, Rest, {}, 3) EXCEPT !.next["q"] = "p"]}
        \cup {Site("html", <<"q", "p">>, Good, q, {}, 1) : q \in More}

\* What a verification does not look at: no page to read, or none that can be counted;
\* selectors that are no CSS.
Unlooked == {[Site("html", <<"p">>, Good, Good, {}, 2) EXCEPT !.invalid = {what}] :
                what \in {"pages", "detail", "next"}}
            \cup {Site("html", <<"p", "q">>, Good, Good, {}, 0)}

\* The last ones have no item_selector in their fallback.
WordPress == {[Site("wordpress", <<"p", "q">>, Good, q, bad, 2)
                   EXCEPT !.fallback = fallback, !.next["q"] = "p"] :
                 fallback \in {<<>>, <<"q">>}, q \in More, bad \in {{}, {"p"}, {"q"}}}
             \cup {[Site("wordpress", <<"p">>, Good, <<>>, bad, 2)
                   EXCEPT !.fallback = <<"q">>, !.selector = FALSE] : bad \in {{}, {"p"}}}
             \cup {[Site("wordpress", <<"p">>, Good, Good, {"p"}, 0) EXCEPT !.fallback = <<"q">>]}

\* Links that cannot be used, after one that can.
Garbled == {Site(kind, <<"q">>, <<>>, <<Node("d", "plain", {}), Node(link, "plain", File)>>, {}, 1) :
               kind \in {"html", "wordpress", "json", "ocds"}, link \in {"garbled", "missing"}}
Refused == {[Site(kind, <<"p", "q">>, Good, <<Node("refused", "plain", File)>>, {}, 1)
                EXCEPT !.fallback = <<"q">>] : kind \in {"html", "wordpress", "json"}}

\* A package with a next link; releases without a title, or with only one of their own; and what is none.
Package == Site("ocds", <<"p">>, Good, <<Node("q", "plain", {})>>, {}, 2)

Ocds == {Package} \cup
        {Site("ocds", <<"p">>,
              <<Untitled, [Node("missing", "none", {"page"}) EXCEPT !.text = "plain"],
                [Node("d", "plain", File) EXCEPT !.is = "other"]>>, <<>>, bad, 1) :
            bad \in {{}, {"p"}}}

\* The same PDF twice; links beyond the ceiling; a listing that is a PDF.
Pdf == {[Site("pdf", <<"p">>, l, <<>>, {}, 1) EXCEPT !.follow = follow, !.most = 3] :
           follow \in BOOLEAN,
           l \in {<<Node("d", "short", {}), Node("d", "plain", {}), Node("garbled", "plain", {}),
                    Node("x", "plain", {})>>,
                  <<[Node("x", "none", {}) EXCEPT !.text = "short"], Node("d", "plain", {})>>,
                  <<Node("p", "plain", {})>>}}

\* What only a verification tells apart.
Configured == {[Site("json", own, Good, <<>>, {}, 1) EXCEPT !.connector = c] :
                  c \in {"undeclared", "no_browser", "unknown"}, own \in {<<>>, <<"p">>, <<"p", "x">>}}

Samples == {[Site(kind, <<"p">>, l, <<>>, {}, 1) EXCEPT !.blank = blank] :
               kind \in {"json", "html"}, l \in Listings, blank \in {{}, {"d"}}}

\* A page without a body is no JSON.
Empty == {[Site("json", <<"p">>, <<>>, <<>>, {"p"}, 1) EXCEPT !.blank = {"p"}],
          [Site("html", <<"p">>, <<>>, <<>>, {}, 1) EXCEPT !.blank = {"p"}]}

MCSites == Json \cup Html \cup Unlooked \cup WordPress \cup Garbled \cup Refused \cup Ocds \cup Pdf
               \cup Configured \cup Samples \cup Empty

\* For the runs that refute a claim: one site each.
Packages == {Package}
Plain == {Site("json", <<"p">>, Good, <<>>, {}, 1)}
=============================================================================
