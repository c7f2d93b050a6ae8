----------------------------- MODULE Connectors -----------------------------
(***************************************************************************)
(* What the parse of each connector makes of a listing page: HTML markup,  *)
(* the posts of a WordPress API, the records of a JSON endpoint, the links *)
(* of a page of PDFs, or the releases of an OCDS package.                  *)
(*                                                                         *)
(* An entry of a page: is, "record", or "other" for what is no record (no  *)
(* object, a release without a tender); title, "none", "short" or "plain"; *)
(* text, what stands in for a title (the text of the node, the file name,  *)
(* the title of the release); link, the page it points to (of a release,   *)
(* its first document), or "missing", "refused" (has credentials) or       *)
(* "garbled" (not a URL); files, what else it links to, of "document" (a   *)
(* URL with the extension of one), "page" and "media" (an attachment).     *)
(*                                                                         *)
(* A site s has the entries of its pages; bad, the pages whose payload has *)
(* the wrong form; selector, whether item_selector is configured; and      *)
(* most, the max_documents of a page of PDFs.                              *)
(*                                                                         *)
(* What parse returns is given by the places on the page its items come    *)
(* from, in whose order they are returned.                                 *)
(***************************************************************************)
EXTENDS Naturals, SequencesExt

NoError == "none"

\* An entry of a page that links to urls.
Entry(urls) ==
    [is : {"record", "other"}, title : {"none", "short", "plain"},
     text : {"none", "short", "plain"}, link : urls \cup {"missing", "refused", "garbled"},
     files : SUBSET {"document", "page", "media"}]

Item(detail, title, docs) == [detail |-> detail, title |-> title, docs |-> docs]

\* What normalize_url raises for a link it does not take.
Refusal == [refused |-> "UNSAFE_URL", garbled |-> "VALUEERROR"]

Broken(link) == link \in DOMAIN Refusal
Usable(link) == link # "missing" /\ ~Broken(link)

LinkOr(entry, page) == IF Usable(entry.link) THEN entry.link ELSE page
TitleOrText(entry) == IF entry.title = "none" THEN entry.text ELSE entry.title
Has(entry, kinds) == entry.files \cap kinds # {}

----------------------------------------------------------------------------
(* One item of each connector.                                             *)

\* A node of a listing; without a link that can be used it stands for the page.
NodeItem(entry, page) ==
    Item(LinkOr(entry, page), TitleOrText(entry), Has(entry, {"document"}))

PostItem(entry, page) ==
    Item(LinkOr(entry, page), entry.title, Has(entry, {"document", "media"}))

RecordItem(entry, page) ==
    Item(LinkOr(entry, page), entry.title, Has(entry, {"document", "page"}))

\* The item is the PDF.
PdfItem(entry) == Item(entry.link, TitleOrText(entry), TRUE)

ReleaseItem(entry, page) ==
    Item(LinkOr(entry, page), TitleOrText(entry),
         Usable(entry.link) \/ Has(entry, {"document", "page"}))

----------------------------------------------------------------------------
(* Pages.                                                                  *)

OnlyRecords(entries) == {i \in DOMAIN entries : entries[i].is = "record"}

\* Releases without any title are left out.
Releases(entries) == {i \in OnlyRecords(entries) : TitleOrText(entries[i]) # "none"}

\* The ceiling counts links before those that cannot be used, and those that
\* were seen before on this page, are skipped.
PdfLinks(entries, most) ==
    {i \in DOMAIN entries : /\ i <= most /\ Usable(entries[i].link)
                           /\ \A j \in 1..(i - 1) : entries[j].link # entries[i].link}

Payloads == {"wordpress", "json", "ocds"}

\* The link of a post or a record is normalised outside any try: one that is
\* broken takes the whole page, and with it the rest of the crawl.
FirstBroken(entries) ==
    LET broken == {i \in OnlyRecords(entries) : Broken(entries[i].link)}
    IN  IF broken = {} THEN NoError ELSE Refusal[entries[Min(broken)].link]

\* What parse raises, if anything.
ParseFailure(reader, s, page) ==
    IF \/ reader = "html" /\ ~s.selector
       \/ reader \in Payloads /\ page \in s.bad
    THEN "PARSE_ERROR"
    ELSE IF reader \in {"wordpress", "json"} THEN FirstBroken(s.entries[page])
    ELSE NoError

\* What parse returns: an item for each of these places,
ParsedPlaces(reader, s, page) ==
    LET entries == s.entries[page]
    IN  CASE reader = "html" -> DOMAIN entries
          [] reader = "pdf"  -> PdfLinks(entries, s.most)
          [] reader = "ocds" -> Releases(entries)
          [] OTHER           -> OnlyRecords(entries)

\* and this is the one at place i.
ItemAt(reader, s, page, i) ==
    LET entry == s.entries[page][i]
    IN  CASE reader = "html"      -> NodeItem(entry, page)
          [] reader = "wordpress" -> PostItem(entry, page)
          [] reader = "json"      -> RecordItem(entry, page)
          [] reader = "pdf"       -> PdfItem(entry)
          [] reader = "ocds"      -> ReleaseItem(entry, page)

\* ProcurementConnector.validate.
Titled(item) == item.title # "none"

\* The places of the items that pass it.
TitledPlaces(reader, s, page) ==
    {i \in ParsedPlaces(reader, s, page) : Titled(ItemAt(reader, s, page, i))}
=============================================================================
