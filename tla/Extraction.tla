----------------------------- MODULE Extraction -----------------------------
(***************************************************************************)
(* From a file to its text (ingest/classify.py, ingest/extractors, and the *)
(* worker of ingest/pipeline.py that calls them).  A file is a name and    *)
(* what is behind it:                                                      *)
(*   encrypted       its container says so                                 *)
(*   library         does the Python library open it and read it through   *)
(*   tool            what the program it needs does: soffice, tesseract or *)
(*                   convert_to_md.sh                                      *)
(*   parts           its paragraphs, or the text layers of its pages       *)
(*   scan            of every page, the words tesseract reads, each with   *)
(*                   its confidence (negative: none given)                 *)
(*   sheets          of every sheet, its rows                              *)
(***************************************************************************)
EXTENDS Splitter

CONSTANTS
    IncludeExtensions, ExcludeExtensions,
    PdfTextMin,        \* a text layer shorter than this is scanned instead
    EmptyMin,          \* a conversion shorter than this is suspect
    ConfidenceHigh, ConfidenceLow

Library == {"works", "cannot_open", "cannot_read"}
Tool == {"works", "absent", "hangs", "exits", "no_output", "unreadable"}
TextStatuses == {"extracted", "ocr_extracted", "ocr_low_confidence"}

classify(name) ==
    IF name.backup THEN "excluded"
    ELSE IF name.readme THEN "readme"
    ELSE IF name.extension \in IncludeExtensions THEN "include"
    ELSE IF name.extension \in ExcludeExtensions THEN "excluded"
    ELSE "unclassified"

Extracted(text) == [status |-> "extracted", text |-> text]
NoText(status) == [status |-> status, text |-> <<>>]
Raises == NoText("raises")

Joined(parts, separator) ==
    FlattenSeq([i \in DOMAIN parts |->
        IF i = 1 THEN parts[i] ELSE separator \o parts[i]])

StripLen(t) ==
    LET ink == {i \in DOMAIN t : t[i] \notin White}
    IN  IF ink = {} THEN 0 ELSE Max(ink) - Min(ink) + 1

NewLine == <<"newline">>
EmptyLine == <<"newline", "newline">>

-----------------------------------------------------------------------------
(* Scans: pdf.py and image.py judge the words in the same way. *)

Words(page) == Only(page, {i \in DOMAIN page : page[i].text \notin White})

(* The places of the words that have a confidence, and what they sum up to. *)
Known(scan) ==
    UNION {{<<i, j>> : j \in {k \in DOMAIN scan[i] :
                    scan[i][k].text \notin White /\ scan[i][k].conf >= 0}} : i \in DOMAIN scan}
ConfidenceOf(scan, places) == MapThenSumSet(LAMBDA p : scan[p[1]][p[2]].conf, places)

(* Slip: a scan whose words have no confidence at all is as good as any. *)
AverageAtLeastOfNone(scan, limit) ==
    ConfidenceOf(scan, Known(scan)) >= limit * Cardinality(Known(scan))

AverageAtLeast(scan, limit) ==
    IF Known(scan) = {} THEN limit <= 0
    ELSE ConfidenceOf(scan, Known(scan)) >= limit * Cardinality(Known(scan))

Recognised(scan) ==
    LET page(p) == LET words == Words(p)
                   IN  Joined([i \in DOMAIN words |-> <<words[i].text>>], <<"blank">>)
        text == Joined([i \in DOMAIN scan |-> page(scan[i])], EmptyLine)
    IN  IF StripLen(text) = 0 THEN NoText("failed")
        ELSE IF AverageAtLeast(scan, ConfidenceHigh)
             THEN [status |-> "ocr_extracted", text |-> text]
        ELSE IF AverageAtLeast(scan, ConfidenceLow)
             THEN [status |-> "ocr_low_confidence", text |-> text]
        ELSE NoText("failed")

extract_image(w) ==
    IF w.library # "works" \/ w.tool # "works" THEN NoText("failed")
    ELSE Recognised(w.scan)

extract_pdf(w) ==
    LET text == Joined(w.parts, EmptyLine)
    IN  IF w.library = "cannot_open" THEN NoText("failed")
        ELSE IF w.encrypted THEN NoText("encrypted")
        ELSE IF w.library = "cannot_read" THEN NoText("failed")
        ELSE IF StripLen(text) >= PdfTextMin THEN Extracted(text)
        ELSE IF w.tool # "works" THEN NoText("failed")
        ELSE Recognised(w.scan)

-----------------------------------------------------------------------------
(* Office files. *)

Unless(w, result) == IF w.encrypted THEN NoText("encrypted") ELSE result

extract_docx(w) ==
    Unless(w, IF w.library # "works" THEN NoText("failed")
              ELSE Extracted(Joined(w.parts, NewLine)))

SheetBlocks(rows) ==
    <<<<"sheet">>>> \o Only(rows, {i \in DOMAIN rows : rows[i] # <<>>})

(* Rows are read outside the handler: a workbook that opens and cannot be   *)
(* read through makes the extractor raise.                                  *)
extract_xlsx(w) ==
    LET blocks == [i \in DOMAIN w.sheets |-> SheetBlocks(w.sheets[i])]
    IN  Unless(w, IF w.library = "cannot_open" THEN NoText("failed")
                  ELSE IF w.library = "cannot_read" THEN Raises
                  ELSE Extracted(Joined(FlattenSeq(blocks), NewLine)))

(* _run_soffice, the reading of its output and the check of it. *)
Converted(w, text) ==
    IF w.tool # "works" THEN NoText("failed")
    ELSE IF StripLen(text) < EmptyMin THEN NoText("warning_empty_conversion")
    ELSE Extracted(text)

extract_doc_legacy(w) == Unless(w, Converted(w, Joined(w.parts, NewLine)))

(* Comma-separated values of the first sheet only, without its title. *)
extract_xls_legacy(w) == Unless(w, Converted(w, Joined(w.sheets[1], NewLine)))

-----------------------------------------------------------------------------
(* convert_to_md.sh: notes, line by line, become Markdown.  What a line is   *)
(* shows in its first letter: "dashes" or "fence" (two more hyphens follow), *)
(* "rule" (seventy of =), "day" (a weekday; with "date" one that is a date), *)
(* "section" (==), "hash", "heading" or "sheet" (#), "field" (a status, an   *)
(* address, a number, a key with its value), "url".  A "mark" is what the    *)
(* script writes before a line it formats.                                   *)

RightStripped(l) == SubSeq(l, 1, Max({0} \cup {i \in DOMAIN l : l[i] \notin White}))
LeftStripped(l) ==
    SubSeq(l, Min({Len(l) + 1} \cup {i \in DOMAIN l : l[i] \notin White}), Len(l))

(* What the loop takes a line for. *)
Kind(l) ==
    IF l = <<>> THEN "empty"
    ELSE IF LeftStripped(l)[1] \in {"dashes", "fence"} THEN "header"
    ELSE IF l[1] \in White THEN "item"
    ELSE IF l[1] \in {"hash", "heading", "sheet"} THEN "comment"
    ELSE IF l[1] \in {"rule", "day", "section", "field", "url"} THEN l[1]
    ELSE "plain"

AfterMark(l) == LeftStripped(Tail(l))
section(l) ==
    LET name == AfterMark(l)
    IN  IF name # <<>> /\ Last(name) = "colon" THEN Front(name) ELSE name

(* ^== , with a blank *)
IsTopHeading(l) == Len(l) > 1 /\ l[1] = "section" /\ l[2] = "blank"

title(notes) ==
    LET sections == {i \in DOMAIN notes : IsTopHeading(notes[i])}
        first == AfterMark(notes[Min(sections)])
    IN  IF sections = {} \/ first = <<>> THEN <<"untitled">> ELSE first

IsTitle(l, top) == Kind(l) = "section" /\ section(l) = top

(* The loop's variables when it comes to line i. *)
current_date(lines, i) ==
    LET days == {d \in 1 .. i - 1 : Kind(lines[d]) = "day"}
    IN  IF days # {} /\ lines[Max(days)] = <<"day", "date">> THEN <<"date">> ELSE <<>>

pending_date(lines, i, top) ==
    \E d \in 1 .. i - 1 :
        /\ Kind(lines[d]) = "day"
        /\ \A k \in d + 1 .. i - 1 : \/ Kind(lines[k]) \in {"header", "rule", "day", "empty"}
                                      \/ IsTitle(lines[k], top)

(* The line before i that closed or opened a paragraph or a quote. *)
block(lines, i) ==
    LET before == {k \in 1 .. i - 1 : Kind(lines[k]) \notin {"header", "day"}}
    IN  IF before = {} THEN "none" ELSE Kind(lines[Max(before)])

Gap(open, kind) ==
    (IF open \in {"plain", "comment"} \ {kind} THEN NewLine ELSE <<>>)
    \o (IF kind = "plain" /\ open # "plain" THEN NewLine ELSE <<>>)

Heading(date, name) == NewLine \o <<"heading">> \o date \o name \o EmptyLine

Formatted(l) ==
    CASE Kind(l) = "item" -> <<"mark">> \o LeftStripped(l)
      [] Kind(l) = "comment" -> <<"mark">> \o (IF l[1] = "hash" THEN AfterMark(l) ELSE l)
      [] Kind(l) = "field" -> <<"mark">> \o l
      [] OTHER -> l

(* What the loop writes for line i. *)
Written(lines, i, top) ==
    LET l == lines[i]
        date == current_date(lines, i)
        gap == Gap(block(lines, i), Kind(l))
    IN  CASE Kind(l) \in {"header", "day"} -> <<>>
          [] Kind(l) \in {"rule", "empty"} \/ IsTitle(l, top) -> gap
          [] Kind(l) = "section" /\ ~IsTitle(l, top) -> gap \o Heading(date, section(l))
          [] OTHER -> (IF pending_date(lines, i, top) THEN Heading(date, <<>>) ELSE <<>>)
                      \o gap \o Formatted(l) \o NewLine

(* The header between fences, the title, the lines. *)
Preface == <<"fence", "newline", "tag", "newline", "fence", "newline">>

convert_to_md(notes) ==
    LET lines == [i \in DOMAIN notes |-> RightStripped(notes[i])]
        top == title(notes)
        body == FlattenSeq([i \in DOMAIN lines |-> Written(lines, i, top)])
    IN  Preface \o (NewLine \o <<"mark">> \o top \o EmptyLine \o body \o NewLine)

-----------------------------------------------------------------------------
(* Texts. *)

extract_plain_text(w) ==
    IF w.library # "works" THEN NoText("failed") ELSE Extracted(Joined(w.parts, NewLine))

extract_readme(extension, w) ==
    IF extension = "md" THEN extract_plain_text(w)
    ELSE IF w.tool # "works" \/ w.library # "works" THEN NoText("failed")
    ELSE Extracted(convert_to_md(w.parts))

extract(category, extension, w) ==
    CASE category = "readme" -> extract_readme(extension, w)
      [] category # "readme" /\ extension \in {"txt", "text", "md"} -> extract_plain_text(w)
      [] category # "readme" /\ extension = "pdf" -> extract_pdf(w)
      [] category # "readme" /\ extension = "docx" -> extract_docx(w)
      [] category # "readme" /\ extension = "doc" -> extract_doc_legacy(w)
      [] category # "readme" /\ extension = "xlsx" -> extract_xlsx(w)
      [] category # "readme" /\ extension = "xls" -> extract_xls_legacy(w)
      [] category # "readme" /\ extension \in {"png", "jpg", "jpeg", "bmp", "gif"} -> extract_image(w)
      [] OTHER -> NoText("failed")

(* The worker: an extractor that raises has failed, and the text counts     *)
(* only with a status that vouches for it.                                  *)
Worker(category, extension, w) ==
    LET result == extract(category, extension, w)
    IN  [status |-> IF result = Raises THEN "failed" ELSE result.status,
         text |-> IF result.status \in TextStatuses THEN result.text ELSE <<>>]
=============================================================================
