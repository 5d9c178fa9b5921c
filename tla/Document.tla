------------------------------ MODULE Document ------------------------------
(***************************************************************************)
(* One file on its way through both stages: ingest classifies and extracts *)
(* it, the chunking stage reads the text back and splits it.  How runs     *)
(* interleave, fail half-way and are repeated is the subject of Ingest and *)
(* Chunking; here it is what a file's letters go through.                  *)
(***************************************************************************)
EXTENDS Extraction

CONSTANT File   \* the files that are met: a name and what is behind it

ASSUME FileAssumption ==
    \A f \in File : /\ f.world.library \in Library
                    /\ f.world.parts \in Seq(Seq(STRING))
                    /\ f.world.scan \in Seq(Seq([text : STRING, conf : Int]))
                    /\ f.world.sheets \in Seq(Seq(Seq(STRING)))
                    /\ f.name.extension = "xls" => f.world.sheets # <<>>

VARIABLES file, stage, category, status, text, chunks
vars == <<file, stage, category, status, text, chunks>>

Init ==
    /\ file \in File
    /\ stage = "walked"
    /\ category = "none" /\ status = "none"
    /\ text = <<>> /\ chunks = <<>>

Classify ==
    /\ stage = "walked"
    /\ category' = classify(file.name)
    /\ IF category' \in {"include", "readme"}
       THEN stage' = "hashed" /\ UNCHANGED status
       ELSE stage' = "done" /\ status' = "skipped"
    /\ UNCHANGED <<file, text, chunks>>

Extract ==
    /\ stage = "hashed"
    /\ LET result == Worker(category, file.name.extension, file.world)
       IN  status' = result.status /\ text' = result.text
    /\ stage' = "extracted"
    /\ UNCHANGED <<file, category, chunks>>

(* Files without a text are not eligible; a blank text has no chunks. *)
Split ==
    /\ stage = "extracted"
    /\ chunks' = IF status \in TextStatuses /\ HasInk(text, Span(0, Len(text)))
                 THEN split_text(text, category, file.name.extension) ELSE <<>>
    /\ stage' = "done"
    /\ UNCHANGED <<file, category, status, text>>

Next == Classify \/ Extract \/ Split
Spec == Init /\ [][Next]_vars

-----------------------------------------------------------------------------
Done == stage = "done" /\ status \in TextStatuses
world == file.world
extension == file.name.extension
IsMarkdown == category = "readme" \/ extension = "md"
IsSheet == ~IsMarkdown /\ extension \in {"xlsx", "xls"}
IsScan == status \in {"ocr_extracted", "ocr_low_confidence"}

IsConverted == category = "readme" /\ extension # "md"

(* The letters that are no words: white space, and in notes that became     *)
(* Markdown the notation of either, with the dates repeated in headings.    *)
Notation == {"section", "colon", "hash", "heading", "mark", "date"}
Mute == IF IsConverted THEN White \cup Notation ELSE White

Inked(t, mute) == {i \in DOMAIN t : t[i] \notin mute}
Ink(t, mute) == Only(t, Inked(t, mute))

(* What convert_to_md.sh leaves out of the notes: the header line and every *)
(* other line that begins with a hyphen and has two more, rules, the lines  *)
(* that begin with a weekday, and sections that repeat the title.           *)
LeftOut(l, top) == Kind(l) \in {"header", "rule", "day"} \/ IsTitle(l, top)

(* The letters a reader of the file would see, in order.  Accepted by the   *)
(* documents: of an .xls only the first sheet; of a Markdown text what      *)
(* follows its front matter.  Of converted notes the title comes first and  *)
(* then every line but those the script leaves out.                         *)
SourceInk ==
    LET lines == Joined(world.parts, NewLine)
        body == SubSeq(lines, BodyStart(lines) + 1, Len(lines))
        top == title(world.parts)
        kept(l) == IF LeftOut(RightStripped(l), top) THEN <<>> ELSE l
        sheet(rows) == <<"sheet">> \o FlattenSeq(rows)
    IN  IF IsScan
        THEN FlattenSeq([i \in DOMAIN world.scan |->
                [j \in DOMAIN world.scan[i] |-> world.scan[i][j].text]])
        ELSE IF IsConverted
             THEN top \o FlattenSeq([i \in DOMAIN world.parts |-> kept(world.parts[i])])
        ELSE IF IsMarkdown THEN body
        ELSE IF extension = "xlsx"
             THEN FlattenSeq([i \in DOMAIN world.sheets |-> sheet(world.sheets[i])])
        ELSE IF extension = "xls" THEN FlattenSeq(world.sheets[1])
        ELSE FlattenSeq(world.parts)

(* No word is lost on the way from the file to its chunks: what the chunks  *)
(* cover, read in order, is the ink of the source, whichever way the file   *)
(* was extracted, split, packed or merged (splitters.py, extractors/); of   *)
(* converted notes, the words of their lines but those the script is        *)
(* written to leave out (convert_to_md.sh:118-131, 150).                    *)
NothingLost ==
    Done => LET covered == UNION {Positions(chunks[i].head) \cup Positions(chunks[i].rows) :
                                  i \in DOMAIN chunks}
            IN  Only(text, covered \cap Inked(text, Mute)) = Ink(SourceInk, Mute)

InkIn(positions) == {p \in positions : text[p] \notin White}

SmallEnough(c) ==
    IF c.head = NoHead
    THEN \/ IsSheet /\ text[1] = "sheet"
         \/ Cardinality(InkIn(Positions(c.rows))) <= Target + Overlap
    ELSE \/ Size(c.head) + Size(c.rows) <= Target
         \/ Newlines(text, c.rows) = {}

Follows(b, a) ==
    /\ a.start <= b.start /\ a.end < b.end
    /\ Cardinality(InkIn(Positions(a) \cap Positions(b))) <= Overlap

(* Chunks stay small enough to be embedded: without the white space between *)
(* paragraphs a chunk of text has no more than the target and the overlap;  *)
(* a chunk of a sheet is within the target, head included, or has one row.  *)
(* And they go forward: of two neighbours the later starts and ends later,  *)
(* and what both contain is within the overlap (_pack_spans,                *)
(* chunk_spreadsheet).                                                      *)
ChunksBounded ==
    Done => \A i \in DOMAIN chunks :
        /\ SmallEnough(chunks[i])
        /\ i > 1 => Follows(chunks[i].rows, chunks[i - 1].rows)

(* A stretch of the text that is two lines and their ends. *)
TwoLines(s) == \E m \in s.start .. s.end - 2 : Newlines(text, s) = {m, s.end - 1}

(* A chunk of a workbook speaks of one sheet.  It repeats the line of that  *)
(* sheet's title and the line below it, and what follows begins where a     *)
(* line begins, ends where a line ends and is in no other chunk; or it is   *)
(* from the title to the next one (chunk_spreadsheet, splitters.py:156-209).*)
(* That lines are rows, and the one below the title the column names, is    *)
(* the subject of RowsWhole.                                                *)
LinesApart ==
    Done /\ IsSheet /\ extension = "xlsx" =>
        \A i \in DOMAIN chunks :
            LET c == chunks[i]
                own == IF c.head = NoHead THEN c.rows.start ELSE c.head.start
            IN  /\ text[own + 1] = "sheet"
                /\ \A p \in own + 2 .. c.rows.end : text[p] # "sheet"
                /\ \/ /\ c.head = NoHead
                      /\ c.rows.end = Len(text) \/ text[c.rows.end + 1] = "sheet"
                   \/ /\ TwoLines(c.head)
                      /\ c.head.end <= c.rows.start /\ text[c.rows.start] = "newline"
                      /\ \/ c.rows.end = Len(text)
                         \/ text[c.rows.end + 1] \in {"newline", "sheet"}
                /\ \A j \in DOMAIN chunks \ {i} :
                        Positions(c.rows) \cap Positions(chunks[j].rows) = {}

(* Every chunk of a workbook shows the title of a sheet, its column names   *)
(* (its first row) and some of its other rows, each whole and one after the *)
(* other: "repeat the header row (the first row after the `## Sheet:` line) *)
(* at the top of every chunk" (Doc/step-3-requirements.md:66).  It does not *)
(* when a cell holds a line break: the splitter knows lines, not rows.      *)
RowsWhole ==
    LET shown(c) == SubSeq(text, c.head.start + 1, c.head.end)
                        \o SubSeq(text, c.rows.start + 1, c.rows.end)
        lines(k) == SheetBlocks(world.sheets[k])
    IN  Done /\ IsSheet /\ extension = "xlsx" =>
            \A i \in DOMAIN chunks : \E k \in DOMAIN world.sheets :
                LET top == Only(lines(k), {1, 2} \cap DOMAIN lines(k))
                    rows == SubSeq(lines(k), 3, Len(lines(k)))
                IN  \E a \in 1 .. Len(rows) + 1 : \E b \in a - 1 .. Len(rows) :
                        Ink(shown(chunks[i]), White)
                            = Ink(FlattenSeq(top \o SubSeq(rows, a, b)), White)

HasBrokenCell ==
    \E k \in DOMAIN world.sheets : \E r \in DOMAIN world.sheets[k] :
        \E p \in DOMAIN world.sheets[k][r] : world.sheets[k][r][p] = "newline"

(* A chunk of a workbook speaks of one sheet, under its title and the line  *)
(* below it, in lines that are whole and in no other chunk; and as long as  *)
(* no cell holds a line break, these are the sheet's column names and whole *)
(* rows (chunk_spreadsheet, extract_xlsx).                                  *)
SheetsApart == LinesApart /\ (HasBrokenCell \/ RowsWhole)

(* Nothing is searchable that no reader vouches for: an encrypted file has  *)
(* no chunks, nor one its library or tool failed on, and what was scanned   *)
(* has words of the confidence its status claims (extractors/, worker).     *)
VouchedFor ==
    chunks # <<>> =>
        /\ category = "include" /\ extension \in {"pdf", "doc", "docx", "xls", "xlsx"}
                => ~world.encrypted
        /\ category = "include" /\ extension \in {"doc", "xls"} => world.tool = "works"
        /\ category = "readme" \/ extension \notin {"doc", "xls"} => world.library = "works"
        /\ IsScan => \E i \in DOMAIN world.scan : \E j \in DOMAIN world.scan[i] :
                        world.scan[i][j].conf >= (IF status = "ocr_extracted" THEN ConfidenceHigh
                                              ELSE ConfidenceLow)

(* In converted notes "indented lines [are] converted to Markdown list      *)
(* items" (convert_to_md.sh:14, 245).  One that begins with a hyphen and    *)
(* has two more is taken for the header line and left out (line 118).       *)
IndentedListed ==
    Done /\ IsConverted => \A i \in DOMAIN world.parts :
        LET l == RightStripped(world.parts[i])
            item == <<"mark">> \o LeftStripped(l)
        IN  l # <<>> /\ l[1] \in White =>
                \E p \in 1 .. Len(text) - Len(item) + 1 :
                    SubSeq(text, p, p + Len(item) - 1) = item

(* Every chunk of a spreadsheet repeats the column names of its sheet below *)
(* the sheet's title (Step 3, section 3c): "Step 1 always emits a Sheet     *)
(* header" (splitters.py:158).  The conversion of an .xls does not.         *)
HeaderRepeated ==
    Done /\ IsSheet => \A i \in DOMAIN chunks :
        text[(IF chunks[i].head = NoHead THEN chunks[i].rows ELSE chunks[i].head).start + 1]
            = "sheet"
=============================================================================
