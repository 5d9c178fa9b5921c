------------------------------ MODULE Splitter ------------------------------
(***************************************************************************)
(* How a text becomes chunks (chunking/splitters.py).  A text is a         *)
(* sequence of letters, of which the splitters tell apart: "stop", that    *)
(* ends a sentence; "blank" and "newline"; and three that stand for a line *)
(* which means something when it begins there: "heading" (## ...), "sheet" *)
(* (## Sheet: ...) and "fence" (---).  Every other letter is ink.          *)
(* Positions count from 0 and a span ends before its end, as in the code.  *)
(***************************************************************************)
EXTENDS Integers, SequencesExt, FiniteSetsExt

CONSTANTS Target, Overlap, MinSection   \* sizes, in letters

ASSUME SizeAssumption ==
    Target \in Nat \ {0} /\ Overlap \in 0..Target /\ MinSection \in Nat

Span(a, b) == [start |-> a, end |-> b]
Size(s) == s.end - s.start

(* The members of a set of numbers, the members of a sequence at some       *)
(* places, and the members of a set of disjoint spans, as they follow.      *)
Ascending(S) ==
    [i \in 1 .. Cardinality(S) |->
        CHOOSE x \in S : Cardinality({y \in S : y < x}) = i - 1]
Only(seq, places) ==
    LET at == Ascending(places) IN [i \in DOMAIN at |-> seq[at[i]]]
InOrder(S) ==
    LET starts == Ascending({s.start : s \in S})
    IN  [i \in DOMAIN starts |-> CHOOSE s \in S : s.start = starts[i]]

White == {"blank", "newline"}
Positions(s) == s.start + 1 .. s.end
HasInk(t, s) == \E i \in Positions(s) : t[i] \notin White
Newlines(t, s) == {i \in s.start .. s.end - 1 : t[i + 1] = "newline"}

-----------------------------------------------------------------------------
(* Plain text: paragraphs, then sentences, then letters. *)

(* The longest stretches of white space within s. *)
WhiteRuns(t, s) ==
    LET edges == s.start .. s.end
        ink(i) == t[i + 1] \notin White
    IN  {r \in {Span(i, j) : i, j \in edges} :
            /\ r.start < r.end
            /\ \A i \in r.start .. r.end - 1 : ~ink(i)
            /\ r.start = s.start \/ ink(r.start - 1)
            /\ r.end = s.end \/ ink(r.end)}

(* \n\s*\n : from the first to the last newline of a run that has two.      *)
ParagraphBreaks(t, s) ==
    {Span(Min(Newlines(t, r)), Max(Newlines(t, r)) + 1) :
        r \in {q \in WhiteRuns(t, s) : Cardinality(Newlines(t, q)) > 1}}

(* (?<=[.!?])\s+ *)
SentenceBreaks(t, s) ==
    {r \in WhiteRuns(t, s) : r.start > s.start /\ t[r.start] = "stop"}

(* What the breaks leave of s, without the pieces that have no ink. *)
Pieces(t, s, breaks) ==
    {p \in {Span(i, j) : i \in {s.start} \cup {k.end : k \in breaks},
                         j \in {s.end} \cup {k.start : k \in breaks}} :
        /\ p.start < p.end
        /\ \A k \in breaks : k.end <= p.start \/ k.start >= p.end
        /\ HasInk(t, p)}

HardCut(s) ==
    {Span(i, Min({i + Target, s.end})) :
        i \in {j \in s.start .. s.end - 1 : (j - s.start) % Target = 0}}

(* Each span that fits, and what Divide makes of each that does not. *)
Refine(spans, Divide(_)) ==
    UNION {IF Size(s) <= Target THEN {s} ELSE Divide(s) : s \in spans}

(* Slip: a sentence is never cut. *)
PresplitSentences(t, spans) ==
    Refine(spans, LAMBDA s : Pieces(t, s, SentenceBreaks(t, s)))

Presplit(t, spans) ==
    Refine(spans, LAMBDA s : Refine(Pieces(t, s, SentenceBreaks(t, s)), HardCut))

-----------------------------------------------------------------------------
(* Packing: neighbours share a group as long as there is room for their     *)
(* sizes, and a new group begins with the longest tail of the one before it *)
(* that is within the overlap.                                              *)

Sums(sizes) ==
    LET sum[n \in 0 .. Len(sizes)] == IF n = 0 THEN 0 ELSE sum[n - 1] + sizes[n]
    IN  sum
Total(sizes, i, j) == Sums(sizes)[j] - Sums(sizes)[i - 1]

Carry(sizes, i, j, overlap) == Min({k \in i .. j + 1 : Total(sizes, k, j) <= overlap})

Packing(sizes, room, overlap) ==
    LET packed[n \in 1 .. Len(sizes)] ==
            IF n = 1 THEN [done |-> <<>>, first |-> 1]
            ELSE LET p == packed[n - 1]
                 IN  IF Total(sizes, p.first, n) > room
                     THEN [done |-> Append(p.done, [first |-> p.first, last |-> n - 1]),
                           first |-> Carry(sizes, p.first, n - 1, overlap)]
                     ELSE p
    IN  packed[Len(sizes)]

(* Slip: the group under way at the end is forgotten. *)
GroupsButLast(sizes, room, overlap) ==
    IF sizes = <<>> THEN <<>> ELSE Packing(sizes, room, overlap).done

Groups(sizes, room, overlap) ==
    IF sizes = <<>> THEN <<>>
    ELSE LET all == Packing(sizes, room, overlap)
         IN  Append(all.done, [first |-> all.first, last |-> Len(sizes)])

(* Each span counts with so much more. *)
Pack(spans, more, room, overlap) ==
    LET groups == Groups([i \in DOMAIN spans |-> Size(spans[i]) + more], room, overlap)
    IN  [k \in DOMAIN groups |->
            Span(spans[groups[k].first].start, spans[groups[k].last].end)]

PlainTextSpans(t, s, overlap) ==
    Pack(InOrder(Presplit(t, Pieces(t, s, ParagraphBreaks(t, s)))), 0, Target, overlap)

-----------------------------------------------------------------------------
(* Texts with lines that mean something. *)

LinesThatAre(mark, t, s) ==
    {i \in s.start .. s.end - 1 :
        t[i + 1] = mark /\ (i = s.start \/ t[i] = "newline")}

(* From each start to the next one. *)
Sections(starts, end) ==
    LET first == Ascending(starts)
    IN  [i \in DOMAIN first |->
            Span(first[i], IF i = Len(first) THEN end ELSE first[i + 1])]

(* \A---\n.*?\n---\n *)
BodyStart(t) ==
    LET closes == {j \in 3 .. Len(t) - 2 :
                      SubSeq(t, j, j + 2) = <<"newline", "fence", "newline">>}
    IN  IF closes # {} /\ SubSeq(t, 1, 2) = <<"fence", "newline">>
        THEN Min(closes) + 2 ELSE 0

(* A section goes into the one before it while that one is short. *)
Merged(sections) ==
    LET merged[n \in 0 .. Len(sections)] ==
            IF n = 0 THEN <<>>
            ELSE LET m == merged[n - 1]
                 IN  IF m # <<>> /\ Size(Last(m)) < MinSection
                     THEN Append(Front(m), Span(Last(m).start, sections[n].end))
                     ELSE Append(m, sections[n])
    IN  merged[Len(sections)]

MarkdownSpans(t) ==
    LET body == Span(BodyStart(t), Len(t))
        headings == LinesThatAre("heading", t, body) \cup LinesThatAre("sheet", t, body)
        preamble == Span(body.start, Min(headings))
        starts == IF HasInk(t, preamble) THEN headings \cup {body.start} ELSE headings
        sections == Merged(Sections(starts, body.end))
    IN  IF headings = {} THEN PlainTextSpans(t, body, Overlap)
        ELSE FlattenSeq([i \in DOMAIN sections |->
                IF Size(sections[i]) <= Target THEN <<sections[i]>>
                ELSE PlainTextSpans(t, sections[i], Overlap)])

(* A chunk's text is that of its span; in a sheet the title and the column  *)
(* names (head) come before it.                                             *)
NoHead == Span(0, 0)
Bare(spans) ==
    [i \in DOMAIN spans |-> [head |-> NoHead, rows |-> spans[i]]]

Lines(t, s) ==
    LET nl == Ascending(Newlines(t, s))
    IN  [i \in 1 .. Len(nl) + 1 |->
            Span(IF i = 1 THEN s.start ELSE nl[i - 1] + 1,
                 IF i > Len(nl) THEN s.end ELSE nl[i])]

(* Slip: the title alone is repeated, the column names are a row. *)
SheetChunksTitled(t, s) ==
    LET data == SubSeq(Lines(t, s), 2, Len(Lines(t, s)))
        head == Span(s.start, data[1].start)
        packed == Pack(data, 1, Target - Size(head), 0)
    IN  IF \A i \in DOMAIN data : ~HasInk(t, data[i]) THEN Bare(<<s>>)
        ELSE [i \in DOMAIN packed |-> [head |-> head, rows |-> packed[i]]]

SheetChunks(t, s) ==
    LET data == SubSeq(Lines(t, s), 3, Len(Lines(t, s)))
        head == Span(s.start, data[1].start)
        packed == Pack(data, 1, Target - Size(head), 0)
    IN  IF \A i \in DOMAIN data : ~HasInk(t, data[i]) THEN Bare(<<s>>)
        ELSE [i \in DOMAIN packed |-> [head |-> head, rows |-> packed[i]]]

SpreadsheetChunks(t) ==
    LET all == Span(0, Len(t))
        sheets == Sections(LinesThatAre("sheet", t, all), Len(t))
    IN  IF sheets = <<>> THEN Bare(PlainTextSpans(t, all, 0))
        ELSE FlattenSeq([i \in DOMAIN sheets |-> SheetChunks(t, sheets[i])])

split_text(t, category, extension) ==
    IF category = "readme" \/ extension = "md" THEN Bare(MarkdownSpans(t))
    ELSE IF extension \in {"xlsx", "xls"} THEN SpreadsheetChunks(t)
    ELSE Bare(PlainTextSpans(t, Span(0, Len(t)), Overlap))
=============================================================================
