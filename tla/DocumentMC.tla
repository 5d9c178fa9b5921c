----------------------------- MODULE DocumentMC -----------------------------
(* Small files for TLC. *)
EXTENDS Document

Included == {"txt", "md", "docx", "doc", "xlsx", "xls", "pdf", "png"}
Excluded == {"zip"}

Name(ext) == [backup |-> FALSE, readme |-> FALSE, extension |-> ext]
Sound == [encrypted |-> FALSE, library |-> "works", tool |-> "works",
          parts |-> <<>>, scan |-> <<>>, sheets |-> <<>>]
SeqUpTo(S, n) == UNION {[1..k -> S] : k \in 0..n}

(* Files that are in order: short texts of the pieces that matter to the    *)
(* splitter of their kind, small workbooks, small scans.                    *)
CONSTANTS PlainPieces, MarkdownPieces, NoteLines

Word3 == <<"a", "a", "a">>
Long == <<"a", "a", "a", "a", "a", "a", "a", "a", "a">>
Plain == {Word3, Long, <<"a", "stop", "blank">>, EmptyLine, <<"newline", "blank", "newline">>}
Marked == {Word3, Long, EmptyLine, <<"newline", "heading">>, <<"fence", "newline">>,
           <<"newline", "fence", "newline">>}
TextFile(ext, t) == [name |-> Name(ext), world |-> [Sound EXCEPT !.parts = <<t>>]]
Texts ==
    {TextFile("txt", FlattenSeq(s)) : s \in SeqUpTo(Plain, PlainPieces)} \cup
    {TextFile("md", FlattenSeq(s)) : s \in SeqUpTo(Marked, MarkdownPieces)}

Row == {<<>>, <<"a">>, <<"b", "c">>, <<"d", "newline", "e">>}
Workbooks ==
    {[name |-> Name(ext), world |-> [Sound EXCEPT !.sheets = <<s1>> \o rest]] :
        ext \in {"xlsx", "xls"}, s1 \in SeqUpTo(Row, 4),
        rest \in {<<>>} \cup {<<s2>> : s2 \in SeqUpTo(Row, 1)}}

Word == [text : {"a", "blank"}, conf : {-1, 0, 2, 4}]
Scans ==
    {[name |-> Name(ext), world |-> [Sound EXCEPT !.parts = [i \in DOMAIN s |-> <<>>], !.scan = s]] :
        ext \in {"png", "pdf"},
        s \in {<<p>> : p \in SeqUpTo(Word, 2)} \cup
              {<<p, <<[text |-> "b", conf |-> c]>>>> : p \in SeqUpTo(Word, 1), c \in {-1, 2}}}

(* Files that are not: whatever can fail, alone or with something else, on  *)
(* files of every kind, the excluded ones included.                         *)
Troubled ==
    {[name |-> [backup |-> b, readme |-> r, extension |-> ext],
      world |-> [Sound EXCEPT !.encrypted = enc, !.library = lib, !.tool = tl,
                              !.parts = ps, !.scan = <<<<[text |-> "a", conf |-> 4]>>>>,
                              !.sheets = <<ps, ps>>]] :
        b \in BOOLEAN, r \in BOOLEAN, ext \in Included \cup Excluded \cup {"exe"},
        enc \in BOOLEAN, lib \in Library, tl \in Tool,
        ps \in {<<<<>>>>, <<<<"a">>, <<"b", "stop">>>>}}

(* Notes that convert_to_md.sh makes Markdown of: lines of every kind.      *)
NoteLine == {<<>>, <<"a">>, <<"blank", "a">>, <<"hash", "blank", "a">>, <<"heading", "a">>,
          <<"section", "blank", "a", "colon">>, <<"section", "b">>,
          <<"day", "date">>, <<"day", "a">>, <<"dashes", "a">>, <<"blank", "dashes", "a">>,
          <<"rule">>, <<"field", "a", "blank">>, <<"url">>, Long}
Notes ==
    {[name |-> [backup |-> FALSE, readme |-> TRUE, extension |-> "txt"],
      world |-> [Sound EXCEPT !.parts = ls]] : ls \in SeqUpTo(NoteLine, NoteLines)}

Files == Texts \cup Notes \cup Workbooks \cup Scans \cup Troubled
=============================================================================
