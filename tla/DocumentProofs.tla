--------------------------- MODULE DocumentProofs ---------------------------
(***************************************************************************)
(* Theorems about Document, for every file, whatever fails on it: what is  *)
(* searchable is vouched for, chunks are small, sheets are apart, and no   *)
(* word is lost.                                                           *)
(***************************************************************************)
EXTENDS Document, SplitterProofs

(* What vouches for a text of this status. *)
Backed(f, kind, how) ==
    LET w == f.world
        ext == f.name.extension
    IN  /\ kind = "include" /\ ext \in {"pdf", "doc", "docx", "xls", "xlsx"} => ~w.encrypted
        /\ kind = "include" /\ ext \in {"doc", "xls"} => w.tool = "works"
        /\ kind = "readme" \/ ext \notin {"doc", "xls"} => w.library = "works"
        /\ how \in {"ocr_extracted", "ocr_low_confidence"} =>
              \E i \in DOMAIN w.scan : \E j \in DOMAIN w.scan[i] :
                  w.scan[i][j].conf >= (IF how = "ocr_extracted" THEN ConfidenceHigh
                                        ELSE ConfidenceLow)

IInv ==
    /\ file \in File
    /\ stage \in {"walked", "hashed", "extracted", "done"}
    /\ stage = "walked" => status = "none"
    /\ stage = "hashed" => category \in {"include", "readme"} /\ status = "none"
    /\ status \in TextStatuses => Backed(file, category, status)
    /\ chunks # <<>> => status \in TextStatuses

-----------------------------------------------------------------------------
(* What words sum up to. *)

Conf(scan, p) == scan[p[1]][p[2]].conf
OneOf(S) == CHOOSE x \in S : TRUE

IsSum(g, scan, S) ==
    g = [T \in SUBSET S |-> IF T = {} THEN 0 ELSE Conf(scan, OneOf(T)) + g[T \ {OneOf(T)}]]

(* The places can be summed up, in one way. *)
Summable(scan, S) ==
    /\ \E g : IsSum(g, scan, S)
    /\ \A g, h : IsSum(g, scan, S) /\ IsSum(h, scan, S) => g[S] = h[S]

LEMMA SumFolds ==
    ASSUME NEW scan, NEW S, Summable(scan, S)
    PROVE  \E g : IsSum(g, scan, S) /\ ConfidenceOf(scan, S) = g[S]
<1>1. IsSum(CHOOSE g : IsSum(g, scan, S), scan, S)
  BY DEF Summable
<1>2. ConfidenceOf(scan, S) = (CHOOSE g : IsSum(g, scan, S))[S]
  BY DEF ConfidenceOf, MapThenSumSet, MapThenFoldSet, IsSum, Conf, OneOf
<1> QED
  BY ONLY <1>1, <1>2

LEMMA Restricted ==
    ASSUME NEW scan, NEW S, NEW g, IsSum(g, scan, S), NEW U \in SUBSET S
    PROVE  IsSum([T \in SUBSET U |-> g[T]], scan, U)
<1> DEFINE r == [T \in SUBSET U |-> g[T]]
<1>1. ASSUME NEW T \in SUBSET U, T # {}
      PROVE  g[T] = Conf(scan, OneOf(T)) + r[T \ {OneOf(T)}]
  <2>1. T \in SUBSET S /\ T \ {OneOf(T)} \in SUBSET U
    OBVIOUS
  <2>2. g[T] = Conf(scan, OneOf(T)) + g[T \ {OneOf(T)}]
    BY <1>1, <2>1 DEF IsSum
  <2> QED
    BY <2>1, <2>2
<1>2. g[{}] = 0
  BY DEF IsSum
<1>3. r = [T \in SUBSET U |-> IF T = {} THEN 0 ELSE Conf(scan, OneOf(T)) + r[T \ {OneOf(T)}]]
  BY ONLY <1>1, <1>2
<1> QED
  BY <1>3 DEF IsSum

(* Places all of whose proper subsets can be summed up. *)
LEMMA SumOneMore ==
    ASSUME NEW scan, NEW S, \A U \in SUBSET S : U # S => Summable(scan, U)
    PROVE  /\ Summable(scan, S)
           /\ S = {} => ConfidenceOf(scan, S) = 0
           /\ S # {} => ConfidenceOf(scan, S)
                            = Conf(scan, OneOf(S)) + ConfidenceOf(scan, S \ {OneOf(S)})
<1> DEFINE sum(T) == ConfidenceOf(scan, T)
           of(T) == IF T = {} THEN 0 ELSE Conf(scan, OneOf(T)) + sum(T \ {OneOf(T)})
           h == [T \in SUBSET S |-> of(T)]
<1>1. ASSUME NEW g, NEW T, Summable(scan, T), IsSum(g, scan, T) PROVE g[T] = sum(T)
  BY <1>1, SumFolds DEF Summable
<1>2. ASSUME NEW T, NEW g, IsSum(g, scan, T), T # {}, \A U \in SUBSET T : U # T => Summable(scan, U)
      PROVE  g[T] = of(T)
  <2>1. OneOf(T) \in T
    BY <1>2 DEF OneOf
  <2> DEFINE U == T \ {OneOf(T)}
             r == [V \in SUBSET U |-> g[V]]
  <2>2. U \in SUBSET T /\ U # T
    BY <2>1
  <2>3. IsSum(r, scan, U)
    BY <1>2, <2>2, Restricted
  <2>4. r[U] = sum(U)
    <3> HIDE DEF r, U, sum
    <3> QED
      BY <1>1, <1>2, <2>2, <2>3
  <2>5. g[T] = Conf(scan, OneOf(T)) + g[U]
    BY <1>2 DEF IsSum
  <2> QED
    BY <1>2, <2>4, <2>5
<1>3. \A T \in SUBSET S : T # S => sum(T) = of(T)
  <2> SUFFICES ASSUME NEW T \in SUBSET S, T # S PROVE sum(T) = of(T)
    OBVIOUS
  <2>1. Summable(scan, T) /\ \A U \in SUBSET T : U # T => Summable(scan, U)
    OBVIOUS
  <2>2. PICK g : IsSum(g, scan, T) /\ sum(T) = g[T]
    BY <2>1, SumFolds
  <2>3. CASE T = {}
    BY <2>2, <2>3 DEF IsSum
  <2>4. CASE T # {}
    <3> HIDE DEF sum, of
    <3> QED
      BY <1>2, <2>1, <2>2, <2>4
  <2> QED
    BY <2>3, <2>4
<1>4. IsSum(h, scan, S)
  <2>1. ASSUME NEW T \in SUBSET S, T # {}
        PROVE  h[T] = Conf(scan, OneOf(T)) + h[T \ {OneOf(T)}]
    <3>1. OneOf(T) \in T
      BY <2>1 DEF OneOf
    <3>2. T \ {OneOf(T)} \in SUBSET S /\ T \ {OneOf(T)} # S
      BY <3>1
    <3>3. sum(T \ {OneOf(T)}) = of(T \ {OneOf(T)})
      <4> HIDE DEF sum, of
      <4> QED
        BY <1>3, <3>2
    <3>4. h[T] = Conf(scan, OneOf(T)) + sum(T \ {OneOf(T)})
      BY <2>1
    <3>5. h[T \ {OneOf(T)}] = of(T \ {OneOf(T)})
      BY <3>2
    <3> HIDE DEF h, sum, of
    <3> QED
      BY <3>3, <3>4, <3>5
  <2>2. h[{}] = 0
    OBVIOUS
  <2>3. h = [T \in SUBSET S |-> IF T = {} THEN 0 ELSE Conf(scan, OneOf(T)) + h[T \ {OneOf(T)}]]
    BY ONLY <2>1, <2>2
  <2> QED
    BY <2>3 DEF IsSum
<1>5. ASSUME NEW g, IsSum(g, scan, S) PROVE g[S] = of(S)
  <2>1. CASE S = {}
    BY <1>5, <2>1 DEF IsSum
  <2>2. CASE S # {}
    <3> HIDE DEF of
    <3> QED
      BY <1>2, <1>5, <2>2
  <2> QED
    BY <2>1, <2>2
<1> HIDE DEF h, of
<1>6. Summable(scan, S)
  BY <1>4, <1>5 DEF Summable
<1>7. sum(S) = of(S)
  BY <1>4, <1>5, <1>1, <1>6
<1> QED
  BY <1>6, <1>7 DEF of

(* Numbers that are each below a limit are below it on the average. *)
LEMMA BelowOnAverage ==
    ASSUME NEW scan, NEW S, IsFiniteSet(S), NEW limit \in Int,
           \A p \in S : Conf(scan, p) \in Int /\ Conf(scan, p) < limit
    PROVE  /\ ConfidenceOf(scan, S) \in Int
           /\ ConfidenceOf(scan, S) + Cardinality(S) <= limit * Cardinality(S)
<1> DEFINE sum(T) == ConfidenceOf(scan, T)
           Low(T) == /\ Summable(scan, T) /\ sum(T) \in Int
                     /\ sum(T) + Cardinality(T) <= limit * Cardinality(T)
           Bad == {T \in SUBSET S : ~Low(T)}
<1>1. ASSUME NEW T \in SUBSET S, \A U \in SUBSET T : U # T => Low(U) PROVE Low(T)
  <2>1. /\ Summable(scan, T)
        /\ T = {} => sum(T) = 0
        /\ T # {} => sum(T) = Conf(scan, OneOf(T)) + sum(T \ {OneOf(T)})
    <3>1. \A U \in SUBSET T : U # T => Summable(scan, U)
      BY <1>1
    <3> QED
      BY <3>1, SumOneMore
  <2>2. CASE T = {}
    <3>1. Cardinality(T) = 0
      BY <2>2, FS_EmptySet
    <3> QED
      BY <2>1, <2>2, <3>1
  <2>3. CASE T # {}
    <3>1. PICK x \in T : x = OneOf(T)
      BY <2>3 DEF OneOf
    <3>2. PICK U : U = T \ {x}
      OBVIOUS
    <3>3. IsFiniteSet(T) /\ U \in SUBSET T /\ U # T
      BY <3>1, <3>2, FS_Subset
    <3>4. Cardinality(T) \in Nat /\ Cardinality(U) = Cardinality(T) - 1
      BY <3>2, <3>3, FS_RemoveElement, FS_CardinalityType
    <3>5. sum(U) \in Int /\ sum(U) + Cardinality(U) <= limit * Cardinality(U)
      BY <1>1, <3>3
    <3>6. sum(T) = Conf(scan, x) + sum(U) /\ Conf(scan, x) \in Int /\ Conf(scan, x) < limit
      BY <2>1, <2>3, <3>1, <3>2
    <3>7. PICK n \in Nat, m \in Int, a \in Int, b \in Int, c \in Int :
              /\ n = Cardinality(T) /\ m = Cardinality(U)
              /\ a = sum(T) /\ b = sum(U) /\ c = Conf(scan, x)
      BY <3>4, <3>5, <3>6
    <3>8. m = n - 1 /\ b + m <= limit * m /\ a = c + b /\ c < limit
      BY <3>4, <3>5, <3>6, <3>7
    <3>9. limit * (n - 1) = limit * n - limit
      BY ONLY n \in Nat, limit \in Int
    <3>10. limit * n \in Int
      BY ONLY n \in Nat, limit \in Int
    <3>11. a + n <= limit * n
      <4>1. PICK z \in Int : z = limit * n
        BY <3>10
      <4>2. b + m <= z - limit
        BY <3>8, <3>9, <4>1
      <4>3. a + n <= z
        BY ONLY <3>8, <4>2, n \in Nat, m \in Int, b \in Int, c \in Int, limit \in Int, z \in Int
      <4> QED
        BY <4>1, <4>3
    <3> QED
      BY <2>1, <3>7, <3>11
  <2> QED
    BY <2>2, <2>3
<1>2. Low(S)
  <2> HIDE DEF Low
  <2> SUFFICES ASSUME ~Low(S) PROVE FALSE
    OBVIOUS
  <2>1. IsWellFoundedOn(StrictSubsetOrdering(S), SUBSET S)
    BY FS_StrictSubsetOrderingWellFounded, FS_FiniteSubsetsOfFinite
  <2>2. Bad \subseteq SUBSET S /\ Bad # {}
    OBVIOUS
  <2>3. PICK T \in Bad : \A U \in Bad : <<U, T>> \notin StrictSubsetOrdering(S)
    BY <2>1, <2>2, WFMin, Zenon
  <2>4. \A U \in SUBSET T : U # T => Low(U)
    BY <2>3 DEF StrictSubsetOrdering
  <2> QED
    BY <1>1, <2>3, <2>4
<1> QED
  BY <1>2

LEMMA MemberOfSeq ==
    ASSUME NEW R, NEW s \in Seq(R), NEW k \in DOMAIN s
    PROVE  s[k] \in R
OBVIOUS

(* A scan is as sure as a limit only if one of its words is. *)
LEMMA SureWord ==
    ASSUME NEW scan \in Seq(Seq([text : STRING, conf : Int])), NEW limit \in Int, limit > 0,
           AverageAtLeast(scan, limit)
    PROVE  \E i \in DOMAIN scan : \E j \in DOMAIN scan[i] : scan[i][j].conf >= limit
<1> DEFINE known == Known(scan)
           page(i) == {<<i, j>> : j \in {k \in DOMAIN scan[i] :
                          scan[i][k].text \notin White /\ scan[i][k].conf >= 0}}
           pages == {page(i) : i \in DOMAIN scan}
<1>1. known # {} /\ ConfidenceOf(scan, known) >= limit * Cardinality(known)
  BY DEF AverageAtLeast
<1>2. \A p \in known : /\ p[1] \in DOMAIN scan /\ p[2] \in DOMAIN scan[p[1]]
                       /\ Conf(scan, p) = scan[p[1]][p[2]].conf
                       /\ Conf(scan, p) \in Int
  <2> SUFFICES ASSUME NEW p \in known
               PROVE  /\ p[1] \in DOMAIN scan /\ p[2] \in DOMAIN scan[p[1]]
                      /\ Conf(scan, p) = scan[p[1]][p[2]].conf
                      /\ Conf(scan, p) \in Int
    OBVIOUS
  <2>1. PICK i \in DOMAIN scan : p \in page(i)
    BY DEF Known
  <2>2. PICK j \in DOMAIN scan[i] : p = <<i, j>>
    BY <2>1
  <2>3. PICK words \in Seq([text : STRING, conf : Int]) : words = scan[i]
    OBVIOUS
  <2>4. words[j] \in [text : STRING, conf : Int]
    <3>1. j \in DOMAIN words
      BY ONLY <2>3, j \in DOMAIN scan[i]
    <3> QED
      BY <3>1, MemberOfSeq
  <2>5. scan[i][j].conf \in Int
    BY <2>3, <2>4
  <2> QED
    BY <2>2, <2>5 DEF Conf
<1>3. IsFiniteSet(known)
  <2>1. ASSUME NEW i \in DOMAIN scan PROVE IsFiniteSet(page(i))
    <3>1. PICK n \in Nat : DOMAIN scan[i] = 1 .. n
      <4>1. PICK words \in Seq([text : STRING, conf : Int]) : words = scan[i]
        OBVIOUS
      <4>2. DOMAIN words = 1 .. Len(words) /\ Len(words) \in Nat
        OBVIOUS
      <4> QED
        BY <4>1, <4>2
    <3>2. IsFiniteSet(1 .. n)
      BY ONLY n \in Nat, 1 \in Int, n \in Int, FS_Interval
    <3> DEFINE places == {k \in DOMAIN scan[i] :
                            scan[i][k].text \notin White /\ scan[i][k].conf >= 0}
               f == [k \in places |-> <<i, k>>]
    <3>3. places \in SUBSET (1 .. n)
      BY <3>1
    <3>4. IsFiniteSet(places)
      BY <3>2, <3>3, FS_Subset
    <3>5. f \in Surjection(places, page(i))
      BY DEF Surjection
    <3> HIDE DEF f, places
    <3> QED
      BY <3>4, <3>5, FS_Surjection
  <2>2. IsFiniteSet(pages)
    <3>1. PICK n \in Nat : DOMAIN scan = 1 .. n
      OBVIOUS
    <3>2. IsFiniteSet(1 .. n)
      BY ONLY n \in Nat, 1 \in Int, n \in Int, FS_Interval
    <3> DEFINE f == [i \in DOMAIN scan |-> page(i)]
    <3>3. f \in Surjection(DOMAIN scan, pages)
      <4> HIDE DEF page
      <4> QED
        BY DEF Surjection
    <3> HIDE DEF f, pages
    <3> QED
      BY <3>1, <3>2, <3>3, FS_Surjection
  <2>3. \A T \in pages : IsFiniteSet(T)
    BY <2>1
  <2>4. IsFiniteSet(UNION pages)
    <3> HIDE DEF pages
    <3> QED
      BY <2>2, <2>3, FS_UNION
  <2> QED
    BY <2>4 DEF Known
<1> HIDE DEF known
<1>4. ASSUME \A p \in known : Conf(scan, p) < limit PROVE FALSE
  <2>1. ConfidenceOf(scan, known) \in Int
        /\ ConfidenceOf(scan, known) + Cardinality(known) <= limit * Cardinality(known)
    BY <1>2, <1>3, <1>4, BelowOnAverage
  <2>2. Cardinality(known) \in Nat /\ Cardinality(known) # 0
    BY <1>1, <1>3, FS_CardinalityType, FS_EmptySet
  <2>3. limit * Cardinality(known) \in Int
    BY ONLY <2>2, limit \in Int
  <2> QED
    BY ONLY <1>1, <2>1, <2>2, <2>3
<1>5. PICK p \in known : ~(Conf(scan, p) < limit)
  BY <1>4
<1>6. Conf(scan, p) >= limit
  BY <1>2, <1>5
<1> QED
  BY <1>2, <1>6

-----------------------------------------------------------------------------
(* What a text of each kind of file is vouched for by. *)

LEMMA ScanBacked ==
    ASSUME ConfidenceHigh \in Nat \ {0}, ConfidenceLow \in Nat \ {0},
           NEW scan \in Seq(Seq([text : STRING, conf : Int])),
           Recognised(scan).status \in TextStatuses
    PROVE  /\ Recognised(scan).status \in {"ocr_extracted", "ocr_low_confidence"}
           /\ \E i \in DOMAIN scan : \E j \in DOMAIN scan[i] :
                scan[i][j].conf >= (IF Recognised(scan).status = "ocr_extracted"
                                    THEN ConfidenceHigh ELSE ConfidenceLow)
<1>1. \/ Recognised(scan).status = "ocr_extracted" /\ AverageAtLeast(scan, ConfidenceHigh)
      \/ Recognised(scan).status = "ocr_low_confidence" /\ AverageAtLeast(scan, ConfidenceLow)
  BY DEF Recognised, NoText, TextStatuses
<1>2. CASE Recognised(scan).status = "ocr_extracted" /\ AverageAtLeast(scan, ConfidenceHigh)
  BY <1>2, SureWord
<1>3. CASE Recognised(scan).status = "ocr_low_confidence" /\ AverageAtLeast(scan, ConfidenceLow)
  BY <1>3, SureWord
<1> QED
  BY <1>1, <1>2, <1>3

LEMMA ExtractBacked ==
    ASSUME ConfidenceHigh \in Nat \ {0}, ConfidenceLow \in Nat \ {0},
           NEW f \in File,
           NEW kind \in {"include", "readme"}, NEW how \in TextStatuses,
           how = extract(kind, f.name.extension, f.world).status
    PROVE  Backed(f, kind, how)
<1> DEFINE w == f.world
           ext == f.name.extension
<1> w.scan \in Seq(Seq([text : STRING, conf : Int])) /\ w.library \in Library
  BY FileAssumption
<1>0. \A why : NoText(why).status = why
  BY DEF NoText
<1>1. \A t : Extracted(t).status = "extracted"
  BY DEF Extracted
<1>2. \A why : why \in {"failed", "encrypted", "raises", "warning_empty_conversion"}
                 => why # how
  BY DEF TextStatuses
<1>3. CASE kind = "readme"
  <2>1. extract(kind, ext, w) = extract_readme(ext, w)
    BY <1>3 DEF extract
  <2>2. w.library = "works" /\ how = "extracted"
    BY <1>0, <1>1, <1>2, <2>1 DEF extract_readme, extract_plain_text
  <2> QED
    BY <1>3, <2>2 DEF Backed
<1>4. CASE kind = "include" /\ ext \in {"txt", "text", "md"}
  <2>1. extract(kind, ext, w) = extract_plain_text(w)
    BY <1>4 DEF extract
  <2>2. w.library = "works" /\ how = "extracted"
    BY <1>0, <1>1, <1>2, <2>1 DEF extract_plain_text
  <2> QED
    BY <1>4, <2>2 DEF Backed
<1>5. CASE kind = "include" /\ ext = "pdf"
  <2>1. extract(kind, ext, w) = extract_pdf(w)
    BY <1>5 DEF extract
  <2>2. w.library # "cannot_open" /\ ~w.encrypted /\ w.library # "cannot_read"
    BY <1>0, <1>2, <2>1 DEF extract_pdf
  <2>3. \/ extract_pdf(w) = Extracted(Joined(w.parts, EmptyLine))
        \/ extract_pdf(w) = NoText("failed")
        \/ extract_pdf(w) = Recognised(w.scan)
    BY <2>2 DEF extract_pdf
  <2>4. how = "extracted" \/ how = Recognised(w.scan).status
    BY <1>0, <1>1, <1>2, <2>1, <2>3
  <2>5. w.library = "works"
    BY <2>2 DEF Library
  <2>6. CASE how = "extracted"
    BY <1>5, <2>2, <2>5, <2>6 DEF Backed
  <2>7. CASE how = Recognised(w.scan).status
    BY <1>5, <2>2, <2>5, <2>7, ScanBacked DEF Backed
  <2> QED
    BY <2>4, <2>6, <2>7
<1>6. CASE kind = "include" /\ ext = "docx"
  <2>1. extract(kind, ext, w) = extract_docx(w)
    BY <1>6 DEF extract
  <2>2. w.library = "works" /\ ~w.encrypted /\ how = "extracted"
    BY <1>0, <1>1, <1>2, <2>1 DEF extract_docx, Unless
  <2> QED
    BY <1>6, <2>2 DEF Backed
<1>7. CASE kind = "include" /\ ext = "doc"
  <2>1. extract(kind, ext, w) = extract_doc_legacy(w)
    BY <1>7 DEF extract
  <2>2. w.tool = "works" /\ ~w.encrypted /\ how = "extracted"
    BY <1>0, <1>1, <1>2, <2>1 DEF extract_doc_legacy, Unless, Converted
  <2> QED
    BY <1>7, <2>2 DEF Backed
<1>8. CASE kind = "include" /\ ext = "xlsx"
  <2>1. extract(kind, ext, w) = extract_xlsx(w)
    BY <1>8 DEF extract
  <2>2. ~w.encrypted
    BY <1>0, <1>2, <2>1 DEF extract_xlsx, Unless
  <2>3. w.library # "cannot_open"
    BY <1>0, <1>2, <2>1, <2>2 DEF extract_xlsx, Unless
  <2>4. w.library # "cannot_read"
    BY <1>0, <1>2, <2>1, <2>2, <2>3 DEF extract_xlsx, Unless, Raises
  <2>5. w.library = "works"
    BY <2>3, <2>4 DEF Library
  <2>6. how = "extracted"
    <3>1. PICK t : extract_xlsx(w) = Extracted(t)
      BY <2>2, <2>3, <2>4 DEF extract_xlsx, Unless
    <3> QED
      BY <1>1, <2>1, <3>1
  <2> QED
    BY <1>8, <2>2, <2>5, <2>6 DEF Backed
<1>9. CASE kind = "include" /\ ext = "xls"
  <2>1. extract(kind, ext, w) = extract_xls_legacy(w)
    BY <1>9 DEF extract
  <2>2. w.tool = "works" /\ ~w.encrypted /\ how = "extracted"
    BY <1>0, <1>1, <1>2, <2>1 DEF extract_xls_legacy, Unless, Converted
  <2> QED
    BY <1>9, <2>2 DEF Backed
<1>10. CASE kind = "include" /\ ext \in {"png", "jpg", "jpeg", "bmp", "gif"}
  <2>1. extract(kind, ext, w) = extract_image(w)
    BY <1>10 DEF extract
  <2>2. w.library = "works" /\ how = Recognised(w.scan).status
    BY <1>0, <1>2, <2>1 DEF extract_image
  <2> QED
    BY <1>10, <2>2, ScanBacked DEF Backed
<1>11. CASE /\ kind = "include"
            /\ ext \notin {"txt", "text", "md", "pdf", "docx", "doc", "xlsx", "xls",
                           "png", "jpg", "jpeg", "bmp", "gif"}
  <2>1. extract(kind, ext, w) = NoText("failed")
    BY <1>11 DEF extract
  <2> QED
    BY <1>0, <1>2, <2>1
<1> QED
  BY <1>3, <1>4, <1>5, <1>6, <1>7, <1>8, <1>9, <1>10, <1>11

(* The worker's status vouches for a text only if the extractor's does. *)
LEMMA WorkerBacked ==
    ASSUME ConfidenceHigh \in Nat \ {0}, ConfidenceLow \in Nat \ {0},
           NEW f \in File, NEW kind \in {"include", "readme"},
           Worker(kind, f.name.extension, f.world).status \in TextStatuses
    PROVE  Backed(f, kind, Worker(kind, f.name.extension, f.world).status)
<1>1. Worker(kind, f.name.extension, f.world).status
        = extract(kind, f.name.extension, f.world).status
  BY DEF Worker, TextStatuses
<1> QED
  BY <1>1, ExtractBacked

-----------------------------------------------------------------------------
(* The walk of a file. *)

LEMMA VouchedInit == Init => IInv
  BY DEF Init, IInv, TextStatuses

LEMMA VouchedStep ==
    ASSUME ConfidenceHigh \in Nat \ {0}, ConfidenceLow \in Nat \ {0},
           IInv, [Next]_vars
    PROVE  IInv'
<1>1. CASE Classify
  <2>1. chunks' = chunks /\ file' = file /\ status = "none" /\ status' \in {"none", "skipped"}
    BY <1>1 DEF IInv, Classify
  <2>2. chunks = <<>> /\ status' \notin TextStatuses
    BY <2>1 DEF IInv, TextStatuses
  <2> QED
    BY <1>1, <2>1, <2>2 DEF IInv, Classify
<1>2. CASE Extract
  <2>1. /\ status' = Worker(category, file.name.extension, file.world).status
        /\ UNCHANGED <<file, category, chunks>> /\ stage' = "extracted"
        /\ category \in {"include", "readme"} /\ file \in File
    BY <1>2 DEF IInv, Extract
  <2>2. chunks = <<>>
    BY <1>2 DEF IInv, Extract, TextStatuses
  <2>3. status' \in TextStatuses => Backed(file', category', status')
    BY <2>1, WorkerBacked
  <2> QED
    BY <2>1, <2>2, <2>3 DEF IInv
<1>3. CASE Split
  BY <1>3 DEF IInv, Split
<1>4. CASE UNCHANGED vars
  BY <1>4 DEF IInv, vars
<1> QED
  BY <1>1, <1>2, <1>3, <1>4 DEF Next

(* Nothing is searchable that no reader vouches for: an encrypted file has  *)
(* no chunks, nor one its library or tool failed on, and what was scanned   *)
(* has a word as sure as its status claims the scan to be (extractors/,     *)
(* worker).  The limits of confidence are positive numbers, as configured.  *)
THEOREM SearchableIsVouched ==
    ASSUME ConfidenceHigh \in Nat \ {0}, ConfidenceLow \in Nat \ {0}
    PROVE  Spec => []VouchedFor
<1>1. IInv => VouchedFor
  BY DEF IInv, VouchedFor, Backed, world, extension, IsScan
<1> QED
  BY VouchedInit, VouchedStep, <1>1, PTL DEF Spec

-----------------------------------------------------------------------------
(* Parts with something between them. *)

(* The parts, all but the first behind a separator. *)
Separated(parts, separator) ==
    [i \in DOMAIN parts |-> IF i = 1 THEN parts[i] ELSE separator \o parts[i]]

(* To join parts is to put them together, all but the first behind a        *)
(* separator.                                                               *)
LEMMA SeparatedIs ==
    ASSUME NEW A, NEW parts \in Seq(Seq(A)), NEW separator \in Seq(A)
    PROVE  /\ Joined(parts, separator) = FlattenSeq(Separated(parts, separator))
           /\ Separated(parts, separator) \in Seq(Seq(A))
           /\ Len(Separated(parts, separator)) = Len(parts)
           /\ \A i \in 1 .. Len(parts) :
                 Separated(parts, separator)[i]
                    = IF i = 1 THEN parts[i] ELSE separator \o parts[i]
           /\ Joined(parts, separator) \in Seq(A)
<1> DEFINE w == Separated(parts, separator)
           n == Len(parts)
<1>1. n \in Nat /\ DOMAIN parts = 1 .. n /\ \A i \in 1 .. n : parts[i] \in Seq(A)
  OBVIOUS
<1>2. w = [i \in 1 .. n |-> IF i = 1 THEN parts[i] ELSE separator \o parts[i]]
  BY <1>1 DEF Separated
<1> HIDE DEF w, n
<1>3. ASSUME NEW i \in 1 .. n
      PROVE  w[i] = (IF i = 1 THEN parts[i] ELSE separator \o parts[i]) /\ w[i] \in Seq(A)
  <2>1. w[i] = IF i = 1 THEN parts[i] ELSE separator \o parts[i]
    BY <1>2
  <2>2. parts[i] \in Seq(A)
    BY <1>1
  <2>3. separator \o parts[i] \in Seq(A)
    BY <2>2, ConcatProperties
  <2> QED
    BY <2>1, <2>2, <2>3
<1>4. w \in [1 .. n -> Seq(A)]
  <2>1. \A i \in 1 .. n : w[i] \in Seq(A)
    BY <1>3
  <2> QED
    BY ONLY <1>2, <2>1
<1>5. w \in Seq(Seq(A)) /\ Len(w) = n
  BY ONLY <1>1, <1>4
<1>6. FlattenSeq(w) \in Seq(A)
  BY <1>5, FlattenIs
<1>7. Joined(parts, separator) = FlattenSeq(w)
  BY DEF Joined, w, Separated
<1> QED
  BY <1>3, <1>5, <1>6, <1>7 DEF w, n

-----------------------------------------------------------------------------
(* The text of a workbook. *)

(* No cell looks like the title of a sheet. *)
Untitled(sheets) ==
    \A i \in DOMAIN sheets : \A j \in DOMAIN sheets[i] : \A k \in DOMAIN sheets[i][j] :
        sheets[i][j][k] # "sheet"

(* The lines of a sheet are its title and rows of it. *)
LEMMA BlocksAre ==
    ASSUME NEW A, "sheet" \in A, NEW rows \in Seq(Seq(A))
    PROVE  /\ SheetBlocks(rows) \in Seq(Seq(A)) /\ SheetBlocks(rows) # <<>>
           /\ SheetBlocks(rows)[1] = <<"sheet">>
           /\ \A i \in 1 .. Len(SheetBlocks(rows)) :
                 \/ SheetBlocks(rows)[i] = <<"sheet">>
                 \/ \E j \in 1 .. Len(rows) : SheetBlocks(rows)[i] = rows[j]
<1> DEFINE S == {i \in DOMAIN rows : rows[i] # <<>>}
           r == Only(rows, S)
           u == <<<<"sheet">>>>
           b == SheetBlocks(rows)
           T == Seq(A)
<1>a. <<"sheet">> \in T
  BY SingleIs
<1>b. rows \in Seq(T)
  OBVIOUS
<1>1. S \in SUBSET (1 .. Len(rows))
  OBVIOUS
<1> HIDE DEF S, T
<1>2. /\ r \in Seq(T) /\ Len(r) = Cardinality(S) /\ Cardinality(S) \in Nat
      /\ \A i \in 1 .. Cardinality(S) : Ascending(S)[i] \in S /\ r[i] = rows[Ascending(S)[i]]
  BY ONLY <1>1, <1>b, OnlyIs
<1>3. b = u \o r
  BY DEF SheetBlocks, S
<1>4. u \in Seq(T) /\ Len(u) = 1 /\ u[1] = <<"sheet">>
  BY ONLY <1>a, SingleIs
<1> HIDE DEF u, r, b
<1>5. /\ b \in Seq(T) /\ Len(b) = Len(u) + Len(r)
      /\ \A i \in 1 .. Len(u) : b[i] = u[i]
      /\ \A i \in 1 .. Len(r) : b[Len(u) + i] = r[i]
  <2>1. u \in Seq(T) /\ r \in Seq(T)
    BY <1>2, <1>4
  <2> HIDE DEF T
  <2> QED
    BY ONLY <1>3, <2>1, ConcatIs
<1>6. b # <<>> /\ b[1] = <<"sheet">>
  BY <1>2, <1>4, <1>5, EmptySeq
<1>7. ASSUME NEW i \in 1 .. Len(b)
      PROVE  b[i] = <<"sheet">> \/ \E j \in 1 .. Len(rows) : b[i] = rows[j]
  <2>1. CASE i = 1
    BY <1>6, <2>1
  <2>2. CASE i # 1
    <3>1. PICK m \in 1 .. Cardinality(S) : i = 1 + m
      <4>1. i - 1 \in 1 .. Cardinality(S) /\ i = 1 + (i - 1)
        BY <1>2, <1>4, <1>5, <2>2
      <4> QED
        BY <4>1
    <3>2. b[i] = r[m]
      BY <1>2, <1>4, <1>5, <3>1
    <3>3. Ascending(S)[m] \in 1 .. Len(rows)
      BY <1>1, <1>2
    <3> QED
      BY <1>2, <3>2, <3>3
  <2> QED
    BY <2>1, <2>2
<1> QED
  BY <1>5, <1>6, <1>7 DEF b, T

(* The text of a workbook: its titles begin lines, and nothing else does    *)
(* that looks like one.                                                     *)
LEMMA WorkbookText ==
    ASSUME NEW A, {"sheet", "newline"} \subseteq A, NEW sheets \in Seq(Seq(Seq(A))), sheets # <<>>
    PROVE  LET t == Joined(FlattenSeq([i \in DOMAIN sheets |-> SheetBlocks(sheets[i])]), NewLine)
           IN  /\ t \in Seq(A) /\ t # <<>> /\ t[1] = "sheet"
               /\ Untitled(sheets) =>
                     \A p \in 1 .. Len(t) : t[p] = "sheet" => p = 1 \/ t[p - 1] = "newline"
<1> DEFINE b == [i \in DOMAIN sheets |-> SheetBlocks(sheets[i])]
           n == Len(sheets)
           P == FlattenSeq(b)
           w == Separated(P, NewLine)
           t == Joined(P, NewLine)
           T == Seq(A)
           U == Seq(T)
<1>1. n \in Nat /\ n >= 1 /\ DOMAIN sheets = 1 .. n /\ \A i \in 1 .. n : sheets[i] \in U
  BY EmptySeq, LenProperties
<1>2. b = [i \in 1 .. n |-> SheetBlocks(sheets[i])]
  BY <1>1
<1> HIDE DEF b, n, P
<1>a. "sheet" \in A /\ "newline" \in A
  OBVIOUS
<1>3. \A i \in 1 .. n : b[i] \in U /\ b[i] = SheetBlocks(sheets[i])
  BY <1>1, <1>2, <1>a, BlocksAre
<1> HIDE DEF U
<1>4. b \in Seq(U) /\ Len(b) = n
  <2>1. b \in [1 .. n -> U]
    BY <1>2, <1>3
  <2> QED
    BY ONLY <1>1, <2>1
<1>5. b # <<>> /\ b[1] # <<>> /\ b[1][1] = <<"sheet">>
  <2>1. 1 \in 1 .. n
    BY <1>1
  <2> QED
    BY <1>1, <1>3, <1>4, <1>a, <2>1, BlocksAre, EmptySeq DEF U
<1>b. U = Seq(T)
  BY DEF U
<1> HIDE DEF T
<1>6. P \in U /\ P # <<>> /\ P[1] = <<"sheet">>
  <2>1. P \in U
    BY ONLY <1>4, <1>b, FlattenIs DEF P
  <2>2. P # <<>> /\ P[1] = b[1][1]
    BY ONLY <1>4, <1>5, <1>b, FlattenFirst DEF P
  <2> QED
    BY <1>5, <2>1, <2>2
<1>7. ASSUME Untitled(sheets), NEW i \in 1 .. Len(P)
      PROVE  P[i] = <<"sheet">> \/ \A k \in 1 .. Len(P[i]) : P[i][k] # "sheet"
  <2>0. PICK k \in 1 .. Len(b) : \E j \in 1 .. Len(b[k]) : P[i] = b[k][j]
    <3>1. i \in 1 .. Len(FlattenSeq(b))
      BY DEF P
    <3> QED
      <4>1. \E k \in 1 .. Len(b) : \E j \in 1 .. Len(b[k]) : FlattenSeq(b)[i] = b[k][j]
        BY ONLY <1>4, <1>b, <3>1, FlattenPlace
      <4> QED
        BY <4>1 DEF P
  <2>1. PICK j \in 1 .. Len(b[k]) : P[i] = b[k][j]
    BY <2>0
  <2>2. k \in 1 .. n /\ b[k] = SheetBlocks(sheets[k]) /\ sheets[k] \in U
    BY <1>1, <1>3, <1>4
  <2>3. b[k][j] = <<"sheet">> \/ \E m \in 1 .. Len(sheets[k]) : b[k][j] = sheets[k][m]
    <3>1. PICK x \in U : x = sheets[k]
      BY <2>2
    <3>2. PICK y : y = SheetBlocks(x)
      OBVIOUS
    <3>3. \A l \in 1 .. Len(y) : y[l] = <<"sheet">> \/ \E m \in 1 .. Len(x) : y[l] = x[m]
      <4>1. x \in Seq(Seq(A))
        BY <1>b DEF T
      <4> QED
        BY ONLY <1>a, <3>2, <4>1, BlocksAre
    <3>4. y = b[k]
      BY <2>2, <3>1, <3>2
    <3> QED
      BY <3>1, <3>3, <3>4
  <2>4. ASSUME NEW m \in 1 .. Len(sheets[k]), P[i] = sheets[k][m]
        PROVE  \A l \in 1 .. Len(P[i]) : P[i][l] # "sheet"
    <3>1. k \in DOMAIN sheets /\ m \in DOMAIN sheets[k]
      BY <1>1, <2>2
    <3>2. sheets[k][m] \in T
      BY <1>b, <2>2
    <3>3. \A l \in DOMAIN sheets[k][m] : sheets[k][m][l] # "sheet"
      BY <1>7, <3>1 DEF Untitled
    <3>4. PICK x \in Seq(A) : x = sheets[k][m]
      BY <3>2 DEF T
    <3>5. DOMAIN x = 1 .. Len(x)
      BY <3>4
    <3>6. \A l \in 1 .. Len(x) : x[l] # "sheet"
      BY <3>3, <3>4, <3>5
    <3> QED
      BY <2>4, <3>4, <3>6
  <2> QED
    BY <2>1, <2>3, <2>4
<1>8. NewLine \in T /\ Len(NewLine) = 1 /\ NewLine[1] = "newline"
  BY <1>a, SingleIs DEF NewLine, T
<1> HIDE DEF w, t
<1>9. /\ t = FlattenSeq(w) /\ w \in U /\ Len(w) = Len(P) /\ t \in T
      /\ \A i \in 1 .. Len(P) : w[i] = IF i = 1 THEN P[i] ELSE NewLine \o P[i]
  BY <1>6, <1>8, <1>b, SeparatedIs DEF w, t, T
<1>10. Len(P) \in Nat /\ Len(P) >= 1 /\ 1 \in 1 .. Len(P)
  BY <1>6, EmptySeq, LenProperties
<1>11. w # <<>> /\ w[1] = <<"sheet">>
  BY <1>6, <1>9, <1>10, EmptySeq
<1>12. <<"sheet">> # <<>> /\ <<"sheet">>[1] = "sheet" /\ Len(<<"sheet">>) = 1
  OBVIOUS
<1>13. t # <<>> /\ t[1] = "sheet"
  <2>1. FlattenSeq(w) # <<>> /\ FlattenSeq(w)[1] = w[1][1]
    BY ONLY <1>9, <1>11, <1>12, <1>b, FlattenFirst DEF T
  <2> QED
    BY <1>9, <1>11, <1>12, <2>1
<1>14. ASSUME Untitled(sheets), NEW p \in 1 .. Len(t), t[p] = "sheet"
       PROVE  p = 1 \/ t[p - 1] = "newline"
  <2>1. PICK k \in 1 .. Len(w) : \E j \in 1 .. Len(w[k]) :
           /\ t[p] = w[k][j]
           /\ j > 1 => p > 1 /\ t[p - 1] = w[k][j - 1]
           /\ k = 1 /\ j = 1 => p = 1
    <3>1. p \in 1 .. Len(FlattenSeq(w))
      BY <1>9
    <3>2. w \in Seq(T)
      BY <1>9, <1>b
    <3>3. PICK i : i = p
      OBVIOUS
    <3>4. i \in 1 .. Len(FlattenSeq(w))
      BY <3>1, <3>3
    <3>5. \E k \in 1 .. Len(w) : \E j \in 1 .. Len(w[k]) :
             /\ FlattenSeq(w)[i] = w[k][j]
             /\ j > 1 => i > 1 /\ FlattenSeq(w)[i - 1] = w[k][j - 1]
             /\ k = 1 /\ j = 1 => i = 1
      BY ONLY <3>2, <3>4, FlattenPlace DEF T
    <3> QED
      BY <1>9, <3>3, <3>5
  <2>2. PICK j \in 1 .. Len(w[k]) :
           /\ t[p] = w[k][j]
           /\ j > 1 => p > 1 /\ t[p - 1] = w[k][j - 1]
           /\ k = 1 /\ j = 1 => p = 1
    BY <2>1
  <2>3. k \in 1 .. Len(P) /\ P[k] \in T /\ Len(P[k]) \in Nat
    BY <1>6, <1>9, <1>b DEF T
  <2>4. CASE k = 1
    <3>1. j = 1
      <4>1. Len(w[k]) = 1
        BY <1>11, <1>12, <2>4
      <4> QED
        BY <4>1
    <3> QED
      BY <2>2, <2>4, <3>1
  <2>5. CASE k # 1
    <3>1. w[k] = NewLine \o P[k]
      BY <1>9, <2>3, <2>5
    <3>2. /\ Len(w[k]) = Len(NewLine) + Len(P[k])
          /\ \A i \in 1 .. Len(NewLine) : w[k][i] = NewLine[i]
          /\ \A i \in 1 .. Len(P[k]) : w[k][Len(NewLine) + i] = P[k][i]
      <4>1. NewLine \in T /\ P[k] \in T
        BY <1>8, <2>3
      <4>2. PICK x \in T : x = P[k]
        BY <4>1
      <4>3. PICK y : y = w[k]
        OBVIOUS
      <4>4. PICK z \in T : z = NewLine
        BY <4>1
      <4>5. y = z \o x /\ z \in Seq(A) /\ x \in Seq(A)
        BY <3>1, <4>2, <4>3, <4>4 DEF T
      <4>6. /\ Len(y) = Len(z) + Len(x)
            /\ \A i \in 1 .. Len(z) : y[i] = z[i]
            /\ \A i \in 1 .. Len(x) : y[Len(z) + i] = x[i]
        BY ONLY <4>5, ConcatIs
      <4> QED
        BY <4>2, <4>3, <4>4, <4>6
    <3>3. w[k][1] = "newline"
      BY <1>8, <3>2
    <3>4. w[k][j] = "sheet"
      BY <1>14, <2>2
    <3>5. j # 1
      BY <3>3, <3>4
    <3>6. PICK m \in 1 .. Len(P[k]) : j = 1 + m /\ m = j - 1
      <4>1. j - 1 \in 1 .. Len(P[k]) /\ j = 1 + (j - 1)
        BY <1>8, <2>3, <3>2, <3>5
      <4> QED
        BY <4>1
    <3>7. P[k][m] = "sheet"
      BY <1>8, <3>2, <3>4, <3>6
    <3>8. P[k] = <<"sheet">>
      BY <1>7, <1>14, <2>3, <3>7
    <3>9. j - 1 = 1 /\ j > 1
      BY <1>12, <3>6, <3>8
    <3> QED
      BY <2>2, <3>3, <3>9
  <2> QED
    BY <2>4, <2>5
<1> QED
  BY <1>9, <1>13, <1>14 DEF t, P, b, T

-----------------------------------------------------------------------------
(* The text of a file. *)

(* The texts that Recognised and extract_xlsx put together. *)
PageText(page) ==
    Joined([i \in DOMAIN Words(page) |-> <<Words(page)[i].text>>], <<"blank">>)

ScanText(scan) == Joined([i \in DOMAIN scan |-> PageText(scan[i])], EmptyLine)

WorkbookLines(sheets) == FlattenSeq([i \in DOMAIN sheets |-> SheetBlocks(sheets[i])])

Scanned == {"ocr_extracted", "ocr_low_confidence"}

(* The text with this status of a file of this kind. *)
TextOf(f, kind, how) ==
    LET w == f.world
        ext == f.name.extension
    IN  IF how \in Scanned THEN ScanText(w.scan)
        ELSE IF kind = "readme" /\ ext # "md" THEN convert_to_md(w.parts)
        ELSE IF kind = "readme" \/ ext \in {"txt", "text", "md", "docx", "doc"}
             THEN Joined(w.parts, NewLine)
        ELSE IF ext = "pdf" THEN Joined(w.parts, EmptyLine)
        ELSE IF ext = "xlsx" THEN Joined(WorkbookLines(w.sheets), NewLine)
        ELSE Joined(w.sheets[1], NewLine)

(* Which files have a text with this status. *)
Readable(f, kind, how) ==
    LET ext == f.name.extension
    IN  /\ kind = "include" => ext \in {"txt", "text", "md", "pdf", "docx", "doc", "xlsx", "xls",
                                        "png", "jpg", "jpeg", "bmp", "gif"}
        /\ how \in Scanned => kind = "include" /\ ext \notin {"md", "xlsx", "xls"}
        /\ how \notin Scanned => ext \notin {"png", "jpg", "jpeg", "bmp", "gif"} \/ kind = "readme"

(* A scan that counts has the words of its pages for a text. *)
LEMMA RecognisedText ==
    ASSUME NEW scan, Recognised(scan).status \in TextStatuses
    PROVE  Recognised(scan).status \in Scanned /\ Recognised(scan).text = ScanText(scan)
BY DEF Recognised, NoText, TextStatuses, Scanned, ScanText, PageText

(* What an extractor returns as a text is the text of the file. *)
LEMMA ExtractedText ==
    ASSUME NEW f \in File, NEW kind \in {"include", "readme"}, NEW how \in TextStatuses,
           how = extract(kind, f.name.extension, f.world).status
    PROVE  /\ Readable(f, kind, how)
           /\ extract(kind, f.name.extension, f.world).text = TextOf(f, kind, how)
<1> DEFINE w == f.world
           ext == f.name.extension
           r == extract(kind, ext, w)
<1>0. \A why : NoText(why).status = why
  BY DEF NoText
<1>1. \A t : Extracted(t).status = "extracted" /\ Extracted(t).text = t
  BY DEF Extracted
<1>2. \A why : why \in {"failed", "encrypted", "raises", "warning_empty_conversion"}
                 => why # how
  BY DEF TextStatuses
<1>a. "extracted" \notin Scanned
  BY DEF Scanned
<1>b. how = r.status
  OBVIOUS
<1>c. ASSUME NEW t, r = Extracted(t)
      PROVE  how = "extracted" /\ how \notin Scanned /\ r.text = t
  BY <1>1, <1>a, <1>b, <1>c
<1>d. \A why : why \in {"failed", "encrypted", "raises", "warning_empty_conversion"}
                 => r # NoText(why)
  BY <1>0, <1>2, <1>b
<1>3. CASE kind = "readme" /\ ext = "md"
  <2>1. r = Extracted(Joined(w.parts, NewLine))
    BY <1>3, <1>d DEF extract, extract_readme, extract_plain_text
  <2> QED
    BY <1>3, <1>c, <2>1 DEF TextOf, Readable
<1>4. CASE kind = "readme" /\ ext # "md"
  <2>1. r = Extracted(convert_to_md(w.parts))
    BY <1>4, <1>d DEF extract, extract_readme
  <2> QED
    BY <1>4, <1>c, <2>1 DEF TextOf, Readable
<1>5. CASE kind = "include" /\ ext \in {"txt", "text", "md"}
  <2>1. r = Extracted(Joined(w.parts, NewLine))
    BY <1>5, <1>d DEF extract, extract_plain_text
  <2> QED
    BY <1>5, <1>c, <2>1 DEF TextOf, Readable
<1>6. CASE kind = "include" /\ ext = "pdf"
  <2>1. r = Extracted(Joined(w.parts, EmptyLine)) \/ r = Recognised(w.scan)
    BY <1>6, <1>d DEF extract, extract_pdf
  <2>2. CASE r = Extracted(Joined(w.parts, EmptyLine))
    BY <1>6, <1>c, <2>2 DEF TextOf, Readable
  <2>3. CASE r = Recognised(w.scan)
    <3>1. how \in Scanned /\ r.text = ScanText(w.scan)
      BY <1>b, <2>3, RecognisedText
    <3> QED
      BY <1>6, <3>1 DEF TextOf, Readable
  <2> QED
    BY <2>1, <2>2, <2>3
<1>7. CASE kind = "include" /\ ext = "docx"
  <2>1. r = Extracted(Joined(w.parts, NewLine))
    BY <1>7, <1>d DEF extract, extract_docx, Unless
  <2> QED
    BY <1>7, <1>c, <2>1 DEF TextOf, Readable
<1>8. CASE kind = "include" /\ ext = "doc"
  <2>1. r = Extracted(Joined(w.parts, NewLine))
    BY <1>8, <1>d DEF extract, extract_doc_legacy, Unless, Converted
  <2> QED
    BY <1>8, <1>c, <2>1 DEF TextOf, Readable
<1>9. CASE kind = "include" /\ ext = "xlsx"
  <2>1. r = extract_xlsx(w)
    BY <1>9 DEF extract
  <2>2. r = Extracted(Joined(WorkbookLines(w.sheets), NewLine))
    BY <1>d, <2>1 DEF extract_xlsx, Unless, Raises, WorkbookLines
  <2> QED
    BY <1>9, <1>c, <2>2 DEF TextOf, Readable
<1>10. CASE kind = "include" /\ ext = "xls"
  <2>1. r = Extracted(Joined(w.sheets[1], NewLine))
    BY <1>10, <1>d DEF extract, extract_xls_legacy, Unless, Converted
  <2> QED
    BY <1>10, <1>c, <2>1 DEF TextOf, Readable
<1>11. CASE kind = "include" /\ ext \in {"png", "jpg", "jpeg", "bmp", "gif"}
  <2>1. r = Recognised(w.scan)
    BY <1>11, <1>d DEF extract, extract_image
  <2>2. how \in Scanned /\ r.text = ScanText(w.scan)
    BY <1>b, <2>1, RecognisedText
  <2> QED
    BY <1>11, <2>2 DEF TextOf, Readable
<1>12. CASE /\ kind = "include"
            /\ ext \notin {"txt", "text", "md", "pdf", "docx", "doc", "xlsx", "xls",
                           "png", "jpg", "jpeg", "bmp", "gif"}
  <2>1. r = NoText("failed")
    BY <1>12 DEF extract
  <2> QED
    BY <1>d, <2>1
<1> QED
  BY <1>3, <1>4, <1>5, <1>6, <1>7, <1>8, <1>9, <1>10, <1>11, <1>12

-----------------------------------------------------------------------------

(* What a text is a sequence of. *)

(* The text of a page is a sequence of its letters. *)
LEMMA PageTextIs ==
    ASSUME NEW A, "blank" \in A, NEW page \in Seq([text : A, conf : Int])
    PROVE  PageText(page) \in Seq(A)
<1> DEFINE R == [text : A, conf : Int]
           S == {i \in DOMAIN page : page[i].text \notin White}
           v == Words(page)
           n == Cardinality(S)
           u == [i \in DOMAIN v |-> <<v[i].text>>]
<1>1. S \in SUBSET (1 .. Len(page)) /\ page \in Seq(R)
  OBVIOUS
<1>2. v = Only(page, S)
  BY DEF Words
<1> HIDE DEF v, S, n
<1>3. v \in Seq(R) /\ Len(v) = n /\ n \in Nat
  <2> HIDE DEF R
  <2>1. /\ Only(page, S) \in Seq(R) /\ Len(Only(page, S)) = Cardinality(S)
        /\ Cardinality(S) \in Nat
    BY ONLY <1>1, OnlyIs
  <2> QED
    BY <1>2, <2>1 DEF n
<1>4. DOMAIN v = 1 .. n /\ \A i \in 1 .. n : v[i] \in R
  <2> HIDE DEF R
  <2> QED
    BY ONLY <1>3
<1>5. ASSUME NEW i \in 1 .. n PROVE u[i] \in Seq(A)
  <2>1. v[i].text \in A
    BY <1>4
  <2>2. u[i] = <<v[i].text>>
    BY <1>4
  <2> QED
    BY <2>1, <2>2, SingleIs
<1>6. u \in Seq(Seq(A))
  <2>1. u = [i \in 1 .. n |-> u[i]]
    BY <1>4
  <2> QED
    BY <1>3, <1>5, <2>1
<1>7. <<"blank">> \in Seq(A)
  BY SingleIs
<1>8. Joined(u, <<"blank">>) \in Seq(A)
  BY <1>6, <1>7, SeparatedIs
<1> QED
  BY <1>8 DEF PageText, u, v

(* So is that of a scan. *)
LEMMA ScanTextIs ==
    ASSUME NEW A, "blank" \in A, "newline" \in A,
           NEW scan \in Seq(Seq([text : A, conf : Int]))
    PROVE  /\ [i \in DOMAIN scan |-> PageText(scan[i])] \in Seq(Seq(A))
           /\ ScanText(scan) \in Seq(A)
<1> DEFINE u == [i \in DOMAIN scan |-> PageText(scan[i])]
           n == Len(scan)
<1>1. n \in Nat /\ DOMAIN scan = 1 .. n /\ \A i \in 1 .. n : scan[i] \in Seq([text : A, conf : Int])
  OBVIOUS
<1>2. \A i \in 1 .. n : u[i] \in Seq(A)
  BY <1>1, PageTextIs
<1> HIDE DEF n
<1>3. u \in Seq(Seq(A))
  <2>1. u = [i \in 1 .. n |-> u[i]]
    BY <1>1
  <2> QED
    BY <1>1, <1>2, <2>1
<1>4. EmptyLine \in Seq(A)
  BY DEF EmptyLine
<1> HIDE DEF u
<1>5. Joined(u, EmptyLine) \in Seq(A)
  BY <1>3, <1>4, SeparatedIs
<1> QED
  BY <1>3, <1>5 DEF u, ScanText

(* The lines of a workbook are sequences of its letters. *)
LEMMA WorkbookLinesIs ==
    ASSUME NEW A, "sheet" \in A, NEW sheets \in Seq(Seq(Seq(A)))
    PROVE  WorkbookLines(sheets) \in Seq(Seq(A))
<1> DEFINE b == [i \in DOMAIN sheets |-> SheetBlocks(sheets[i])]
           n == Len(sheets)
           T == Seq(A)
<1>1. n \in Nat /\ DOMAIN sheets = 1 .. n /\ \A i \in 1 .. n : sheets[i] \in Seq(Seq(A))
  OBVIOUS
<1>2. \A i \in 1 .. n : b[i] \in Seq(T)
  BY <1>1, BlocksAre
<1> HIDE DEF n, T
<1>3. b \in Seq(Seq(T))
  <2>1. b = [i \in 1 .. n |-> b[i]]
    BY <1>1
  <2> QED
    BY <1>1, <1>2, <2>1
<1>4. FlattenSeq(b) \in Seq(T)
  BY ONLY <1>3, FlattenIs
<1> QED
  BY <1>4 DEF WorkbookLines, T

-----------------------------------------------------------------------------
(* The ink of a text. *)

(* c is u and v, and its places in U are those of S and of T. *)
SideBySide(u, v, c, S, T, U) ==
    /\ c = u \o v
    /\ U \subseteq 1 .. Len(u) + Len(v) /\ S \subseteq 1 .. Len(u) /\ T \subseteq 1 .. Len(v)
    /\ \A i \in 1 .. Len(u) : i \in U <=> i \in S
    /\ \A i \in 1 .. Len(v) : Len(u) + i \in U <=> i \in T

(* To keep some members of two sequences put together is to keep some of    *)
(* each.                                                                    *)
LEMMA OnlyConcat ==
    ASSUME NEW A, NEW u \in Seq(A), NEW v \in Seq(A), NEW c, NEW S, NEW T, NEW U,
           SideBySide(u, v, c, S, T, U)
    PROVE  Only(c, U) = Only(u, S) \o Only(v, T)
<1>1. PICK m \in Nat : m = Len(u)
  OBVIOUS
<1>2. PICK n \in Nat : n = Len(v)
  OBVIOUS
<1>b. c = u \o v
  BY DEF SideBySide
<1>3. /\ c \in Seq(A) /\ Len(c) = m + n
      /\ \A i \in 1 .. m : c[i] = u[i]
      /\ \A i \in 1 .. n : c[m + i] = v[i]
  <2>1. /\ c \in Seq(A) /\ Len(c) = Len(u) + Len(v)
        /\ \A i \in 1 .. Len(u) : c[i] = u[i]
        /\ \A i \in 1 .. Len(v) : c[Len(u) + i] = v[i]
    BY ONLY u \in Seq(A), v \in Seq(A), <1>b, ConcatIs
  <2> QED
    BY <1>1, <1>2, <2>1
<1>4. /\ U \in SUBSET (1 .. m + n)
      /\ \A i \in 1 .. m : i \in U <=> i \in S
      /\ \A i \in 1 .. n : m + i \in U <=> i \in T
  BY <1>1, <1>2 DEF SideBySide
<1>5. U \in SUBSET (1 .. Len(c))
  BY <1>3, <1>4
<1> DEFINE x == Masked(u, S)
           y == Masked(v, T)
           z == Masked(c, U)
           Q == Seq(A)
<1>6. /\ x \in Seq(Q) /\ Len(x) = m
      /\ \A i \in 1 .. m : x[i] = IF i \in S THEN <<u[i]>> ELSE <<>>
  BY <1>1, MaskedIs
<1>7. /\ y \in Seq(Q) /\ Len(y) = n
      /\ \A i \in 1 .. n : y[i] = IF i \in T THEN <<v[i]>> ELSE <<>>
  BY <1>2, MaskedIs
<1>8. /\ z \in Seq(Q) /\ Len(z) = m + n
      /\ \A i \in 1 .. m + n : z[i] = IF i \in U THEN <<c[i]>> ELSE <<>>
  <2>1. /\ z \in Seq(Q) /\ Len(z) = Len(c)
        /\ \A i \in 1 .. Len(c) : z[i] = IF i \in U THEN <<c[i]>> ELSE <<>>
    <3>1. c \in Seq(A)
      BY <1>3
    <3> QED
      BY ONLY <3>1, MaskedIs DEF z, Q
  <2> HIDE DEF z, Q
  <2> QED
    BY <1>3, <2>1
<1> HIDE DEF x, y, z, Q
<1>9. PICK w : w = x \o y
  OBVIOUS
<1>10. /\ w \in Seq(Q) /\ Len(w) = m + n
       /\ \A i \in 1 .. m : w[i] = x[i]
       /\ \A i \in 1 .. n : w[m + i] = y[i]
  <2>0. x \in Seq(Q) /\ y \in Seq(Q)
    BY <1>6, <1>7
  <2>1. /\ w \in Seq(Q) /\ Len(w) = Len(x) + Len(y)
        /\ \A i \in 1 .. Len(x) : w[i] = x[i]
        /\ \A i \in 1 .. Len(y) : w[Len(x) + i] = y[i]
    BY ONLY <1>9, <2>0, ConcatIs
  <2> QED
    BY <1>6, <1>7, <2>1
<1>11. ASSUME NEW i \in 1 .. m + n PROVE z[i] = w[i]
  <2>1. CASE i <= m
    <3>1. i \in 1 .. m
      BY <2>1
    <3>2. i \in U <=> i \in S
      BY <1>4, <3>1
    <3>3. z[i] = IF i \in U THEN <<c[i]>> ELSE <<>>
      BY <1>8
    <3>4. x[i] = IF i \in S THEN <<u[i]>> ELSE <<>>
      BY <1>6, <3>1
    <3>5. w[i] = x[i] /\ c[i] = u[i]
      BY <1>3, <1>10, <3>1
    <3> QED
      BY <3>2, <3>3, <3>4, <3>5
  <2>2. CASE ~(i <= m)
    <3>1. PICK k \in 1 .. n : i = m + k
      <4>1. i - m \in 1 .. n /\ i = m + (i - m)
        BY <2>2
      <4> QED
        BY <4>1
    <3>2. i \in U <=> k \in T
      BY <1>4, <3>1
    <3>3. z[i] = IF i \in U THEN <<c[i]>> ELSE <<>>
      BY <1>8
    <3>4. y[k] = IF k \in T THEN <<v[k]>> ELSE <<>>
      BY <1>7
    <3>5. w[i] = y[k] /\ c[i] = v[k]
      BY <1>3, <1>10, <3>1
    <3> QED
      BY <3>2, <3>3, <3>4, <3>5
  <2> QED
    BY <2>1, <2>2
<1>12. z = w
  <2>1. Len(z) = Len(w) /\ \A i \in 1 .. Len(z) : z[i] = w[i]
    BY <1>8, <1>10, <1>11
  <2>2. z \in Seq(Q) /\ w \in Seq(Q)
    BY <1>8, <1>10
  <2> QED
    BY ONLY <2>1, <2>2, SeqEqual
<1>13. FlattenSeq(z) = FlattenSeq(x) \o FlattenSeq(y)
  <2>1. z = x \o y /\ x \in Seq(Seq(A)) /\ y \in Seq(Seq(A))
    BY <1>6, <1>7, <1>9, <1>12 DEF Q
  <2> QED
    BY ONLY <2>1, FlattenConcat
<1>a. S \in SUBSET (1 .. Len(u)) /\ T \in SUBSET (1 .. Len(v))
  BY DEF SideBySide
<1>14. Only(c, U) = FlattenSeq(z)
  BY <1>3, <1>5, OnlyFlattens DEF z
<1>15. Only(u, S) = FlattenSeq(x)
  BY <1>a, OnlyFlattens DEF x
<1>16. Only(v, T) = FlattenSeq(y)
  BY <1>a, OnlyFlattens DEF y
<1> QED
  BY <1>13, <1>14, <1>15, <1>16

(* The ink of a text is a sequence of its letters. *)
LEMMA InkIs ==
    ASSUME NEW W, NEW A, NEW t \in Seq(A)
    PROVE  Ink(t, W) \in Seq(A) /\ Inked(t, W) \in SUBSET (1 .. Len(t))
<1>1. Inked(t, W) \in SUBSET (1 .. Len(t))
  BY DEF Inked
<1> QED
  BY <1>1, OnlyIs DEF Ink

(* The ink of two texts put together. *)
LEMMA InkConcat ==
    ASSUME NEW W, NEW A, NEW u \in Seq(A), NEW v \in Seq(A), NEW c, c = u \o v
    PROVE  Ink(c, W) = Ink(u, W) \o Ink(v, W)
<1>1. PICK m \in Nat : m = Len(u)
  OBVIOUS
<1>2. PICK n \in Nat : n = Len(v)
  OBVIOUS
<1>3. /\ c \in Seq(A) /\ Len(c) = m + n
      /\ \A i \in 1 .. m : c[i] = u[i]
      /\ \A i \in 1 .. n : c[m + i] = v[i]
  <2>1. /\ c \in Seq(A) /\ Len(c) = Len(u) + Len(v)
        /\ \A i \in 1 .. Len(u) : c[i] = u[i]
        /\ \A i \in 1 .. Len(v) : c[Len(u) + i] = v[i]
    BY ONLY u \in Seq(A), v \in Seq(A), c = u \o v, ConcatIs
  <2> QED
    BY <1>1, <1>2, <2>1
<1>4. Inked(u, W) = {i \in 1 .. m : u[i] \notin W}
  BY <1>1 DEF Inked
<1>5. Inked(v, W) = {i \in 1 .. n : v[i] \notin W}
  BY <1>2 DEF Inked
<1>6. Inked(c, W) = {i \in 1 .. m + n : c[i] \notin W}
  BY <1>3 DEF Inked
<1>7. /\ \A i \in 1 .. m : i \in Inked(c, W) <=> i \in Inked(u, W)
      /\ \A i \in 1 .. n : m + i \in Inked(c, W) <=> i \in Inked(v, W)
  <2>1. \A i \in 1 .. m : i \in 1 .. m + n
    OBVIOUS
  <2>2. \A i \in 1 .. n : m + i \in 1 .. m + n
    OBVIOUS
  <2> QED
    BY <1>3, <1>4, <1>5, <1>6, <2>1, <2>2
<1>9. Inked(u, W) \in SUBSET (1 .. Len(u)) /\ Inked(v, W) \in SUBSET (1 .. Len(v))
  BY InkIs
<1>10. Only(c, Inked(c, W)) = Only(u, Inked(u, W)) \o Only(v, Inked(v, W))
  <2>1. PICK S \in SUBSET (1 .. Len(u)) : S = Inked(u, W)
    BY <1>9
  <2>2. PICK T \in SUBSET (1 .. Len(v)) : T = Inked(v, W)
    BY <1>9
  <2>3. PICK U : U = Inked(c, W)
    OBVIOUS
  <2>4. SideBySide(u, v, c, S, T, U)
    BY <1>1, <1>2, <1>6, <1>7, <2>1, <2>2, <2>3 DEF SideBySide
  <2>5. Only(c, U) = Only(u, S) \o Only(v, T)
    BY ONLY u \in Seq(A), v \in Seq(A), <2>4, OnlyConcat
  <2> QED
    BY <2>1, <2>2, <2>3, <2>5
<1> QED
  BY <1>10 DEF Ink

(* Letters that do not count are no ink. *)
LEMMA InkOfMute ==
    ASSUME NEW W, NEW A, NEW t \in Seq(A), \A i \in 1 .. Len(t) : t[i] \in W
    PROVE  Ink(t, W) = <<>>
<1>1. Inked(t, W) = {}
  BY DEF Inked
<1> QED
  BY <1>1, OnlyNone DEF Ink

(* A text of letters that count is its own ink. *)
LEMMA InkOfInk ==
    ASSUME NEW W, NEW A, NEW t \in Seq(A), \A i \in 1 .. Len(t) : t[i] \notin W
    PROVE  Ink(t, W) = t
<1>1. Inked(t, W) = 1 .. Len(t)
  BY DEF Inked
<1> QED
  BY <1>1, OnlyAll DEF Ink

(* The ink of parts put together. *)
LEMMA InkFlatten ==
    ASSUME NEW W, NEW A, NEW q \in Seq(Seq(A)), NEW e \in Seq(Seq(A)), Len(e) = Len(q),
           \A i \in 1 .. Len(q) : e[i] = Ink(q[i], W)
    PROVE  Ink(FlattenSeq(q), W) = FlattenSeq(e)
<1>1. PICK N \in Nat : N = Len(q)
  OBVIOUS
<1>2. PICK G : Accumulates(G, q, A) /\ G[N] = FlattenSeq(q)
  BY <1>1, FlattenBy
<1>3. /\ \A n \in 0 .. N : G[n] \in Seq(A)
      /\ G[0] = <<>>
      /\ \A n \in 1 .. N : G[n] = G[n - 1] \o q[n]
  BY <1>1, <1>2 DEF Accumulates
<1>4. \A n \in 1 .. N : q[n] \in Seq(A)
  BY <1>1
<1> DEFINE g == [n \in 0 .. N |-> Ink(G[n], W)]
<1>5. \A n \in 0 .. N : g[n] = Ink(G[n], W) /\ g[n] \in Seq(A)
  <2> TAKE n \in 0 .. N
  <2>1. PICK x \in Seq(A) : x = G[n]
    BY <1>3
  <2>2. Ink(x, W) \in Seq(A)
    BY InkIs
  <2> QED
    BY <2>1, <2>2
<1>6. g \in [0 .. N -> Seq(A)]
  BY <1>5
<1> HIDE DEF g
<1>7. g[0] = <<>>
  <2>1. PICK x \in Seq(A) : x = G[0]
    BY <1>3
  <2>2. \A i \in 1 .. Len(x) : x[i] \in W
    <3>1. x = <<>>
      BY <1>3, <2>1
    <3>2. Len(x) = 0 /\ 1 .. 0 = {}
      BY <3>1
    <3> QED
      BY <3>2
  <2>3. Ink(x, W) = <<>>
    BY <2>2, InkOfMute
  <2>4. 0 \in 0 .. N
    OBVIOUS
  <2>5. g[0] = Ink(G[0], W)
    BY ONLY <1>5, <2>4
  <2> QED
    BY <2>1, <2>3, <2>5
<1>8. ASSUME NEW n \in 1 .. N PROVE g[n] = g[n - 1] \o e[n]
  <2>1. PICK l \in 0 .. N : l = n - 1
    OBVIOUS
  <2>2. PICK x \in Seq(A) : x = G[l]
    BY <1>3
  <2>3. PICK y \in Seq(A) : y = q[n]
    BY <1>4
  <2>4. PICK z : z = G[n]
    OBVIOUS
  <2>5. z = x \o y
    BY <1>3, <2>1, <2>2, <2>3, <2>4
  <2>6. Ink(z, W) = Ink(x, W) \o Ink(y, W)
    BY ONLY <2>5, x \in Seq(A), y \in Seq(A), InkConcat
  <2>7. e[n] = Ink(y, W)
    BY <1>1, <2>3
  <2>8. g[l] = Ink(x, W) /\ g[n] = Ink(z, W)
    BY <1>5, <2>2, <2>4
  <2> QED
    BY <2>1, <2>6, <2>7, <2>8
<1>9. Accumulates(g, e, A)
  BY <1>1, <1>6, <1>7, <1>8 DEF Accumulates
<1>10. g[Len(e)] = FlattenSeq(e)
  BY ONLY <1>9, e \in Seq(Seq(A)), FlattenTo
<1>11. g[N] = Ink(G[N], W)
  BY <1>5
<1> QED
  BY <1>1, <1>2, <1>10, <1>11

(* Parts with the same ink have the same ink together. *)
LEMMA InkSame ==
    ASSUME NEW W, NEW A, NEW q \in Seq(Seq(A)), NEW r \in Seq(Seq(A)), Len(q) = Len(r),
           \A i \in 1 .. Len(q) : Ink(q[i], W) = Ink(r[i], W)
    PROVE  Ink(FlattenSeq(q), W) = Ink(FlattenSeq(r), W)
<1>1. PICK N \in Nat : N = Len(q)
  OBVIOUS
<1> DEFINE e == [i \in 1 .. N |-> Ink(q[i], W)]
<1>2. \A i \in 1 .. N : e[i] = Ink(q[i], W) /\ e[i] \in Seq(A)
  <2> TAKE i \in 1 .. N
  <2>1. PICK x \in Seq(A) : x = q[i]
    BY <1>1
  <2>2. Ink(x, W) \in Seq(A)
    BY InkIs
  <2> QED
    BY <2>1, <2>2
<1>3. e \in Seq(Seq(A)) /\ Len(e) = N
  <2>1. e \in [1 .. N -> Seq(A)]
    BY <1>2
  <2> QED
    BY <2>1
<1> HIDE DEF e
<1>4. Len(e) = Len(q) /\ \A i \in 1 .. Len(q) : e[i] = Ink(q[i], W)
  BY <1>1, <1>2, <1>3
<1>5. Len(e) = Len(r) /\ \A i \in 1 .. Len(r) : e[i] = Ink(r[i], W)
  BY <1>4
<1>6. Ink(FlattenSeq(q), W) = FlattenSeq(e)
  BY ONLY <1>3, <1>4, q \in Seq(Seq(A)), InkFlatten
<1>7. Ink(FlattenSeq(r), W) = FlattenSeq(e)
  BY ONLY <1>3, <1>5, r \in Seq(Seq(A)), InkFlatten
<1> QED
  BY <1>6, <1>7

(* White space between the parts of a text adds nothing to its ink. *)
LEMMA InkJoined ==
    ASSUME NEW W, NEW A, NEW parts \in Seq(Seq(A)), NEW separator \in Seq(A),
           \A i \in 1 .. Len(separator) : separator[i] \in W
    PROVE  Ink(Joined(parts, separator), W) = Ink(FlattenSeq(parts), W)
<1> DEFINE w == Separated(parts, separator)
<1>1. /\ Joined(parts, separator) = FlattenSeq(w) /\ w \in Seq(Seq(A)) /\ Len(w) = Len(parts)
      /\ \A i \in 1 .. Len(parts) : w[i] = IF i = 1 THEN parts[i] ELSE separator \o parts[i]
  BY SeparatedIs
<1> HIDE DEF w
<1>2. Ink(separator, W) = <<>>
  BY InkOfMute
<1>3. ASSUME NEW i \in 1 .. Len(w) PROVE Ink(w[i], W) = Ink(parts[i], W)
  <2>1. CASE i = 1
    BY <1>1, <2>1
  <2>2. CASE i # 1
    <3>1. PICK x \in Seq(A) : x = parts[i]
      BY <1>1
    <3>2. PICK z : z = w[i]
      OBVIOUS
    <3>3. z = separator \o x
      BY <1>1, <2>2, <3>1, <3>2
    <3>4. Ink(z, W) = Ink(separator, W) \o Ink(x, W)
      BY ONLY <3>3, x \in Seq(A), separator \in Seq(A), InkConcat
    <3>5. Ink(x, W) \in Seq(A)
      BY InkIs
    <3>6. PICK y \in Seq(A) : y = Ink(x, W)
      BY <3>5
    <3>7. <<>> \o y = y
      BY ConcatEmptySeq
    <3> QED
      BY <1>2, <3>1, <3>2, <3>4, <3>6, <3>7
  <2> QED
    BY <2>1, <2>2
<1>4. Ink(FlattenSeq(w), W) = Ink(FlattenSeq(parts), W)
  <2>1. w \in Seq(Seq(A)) /\ Len(w) = Len(parts)
    BY <1>1
  <2> QED
    BY ONLY <1>3, <2>1, parts \in Seq(Seq(A)), InkSame
<1> QED
  BY <1>1, <1>4

-----------------------------------------------------------------------------
(* What of a text follows its front matter. *)

(* The ink of t after its first n letters. *)
InkAfter(t, n, W) == Only(t, {p \in Inked(t, W) : p > n})

(* A text cut in two: u is its first n letters, v the rest. *)
Cut(t, n, u, v, A) ==
    /\ u \in Seq(A) /\ Len(u) = n /\ \A i \in 1 .. n : u[i] = t[i]
    /\ v \in Seq(A) /\ Len(v) = Len(t) - n
    /\ \A i \in 1 .. Len(t) - n : v[i] = t[n + i]
    /\ t = u \o v

LEMMA CutAt ==
    ASSUME NEW A, NEW t \in Seq(A), NEW n \in 0 .. Len(t),
           NEW u, u = SubSeq(t, 1, n), NEW v, v = SubSeq(t, n + 1, Len(t))
    PROVE  Cut(t, n, u, v, A)
<1>1. PICK L \in Nat : L = Len(t)
  OBVIOUS
<1>2. n \in 0 .. L /\ n \in Nat
  BY <1>1
<1>3. u = SubSeq(t, 1, n)
  OBVIOUS
<1>4. v = SubSeq(t, n + 1, L)
  BY <1>1
<1>5. u \in Seq(A) /\ Len(u) = n /\ \A i \in 1 .. n : u[i] = t[i]
  <2>1. \A i \in 1 .. n : t[i] \in A
    BY <1>1, <1>2
  <2>2. /\ SubSeq(t, 1, n) \in Seq(A)
        /\ Len(SubSeq(t, 1, n)) = IF 1 <= n THEN n - 1 + 1 ELSE 0
        /\ \A i \in 1 .. n - 1 + 1 : SubSeq(t, 1, n)[i] = t[1 + i - 1]
    <3>1. 1 \in Int /\ n \in Int
      BY <1>2
    <3> QED
      BY ONLY <2>1, <3>1, SubSeqProperties
  <2>3. n - 1 + 1 = n /\ \A i \in 1 .. n : 1 + i - 1 = i
    BY <1>2
  <2> QED
    BY <1>2, <1>3, <2>2, <2>3
<1>6. v \in Seq(A) /\ Len(v) = L - n /\ \A i \in 1 .. L - n : v[i] = t[n + i]
  <2>1. \A i \in n + 1 .. L : t[i] \in A
    BY <1>1, <1>2
  <2>2. PICK b \in Int : b = n + 1
    BY <1>2
  <2>3. /\ SubSeq(t, b, L) \in Seq(A)
        /\ Len(SubSeq(t, b, L)) = IF b <= L THEN L - b + 1 ELSE 0
        /\ \A i \in 1 .. L - b + 1 : SubSeq(t, b, L)[i] = t[b + i - 1]
    <3>1. \A i \in b .. L : t[i] \in A
      BY <2>1, <2>2
    <3>2. L \in Int
      OBVIOUS
    <3> QED
      BY ONLY <3>1, <3>2, b \in Int, SubSeqProperties
  <2>4. L - b + 1 = L - n /\ (IF b <= L THEN L - b + 1 ELSE 0) = L - n
        /\ \A i \in 1 .. L - n : b + i - 1 = n + i
    BY <1>2, <2>2
  <2> QED
    BY <1>4, <2>2, <2>3, <2>4
<1>7. t = u \o v
  <2>1. PICK w : w = u \o v
    OBVIOUS
  <2>2. /\ w \in Seq(A) /\ Len(w) = Len(u) + Len(v)
        /\ \A i \in 1 .. Len(u) : w[i] = u[i]
        /\ \A i \in 1 .. Len(v) : w[Len(u) + i] = v[i]
    <3>1. u \in Seq(A) /\ v \in Seq(A)
      BY <1>5, <1>6
    <3> QED
      BY ONLY <2>1, <3>1, ConcatIs
  <2>3. /\ Len(w) = L
        /\ \A i \in 1 .. n : w[i] = t[i]
        /\ \A i \in 1 .. L - n : w[n + i] = t[n + i]
    <3>1. Len(u) = n /\ Len(v) = L - n
      BY <1>5, <1>6
    <3>2. /\ Len(w) = n + (L - n)
          /\ \A i \in 1 .. n : w[i] = u[i]
          /\ \A i \in 1 .. L - n : w[n + i] = v[i]
      BY ONLY <2>2, <3>1
    <3>3. n + (L - n) = L
      BY <1>2
    <3>4. \A i \in 1 .. n : w[i] = t[i]
      BY ONLY <1>5, <3>2
    <3>5. \A i \in 1 .. L - n : w[n + i] = t[n + i]
      BY ONLY <1>6, <3>2
    <3> QED
      BY <3>2, <3>3, <3>4, <3>5
  <2>4. ASSUME NEW i \in 1 .. L PROVE w[i] = t[i]
    <3>1. CASE i <= n
      BY <2>3, <3>1
    <3>2. CASE ~(i <= n)
      <4>1. i - n \in 1 .. L - n /\ n + (i - n) = i
        BY <1>2, <3>2
      <4>2. w[n + (i - n)] = t[n + (i - n)]
        BY <2>3, <4>1
      <4> QED
        BY <4>1, <4>2
    <3> QED
      BY <3>1, <3>2
  <2>5. Len(w) = Len(t) /\ \A i \in 1 .. Len(w) : w[i] = t[i]
    BY <1>1, <2>3, <2>4
  <2>6. w = t
    BY ONLY <2>2, <2>5, t \in Seq(A), SeqEqual
  <2> QED
    BY <2>1, <2>6
<1> QED
  BY <1>1, <1>5, <1>6, <1>7 DEF Cut

(* It is the ink of the rest of the text. *)
LEMMA InkAfterIs ==
    ASSUME NEW W, NEW A, NEW t \in Seq(A), NEW n \in 0 .. Len(t)
    PROVE  /\ SubSeq(t, n + 1, Len(t)) \in Seq(A)
           /\ InkAfter(t, n, W) = Ink(SubSeq(t, n + 1, Len(t)), W)
<1>1. PICK L \in Nat : L = Len(t)
  OBVIOUS
<1>2. n \in 0 .. L /\ n \in Nat
  BY <1>1
<1>3. PICK u : u = SubSeq(t, 1, n)
  OBVIOUS
<1>4. PICK v : v = SubSeq(t, n + 1, Len(t))
  OBVIOUS
<1>c. Cut(t, n, u, v, A)
  BY ONLY <1>3, <1>4, t \in Seq(A), n \in 0 .. Len(t), CutAt
<1>5. u \in Seq(A) /\ Len(u) = n
  BY <1>c DEF Cut
<1>6. v \in Seq(A) /\ Len(v) = L - n /\ \A i \in 1 .. L - n : v[i] = t[n + i]
  BY <1>1, <1>c DEF Cut
<1>7. t = u \o v
  BY <1>c DEF Cut
<1>8. PICK U : U = {p \in Inked(t, W) : p > n}
  OBVIOUS
<1>9. PICK T : T = Inked(v, W)
  OBVIOUS
<1>10. U = {p \in 1 .. L : t[p] \notin W /\ p > n}
  BY <1>1, <1>8 DEF Inked
<1>11. T = {p \in 1 .. L - n : v[p] \notin W}
  BY <1>2, <1>6, <1>9 DEF Inked
<1>12. SideBySide(u, v, t, {}, T, U)
  <2>1. U \subseteq 1 .. n + (L - n) /\ \A i \in 1 .. n : i \notin U
    BY <1>2, <1>10
  <2>2. \A i \in 1 .. L - n : n + i \in U <=> i \in T
    <3> TAKE i \in 1 .. L - n
    <3>1. n + i \in 1 .. L /\ n + i > n
      BY <1>2
    <3> QED
      BY <1>6, <1>10, <1>11, <3>1
  <2>3. T \subseteq 1 .. L - n
    BY <1>11
  <2> QED
    BY <1>5, <1>6, <1>7, <2>1, <2>2, <2>3 DEF SideBySide
<1>13. Only(t, U) = Only(u, {}) \o Only(v, T)
  <2>1. u \in Seq(A) /\ v \in Seq(A)
    BY <1>5, <1>6
  <2> QED
    BY ONLY <1>12, <2>1, OnlyConcat
<1>14. Only(u, {}) = <<>>
  BY <1>5, OnlyNone
<1>15. Only(v, T) = Ink(v, W)
  BY <1>9 DEF Ink
<1>16. <<>> \o Ink(v, W) = Ink(v, W)
  <2>1. Ink(v, W) \in Seq(A)
    BY <1>6, InkIs
  <2> QED
    BY <2>1, ConcatEmptySeq
<1> QED
  BY <1>1, <1>4, <1>6, <1>8, <1>13, <1>14, <1>15, <1>16 DEF InkAfter

(* After no letters it is all of the ink. *)
LEMMA InkAfterNothing ==
    ASSUME NEW W, NEW A, NEW t \in Seq(A)
    PROVE  InkAfter(t, 0, W) = Ink(t, W)
<1>1. {p \in Inked(t, W) : p > 0} = Inked(t, W)
  <2>1. \A p \in Inked(t, W) : p \in 1 .. Len(t)
    BY InkIs
  <2>2. \A p \in 1 .. Len(t) : p > 0
    OBVIOUS
  <2> QED
    BY <2>1, <2>2
<1> QED
  BY <1>1 DEF InkAfter, Ink

-----------------------------------------------------------------------------
(* Notes that became Markdown. *)

(* u is a text over A with this ink. *)
Says(u, ink, A, W) == u \in Seq(A) /\ Ink(u, W) = ink

LEMMA SaysOwn ==
    ASSUME NEW W, NEW A, NEW u \in Seq(A)
    PROVE  Says(u, Ink(u, W), A, W)
BY DEF Says

LEMMA SaysNothing ==
    ASSUME NEW W, NEW A, NEW u \in Seq(A), \A i \in 1 .. Len(u) : u[i] \in W
    PROVE  Says(u, <<>>, A, W)
BY InkOfMute DEF Says

LEMMA EmptySays ==
    ASSUME NEW W, NEW A
    PROVE  Says(<<>>, <<>>, A, W)
<1>1. PICK u \in Seq(A) : u = <<>>
  <2>1. <<>> \in Seq(A)
    OBVIOUS
  <2> QED
    BY <2>1
<1>2. \A i \in 1 .. Len(u) : u[i] \in W
  <2>1. Len(u) = 0 /\ 1 .. 0 = {}
    BY <1>1
  <2> QED
    BY <2>1
<1> QED
  BY <1>1, <1>2, SaysNothing

LEMMA LetterSays ==
    ASSUME NEW W, NEW A, NEW x \in A, x \in W
    PROVE  Says(<<x>>, <<>>, A, W)
<1>1. PICK u : u = <<x>>
  OBVIOUS
<1>2. u \in Seq(A) /\ \A i \in 1 .. Len(u) : u[i] \in W
  BY <1>1, SingleIs
<1> QED
  BY <1>1, <1>2, SaysNothing

(* What is put before or behind a text without adding ink.                  *)
LEMMA QuietBefore ==
    ASSUME NEW W, NEW A, NEW u, NEW v, NEW b, Says(u, <<>>, A, W), Says(v, b, A, W),
           NEW c, c = u \o v
    PROVE  Says(c, b, A, W)
<1>1. PICK x \in Seq(A) : x = u /\ Ink(x, W) = <<>>
  BY DEF Says
<1>2. PICK y \in Seq(A) : y = v /\ Ink(y, W) = b
  BY DEF Says
<1>3. c = x \o y
  BY <1>1, <1>2
<1>4. c \in Seq(A)
  BY ONLY <1>3, x \in Seq(A), y \in Seq(A), ConcatIs
<1>5. Ink(c, W) = Ink(x, W) \o Ink(y, W)
  BY ONLY <1>3, x \in Seq(A), y \in Seq(A), InkConcat
<1>6. PICK i \in Seq(A) : i = Ink(y, W)
  BY InkIs
<1>7. <<>> \o i = i
  BY ConcatEmptySeq
<1> QED
  BY <1>1, <1>2, <1>4, <1>5, <1>6, <1>7 DEF Says

LEMMA QuietBehind ==
    ASSUME NEW W, NEW A, NEW u, NEW v, NEW b, Says(u, b, A, W), Says(v, <<>>, A, W),
           NEW c, c = u \o v
    PROVE  Says(c, b, A, W)
<1>1. PICK x \in Seq(A) : x = u /\ Ink(x, W) = b
  BY DEF Says
<1>2. PICK y \in Seq(A) : y = v /\ Ink(y, W) = <<>>
  BY DEF Says
<1>3. c = x \o y
  BY <1>1, <1>2
<1>4. c \in Seq(A)
  BY ONLY <1>3, x \in Seq(A), y \in Seq(A), ConcatIs
<1>5. Ink(c, W) = Ink(x, W) \o Ink(y, W)
  BY ONLY <1>3, x \in Seq(A), y \in Seq(A), InkConcat
<1>6. PICK i \in Seq(A) : i = Ink(x, W)
  BY InkIs
<1>7. i \o <<>> = i
  BY ConcatEmptySeq
<1> QED
  BY <1>1, <1>2, <1>4, <1>5, <1>6, <1>7 DEF Says

(* A text cut in two, one part without ink. *)
LEMMA FrontSays ==
    ASSUME NEW W, NEW A, NEW t \in Seq(A), NEW n \in 0 .. Len(t),
           \A i \in 1 .. Len(t) - n : t[n + i] \in W
    PROVE  Says(SubSeq(t, 1, n), Ink(t, W), A, W)
<1>1. PICK u : u = SubSeq(t, 1, n)
  OBVIOUS
<1>2. PICK v : v = SubSeq(t, n + 1, Len(t))
  OBVIOUS
<1>c. Cut(t, n, u, v, A)
  BY ONLY <1>1, <1>2, t \in Seq(A), n \in 0 .. Len(t), CutAt
<1>3. /\ u \in Seq(A) /\ Len(u) = n /\ \A i \in 1 .. n : u[i] = t[i]
      /\ v \in Seq(A) /\ Len(v) = Len(t) - n
      /\ \A i \in 1 .. Len(t) - n : v[i] = t[n + i]
      /\ t = u \o v
  BY <1>c DEF Cut
<1>4. \A i \in 1 .. Len(v) : v[i] \in W
  BY <1>3
<1>5. Says(v, <<>>, A, W)
  BY <1>3, <1>4, SaysNothing
<1>6. Says(u, Ink(u, W), A, W)
  BY <1>3, SaysOwn
<1>7. Says(t, Ink(u, W), A, W)
  BY <1>3, <1>5, <1>6, QuietBehind
<1> QED
  BY <1>1, <1>6, <1>7 DEF Says

LEMMA RestSays ==
    ASSUME NEW W, NEW A, NEW t \in Seq(A), NEW n \in 0 .. Len(t),
           \A i \in 1 .. n : t[i] \in W
    PROVE  Says(SubSeq(t, n + 1, Len(t)), Ink(t, W), A, W)
<1>1. PICK u : u = SubSeq(t, 1, n)
  OBVIOUS
<1>2. PICK v : v = SubSeq(t, n + 1, Len(t))
  OBVIOUS
<1>c. Cut(t, n, u, v, A)
  BY ONLY <1>1, <1>2, t \in Seq(A), n \in 0 .. Len(t), CutAt
<1>3. /\ u \in Seq(A) /\ Len(u) = n /\ \A i \in 1 .. n : u[i] = t[i]
      /\ v \in Seq(A) /\ Len(v) = Len(t) - n
      /\ \A i \in 1 .. Len(t) - n : v[i] = t[n + i]
      /\ t = u \o v
  BY <1>c DEF Cut
<1>4. \A i \in 1 .. Len(u) : u[i] \in W
  BY <1>3
<1>5. Says(u, <<>>, A, W)
  BY <1>3, <1>4, SaysNothing
<1>6. Says(v, Ink(v, W), A, W)
  BY <1>3, SaysOwn
<1>7. Says(t, Ink(v, W), A, W)
  BY <1>3, <1>5, <1>6, QuietBefore
<1> QED
  BY <1>2, <1>6, <1>7 DEF Says

(* Stripping takes white space only. *)
LEMMA RightStrippedSays ==
    ASSUME NEW W, White \subseteq W, NEW A, NEW l \in Seq(A)
    PROVE  Says(RightStripped(l), Ink(l, W), A, W)
<1> DEFINE S == {0} \cup {i \in DOMAIN l : l[i] \notin White}
<1>1. PICK N \in Nat : N = Len(l)
  OBVIOUS
<1>2. S = {0} \cup {i \in 1 .. N : l[i] \notin White}
  BY <1>1
<1>3. PICK a \in Int : a = 0
  OBVIOUS
<1>4. PICK b \in Int : b = N
  OBVIOUS
<1>5. S \in SUBSET (a .. b) /\ S # {}
  BY <1>2, <1>3, <1>4
<1> HIDE DEF S
<1>6. Max(S) \in S /\ \A y \in S : Max(S) >= y
  BY ONLY <1>5, a \in Int, b \in Int, Greatest
<1>7. PICK n \in 0 .. N : n = Max(S)
  BY <1>3, <1>4, <1>5, <1>6
<1>8. ASSUME NEW i \in 1 .. N - n PROVE l[n + i] \in White
  <2>1. n + i \in 1 .. N /\ ~(n >= n + i)
    OBVIOUS
  <2>2. n + i \notin S
    BY <1>6, <1>7, <2>1
  <2> QED
    BY <1>2, <2>1, <2>2
<1>9. n \in 0 .. Len(l) /\ \A i \in 1 .. Len(l) - n : l[n + i] \in W
  BY <1>1, <1>8
<1>10. Says(SubSeq(l, 1, n), Ink(l, W), A, W)
  BY <1>9, FrontSays
<1> QED
  BY <1>7, <1>10 DEF RightStripped, S

LEMMA LeftStrippedSays ==
    ASSUME NEW W, White \subseteq W, NEW A, NEW l \in Seq(A)
    PROVE  Says(LeftStripped(l), Ink(l, W), A, W)
<1> DEFINE S == {Len(l) + 1} \cup {i \in DOMAIN l : l[i] \notin White}
<1>1. PICK N \in Nat : N = Len(l)
  OBVIOUS
<1>2. S = {N + 1} \cup {i \in 1 .. N : l[i] \notin White}
  BY <1>1
<1>3. PICK a \in Int : a = 1
  OBVIOUS
<1>4. PICK b \in Int : b = N + 1
  OBVIOUS
<1>5. S \in SUBSET (a .. b) /\ S # {}
  BY <1>2, <1>3, <1>4
<1> HIDE DEF S
<1>6. Min(S) \in S /\ \A y \in S : Min(S) <= y
  BY ONLY <1>5, a \in Int, b \in Int, Least
<1>7. PICK m \in 1 .. N + 1 : m = Min(S)
  BY <1>3, <1>4, <1>5, <1>6
<1>a. PICK n \in 0 .. N : m = n + 1
  <2>1. m - 1 \in 0 .. N /\ m = (m - 1) + 1
    OBVIOUS
  <2> QED
    BY <2>1
<1>8. ASSUME NEW i \in 1 .. n PROVE l[i] \in White
  <2>1. i \in 1 .. N /\ ~(m <= i)
    BY <1>a
  <2>2. i \notin S
    BY <1>6, <1>7, <2>1
  <2> QED
    BY <1>2, <2>1, <2>2
<1>9. n \in 0 .. Len(l) /\ \A i \in 1 .. n : l[i] \in W
  BY <1>1, <1>8
<1>10. Says(SubSeq(l, n + 1, Len(l)), Ink(l, W), A, W)
  BY <1>9, RestSays
<1> QED
  BY <1>7, <1>a, <1>10 DEF LeftStripped, S

(* The mark a line begins with, when it does not count. *)
LEMMA AfterMarkSays ==
    ASSUME NEW W, White \subseteq W, NEW A, NEW l \in Seq(A), l # <<>>, l[1] \in W
    PROVE  Says(AfterMark(l), Ink(l, W), A, W)
<1>1. PICK N \in Nat : N = Len(l) /\ N >= 1
  BY EmptySeq, LenProperties
<1>2. PICK v : v = SubSeq(l, 1 + 1, Len(l))
  OBVIOUS
<1>3. 1 \in 0 .. Len(l)
  BY <1>1
<1>4. \A i \in 1 .. 1 : l[i] \in W
  <2> TAKE i \in 1 .. 1
  <2>1. i = 1
    OBVIOUS
  <2> QED
    BY <2>1
<1>5. Says(v, Ink(l, W), A, W)
  BY <1>2, <1>3, <1>4, RestSays
<1>6. v \in Seq(A) /\ Ink(v, W) = Ink(l, W)
  BY <1>5 DEF Says
<1>10. Says(LeftStripped(v), Ink(v, W), A, W)
  BY <1>6, LeftStrippedSays
<1>11. Tail(l) = v
  BY <1>1, <1>2
<1> QED
  BY <1>6, <1>10, <1>11 DEF Says, AfterMark

LEMMA SectionSays ==
    ASSUME NEW W, White \subseteq W, "colon" \in W,
           NEW A, NEW l \in Seq(A), l # <<>>, l[1] \in W
    PROVE  Says(section(l), Ink(l, W), A, W)
<1>1. PICK name : name = AfterMark(l)
  OBVIOUS
<1>2. Says(name, Ink(l, W), A, W)
  BY <1>1, AfterMarkSays
<1>3. CASE ~(name # <<>> /\ Last(name) = "colon")
  BY <1>1, <1>2, <1>3 DEF section
<1>4. CASE name # <<>> /\ Last(name) = "colon"
  <2>1. name \in Seq(A)
    BY <1>2 DEF Says
  <2>2. PICK N \in Nat : Len(name) = N + 1
    <3>1. Len(name) \in Nat /\ Len(name) >= 1
      BY <1>4, <2>1, EmptySeq, LenProperties
    <3>2. Len(name) - 1 \in Nat /\ Len(name) = (Len(name) - 1) + 1
      BY <3>1
    <3> QED
      BY <3>2
  <2>3. N \in 0 .. Len(name) /\ Len(name) - N = 1 /\ name[N + 1] = "colon"
    <3>1. name[Len(name)] = "colon"
      BY <1>4 DEF Last
    <3>2. name[N + 1] = "colon"
      BY <2>2, <3>1
    <3> QED
      BY <2>2, <3>2
  <2>4. \A i \in 1 .. Len(name) - N : name[N + i] \in W
    <3> SUFFICES ASSUME NEW i \in 1 .. 1 PROVE name[N + i] \in W
      BY <2>3
    <3>1. i = 1
      OBVIOUS
    <3> QED
      BY <2>3, <3>1
  <2>5. Says(SubSeq(name, 1, N), Ink(name, W), A, W)
    BY <2>1, <2>3, <2>4, FrontSays
  <2>6. section(l) = SubSeq(name, 1, N)
    <3>1. Len(name) - 1 = N
      BY <2>2
    <3> QED
      BY <1>1, <1>4, <3>1 DEF section, Front
  <2> QED
    BY <1>2, <2>5, <2>6 DEF Says
<1> QED
  BY <1>3, <1>4

(* The letters that extraction adds. *)
Letters == {"fence", "newline", "tag", "sheet", "blank", "heading", "mark", "date", "untitled"}

(* W has the letters that are no words of notes. *)
Wordless(W) == White \cup Notation \subseteq W

LEMMA GapSays ==
    ASSUME NEW W, Wordless(W), NEW A, Letters \subseteq A, NEW open, NEW kind
    PROVE  Says(Gap(open, kind), <<>>, A, W)
<1>1. PICK u : u = IF open \in {"plain", "comment"} \ {kind} THEN NewLine ELSE <<>>
  OBVIOUS
<1>2. PICK v : v = IF kind = "plain" /\ open # "plain" THEN NewLine ELSE <<>>
  OBVIOUS
<1>3. Says(NewLine, <<>>, A, W)
  <2>1. "newline" \in A /\ "newline" \in W
    BY DEF Letters, Wordless, White
  <2> QED
    BY <2>1, LetterSays DEF NewLine
<1>4. Says(u, <<>>, A, W) /\ Says(v, <<>>, A, W)
  BY <1>1, <1>2, <1>3, EmptySays
<1>5. PICK c : c = u \o v
  OBVIOUS
<1>6. Says(c, <<>>, A, W)
  BY <1>4, <1>5, QuietBefore
<1> QED
  BY <1>1, <1>2, <1>5, <1>6 DEF Gap

LEMMA EmptyLineSays ==
    ASSUME NEW W, Wordless(W), NEW A, Letters \subseteq A
    PROVE  Says(EmptyLine, <<>>, A, W)
<1>1. "newline" \in A /\ "newline" \in W
  BY DEF Letters, Wordless, White
<1>2. PICK u : u = EmptyLine
  OBVIOUS
<1>3. u \in Seq(A) /\ Len(u) = 2 /\ u[1] = "newline" /\ u[2] = "newline"
  BY <1>1, <1>2 DEF EmptyLine
<1>4. \A i \in 1 .. Len(u) : u[i] \in W
  <2>1. \A i \in 1 .. 2 : i = 1 \/ i = 2
    OBVIOUS
  <2> QED
    BY <1>1, <1>3, <2>1
<1> QED
  BY <1>2, <1>3, <1>4, SaysNothing

LEMMA HeadingSays ==
    ASSUME NEW W, Wordless(W), NEW A, Letters \subseteq A,
           NEW date \in {<<>>, <<"date">>}, NEW name, NEW b, Says(name, b, A, W)
    PROVE  Says(Heading(date, name), b, A, W)
<1>1. /\ "newline" \in A /\ "heading" \in A /\ "date" \in A
      /\ "newline" \in W /\ "heading" \in W /\ "date" \in W
  BY DEF Letters, Wordless, White, Notation
<1>2. PICK n : n = NewLine
  OBVIOUS
<1>3. PICK h : h = <<"heading">>
  OBVIOUS
<1>4. Says(n, <<>>, A, W) /\ Says(h, <<>>, A, W)
  BY <1>1, <1>2, <1>3, LetterSays DEF NewLine
<1>5. Says(date, <<>>, A, W)
  BY <1>1, LetterSays, EmptySays
<1>6. PICK x : x = n \o h
  OBVIOUS
<1>7. PICK y : y = x \o date
  OBVIOUS
<1>8. PICK z : z = y \o name
  OBVIOUS
<1>9. PICK e : e = EmptyLine
  OBVIOUS
<1>10. PICK c : c = z \o e
  OBVIOUS
<1>11. Says(x, <<>>, A, W)
  BY <1>4, <1>6, QuietBefore
<1>12. Says(y, <<>>, A, W)
  BY <1>5, <1>7, <1>11, QuietBefore
<1>13. Says(z, b, A, W)
  BY <1>8, <1>12, QuietBefore
<1>14. Says(c, b, A, W)
  BY <1>9, <1>10, <1>13, EmptyLineSays, QuietBehind
<1> QED
  BY <1>2, <1>3, <1>6, <1>7, <1>8, <1>9, <1>10, <1>14 DEF Heading

(* What a line is that is taken for one thing or another. *)
LEMMA KindIs ==
    ASSUME NEW l
    PROVE  /\ Kind(l) \in {"empty", "header", "item", "comment", "rule", "day", "section",
                           "field", "url", "plain"}
           /\ Kind(l) = "empty" <=> l = <<>>
           /\ Kind(l) = "comment" => l[1] \in {"hash", "heading", "sheet"}
           /\ Kind(l) = "section" => l[1] = "section"
BY DEF Kind

LEMMA FormattedSays ==
    ASSUME NEW W, Wordless(W), NEW A, Letters \subseteq A, NEW l \in Seq(A), l # <<>>
    PROVE  Says(Formatted(l), Ink(l, W), A, W)
<1>1. PICK m : m = <<"mark">>
  OBVIOUS
<1>2. White \subseteq W /\ Says(m, <<>>, A, W)
  <2>1. "mark" \in A /\ "mark" \in W /\ White \subseteq W
    BY DEF Letters, Wordless, Notation
  <2> QED
    BY <1>1, <2>1, LetterSays
<1>3. Says(l, Ink(l, W), A, W)
  BY SaysOwn
<1>4. ASSUME NEW u, Says(u, Ink(l, W), A, W)
      PROVE  Says(m \o u, Ink(l, W), A, W)
  BY <1>2, <1>4, QuietBefore
<1>5. CASE Kind(l) = "item"
  <2>1. Says(LeftStripped(l), Ink(l, W), A, W)
    BY <1>2, LeftStrippedSays
  <2>2. Formatted(l) = m \o LeftStripped(l)
    BY <1>1, <1>5 DEF Formatted
  <2> QED
    BY <1>4, <2>1, <2>2
<1>6. CASE Kind(l) = "comment" /\ l[1] = "hash"
  <2>1. "hash" \in W
    BY DEF Wordless, Notation
  <2>2. Says(AfterMark(l), Ink(l, W), A, W)
    BY <1>2, <1>6, <2>1, AfterMarkSays
  <2>3. Formatted(l) = m \o AfterMark(l)
    BY <1>1, <1>6 DEF Formatted
  <2> QED
    BY <1>4, <2>2, <2>3
<1>7. CASE (Kind(l) = "comment" /\ l[1] # "hash") \/ Kind(l) = "field"
  <2>1. Formatted(l) = m \o l
    BY <1>1, <1>7 DEF Formatted
  <2> QED
    BY <1>3, <1>4, <2>1
<1>8. CASE Kind(l) \notin {"item", "comment", "field"}
  <2>1. Formatted(l) = l
    BY <1>8 DEF Formatted
  <2> QED
    BY <1>3, <2>1
<1> QED
  BY <1>5, <1>6, <1>7, <1>8

(* What is written for a line is what the line says, or nothing. *)
LEMMA WrittenSays ==
    ASSUME NEW W, Wordless(W), NEW A, Letters \subseteq A,
           NEW lines \in Seq(Seq(A)), NEW i \in 1 .. Len(lines), NEW top
    PROVE  Says(Written(lines, i, top),
                IF LeftOut(lines[i], top) THEN <<>> ELSE Ink(lines[i], W), A, W)
<1>1. PICK l \in Seq(A) : l = lines[i]
  OBVIOUS
<1>2. PICK date \in {<<>>, <<"date">>} : date = current_date(lines, i)
  BY DEF current_date
<1>3. PICK gap : gap = Gap(block(lines, i), Kind(l))
  OBVIOUS
<1>4. Says(gap, <<>>, A, W)
  BY <1>3, GapSays
<1>5. White \subseteq W /\ "colon" \in W /\ "section" \in W
  BY DEF Wordless, Notation
<1>6. CASE Kind(l) \in {"header", "day"}
  <2>1. Written(lines, i, top) = <<>> /\ LeftOut(lines[i], top)
    BY <1>1, <1>6 DEF Written, LeftOut, IsTitle
  <2> QED
    BY <2>1, EmptySays
<1>7. CASE Kind(l) = "rule" \/ IsTitle(l, top)
  <2>1. Written(lines, i, top) = gap /\ LeftOut(lines[i], top)
    BY <1>1, <1>3, <1>7 DEF Written, LeftOut, IsTitle
  <2> QED
    BY <1>4, <2>1
<1>8. CASE Kind(l) = "empty"
  <2>1. Written(lines, i, top) = gap /\ ~LeftOut(lines[i], top)
    BY <1>1, <1>3, <1>8 DEF Written, LeftOut, IsTitle
  <2>2. l = <<>> /\ Says(<<>>, <<>>, A, W)
    BY <1>8, KindIs, EmptySays
  <2>3. Ink(lines[i], W) = <<>>
    BY <1>1, <2>2 DEF Says
  <2> QED
    BY <1>4, <2>1, <2>3
<1>9. CASE Kind(l) = "section" /\ ~IsTitle(l, top)
  <2>1. Written(lines, i, top) = gap \o Heading(date, section(l)) /\ ~LeftOut(lines[i], top)
    BY <1>1, <1>2, <1>3, <1>9 DEF Written, LeftOut
  <2>2. l # <<>> /\ l[1] \in W
    BY <1>5, <1>9, KindIs
  <2>3. Says(section(l), Ink(l, W), A, W)
    BY <1>5, <2>2, SectionSays
  <2>4. PICK h : h = Heading(date, section(l))
    OBVIOUS
  <2>5. Says(h, Ink(l, W), A, W)
    BY <2>3, <2>4, HeadingSays
  <2>6. Says(gap \o h, Ink(l, W), A, W)
    BY <1>4, <2>5, QuietBefore
  <2> QED
    BY <1>1, <2>1, <2>4, <2>6
<1>10. CASE Kind(l) \notin {"header", "day", "rule", "empty", "section"}
  <2>1. PICK d : d = IF pending_date(lines, i, top) THEN Heading(date, <<>>) ELSE <<>>
    OBVIOUS
  <2>2. PICK g : g = Formatted(l)
    OBVIOUS
  <2>3. PICK n : n = NewLine
    OBVIOUS
  <2>4. /\ Written(lines, i, top) = ((d \o gap) \o g) \o n
        /\ ~LeftOut(lines[i], top)
    BY <1>1, <1>2, <1>3, <1>10, <2>1, <2>2, <2>3 DEF Written, LeftOut, IsTitle
  <2>5. Says(d, <<>>, A, W)
    BY <2>1, EmptySays, HeadingSays
  <2>6. Says(n, <<>>, A, W)
    <3>1. "newline" \in A /\ "newline" \in W
      BY DEF Letters, Wordless, White
    <3> QED
      BY <2>3, <3>1, LetterSays DEF NewLine
  <2>7. l # <<>>
    BY <1>10, KindIs
  <2>8. Says(g, Ink(l, W), A, W)
    BY <2>2, <2>7, FormattedSays
  <2>9. PICK x : x = d \o gap
    OBVIOUS
  <2>10. PICK y : y = x \o g
    OBVIOUS
  <2>11. Says(x, <<>>, A, W)
    BY <1>4, <2>5, <2>9, QuietBefore
  <2>12. Says(y, Ink(l, W), A, W)
    BY <2>8, <2>10, <2>11, QuietBefore
  <2>13. Says(y \o n, Ink(l, W), A, W)
    BY <2>6, <2>12, QuietBehind
  <2> QED
    BY <1>1, <2>4, <2>9, <2>10, <2>13
<1> QED
  BY <1>6, <1>7, <1>8, <1>9, <1>10, KindIs

(* A function on 1 .. n is a sequence. *)
LEMMA ListIs ==
    ASSUME NEW S, NEW n \in Nat, NEW q, q = [i \in 1 .. n |-> q[i]], \A i \in 1 .. n : q[i] \in S
    PROVE  q \in Seq(S) /\ Len(q) = n /\ DOMAIN q = 1 .. n
<1>1. q \in [1 .. n -> S]
  OBVIOUS
<1> QED
  BY <1>1

(* The title of notes is made of their letters. *)
LEMMA TitleIs ==
    ASSUME NEW A, Letters \subseteq A, NEW notes \in Seq(Seq(A))
    PROVE  title(notes) \in Seq(A)
<1> DEFINE S == {i \in DOMAIN notes : IsTopHeading(notes[i])}
           first == AfterMark(notes[Min(S)])
<1>1. title(notes) = IF S = {} \/ first = <<>> THEN <<"untitled">> ELSE first
  BY DEF title
<1>2. <<"untitled">> \in Seq(A)
  BY SingleIs DEF Letters
<1>3. ASSUME S # {} PROVE first \in Seq(A)
  <2>1. PICK a \in Int : a = 1
    OBVIOUS
  <2>2. PICK b \in Int : b = Len(notes)
    OBVIOUS
  <2>3. S \in SUBSET (a .. b) /\ S # {}
    BY <1>3, <2>1, <2>2
  <2>4. Min(S) \in S
    <3> HIDE DEF S
    <3> QED
      BY ONLY <2>3, a \in Int, b \in Int, Least
  <2>5. PICK k \in S : k = Min(S)
    BY <2>4
  <2>a. k \in 1 .. Len(notes) /\ IsTopHeading(notes[k])
    <3>1. DOMAIN notes = 1 .. Len(notes)
      OBVIOUS
    <3>2. k \in DOMAIN notes /\ IsTopHeading(notes[k])
      OBVIOUS
    <3> QED
      BY <3>1, <3>2
  <2>6. PICK l \in Seq(A) : l = notes[k]
    <3> HIDE DEF S, first
    <3> QED
      BY <2>a
  <2>7. l # <<>> /\ l[1] = "section"
    BY <2>a, <2>6 DEF IsTopHeading
  <2>8. PICK W : W = White \cup {"section"}
    OBVIOUS
  <2>9. White \subseteq W /\ l[1] \in W
    BY <2>7, <2>8
  <2>10. Says(AfterMark(l), Ink(l, W), A, W)
    BY <2>7, <2>9, AfterMarkSays
  <2> QED
    BY <2>5, <2>6, <2>10 DEF Says
<1> HIDE DEF S, first
<1> QED
  BY <1>1, <1>2, <1>3

(* What the loop makes of all lines. *)
Body(lines, top) == FlattenSeq([i \in DOMAIN lines |-> Written(lines, i, top)])

Stripped(notes) == [i \in DOMAIN notes |-> RightStripped(notes[i])]

(* The lines that are not left out. *)
Kept(notes) ==
    FlattenSeq([i \in DOMAIN notes |->
        IF LeftOut(RightStripped(notes[i]), title(notes)) THEN <<>> ELSE notes[i]])

(* The lines say what the notes say, but for what is left out. *)
LEMMA BodySays ==
    ASSUME NEW W, Wordless(W), NEW A, Letters \subseteq A, NEW notes \in Seq(Seq(A))
    PROVE  /\ Kept(notes) \in Seq(A)
           /\ Says(Body(Stripped(notes), title(notes)), Ink(Kept(notes), W), A, W)
<1>1. PICK n \in Nat : n = Len(notes)
  OBVIOUS
<1>2. PICK top : top = title(notes)
  OBVIOUS
<1>3. PICK lines : lines = Stripped(notes)
  OBVIOUS
<1>4. White \subseteq W
  BY DEF Wordless
<1>5. DOMAIN notes = 1 .. n /\ \A i \in 1 .. n : notes[i] \in Seq(A)
  BY <1>1
<1>6. \A i \in 1 .. n : /\ lines[i] = RightStripped(notes[i])
                         /\ Says(lines[i], Ink(notes[i], W), A, W)
  BY <1>3, <1>4, <1>5, RightStrippedSays DEF Stripped
<1>7. \A i \in 1 .. n : lines[i] \in Seq(A) /\ Ink(lines[i], W) = Ink(notes[i], W)
  BY <1>6 DEF Says
<1>8. lines \in Seq(Seq(A)) /\ Len(lines) = n /\ DOMAIN lines = 1 .. n
  <2>1. lines = [i \in 1 .. n |-> lines[i]]
    BY <1>3, <1>5 DEF Stripped
  <2>2. PICK T : T = Seq(A)
    OBVIOUS
  <2>3. \A i \in 1 .. n : lines[i] \in T
    BY <1>7, <2>2
  <2>4. lines \in Seq(T) /\ Len(lines) = n /\ DOMAIN lines = 1 .. n
    BY ONLY <2>1, <2>3, n \in Nat, ListIs
  <2> QED
    BY <2>2, <2>4
<1> DEFINE p == [i \in 1 .. n |-> Written(lines, i, top)]
           q == [i \in 1 .. n |-> IF LeftOut(lines[i], top) THEN <<>> ELSE notes[i]]
<1>9. \A i \in 1 .. n :
         Says(p[i], IF LeftOut(lines[i], top) THEN <<>> ELSE Ink(lines[i], W), A, W)
  BY <1>8, WrittenSays
<1>10. <<>> \in Seq(A) /\ Ink(<<>>, W) = <<>>
  BY EmptySays DEF Says
<1>11. \A i \in 1 .. n : /\ p[i] \in Seq(A) /\ q[i] \in Seq(A)
                          /\ Ink(p[i], W) = Ink(q[i], W)
  BY <1>5, <1>7, <1>9, <1>10 DEF Says
<1>12. p \in Seq(Seq(A)) /\ Len(p) = n /\ q \in Seq(Seq(A)) /\ Len(q) = n
  <2>1. p = [i \in 1 .. n |-> p[i]] /\ q = [i \in 1 .. n |-> q[i]]
    OBVIOUS
  <2>2. PICK T : T = Seq(A)
    OBVIOUS
  <2> HIDE DEF p, q
  <2>3. \A i \in 1 .. n : p[i] \in T /\ q[i] \in T
    BY <1>11, <2>2
  <2>4. p \in Seq(T) /\ Len(p) = n
    BY ONLY <2>1, <2>3, n \in Nat, ListIs
  <2>5. q \in Seq(T) /\ Len(q) = n
    BY ONLY <2>1, <2>3, n \in Nat, ListIs
  <2> QED
    BY <2>2, <2>4, <2>5
<1>13. Body(lines, top) = FlattenSeq(p)
  BY <1>8 DEF Body
<1>14. Kept(notes) = FlattenSeq(q)
  <2>1. q = [i \in DOMAIN notes |->
                IF LeftOut(RightStripped(notes[i]), title(notes)) THEN <<>> ELSE notes[i]]
    BY <1>2, <1>5, <1>6
  <2> HIDE DEF q
  <2> QED
    BY <2>1 DEF Kept
<1> HIDE DEF p, q
<1>15. FlattenSeq(p) \in Seq(A) /\ FlattenSeq(q) \in Seq(A)
  BY ONLY <1>12, FlattenIs
<1>16. Ink(FlattenSeq(p), W) = Ink(FlattenSeq(q), W)
  <2>1. Len(p) = Len(q) /\ \A i \in 1 .. Len(p) : Ink(p[i], W) = Ink(q[i], W)
    BY <1>11, <1>12
  <2> QED
    BY ONLY <1>12, <2>1, InkSame
<1> QED
  BY <1>2, <1>3, <1>13, <1>14, <1>15, <1>16 DEF Says

(* What converted notes say behind their header. *)
Told(notes) ==
    NewLine \o <<"mark">> \o title(notes) \o EmptyLine
        \o Body(Stripped(notes), title(notes)) \o NewLine

LEMMA ConvertedIs == \A notes : convert_to_md(notes) = Preface \o Told(notes)
BY DEF convert_to_md, Told, Body, Stripped

LEMMA NotesSay ==
    ASSUME NEW W, Wordless(W), NEW A, Letters \subseteq A, NEW notes \in Seq(Seq(A))
    PROVE  Says(Told(notes), Ink(title(notes) \o Kept(notes), W), A, W)
<1>1. PICK top \in Seq(A) : top = title(notes)
  BY TitleIs
<1>2. PICK kept \in Seq(A) : kept = Kept(notes)
  BY BodySays
<1>3. PICK body : body = Body(Stripped(notes), title(notes))
  OBVIOUS
<1>4. Says(body, Ink(kept, W), A, W)
  BY <1>2, <1>3, BodySays
<1>5. PICK n : n = NewLine
  OBVIOUS
<1>6. PICK m : m = <<"mark">>
  OBVIOUS
<1>7. PICK e : e = EmptyLine
  OBVIOUS
<1>8. Says(n, <<>>, A, W) /\ Says(m, <<>>, A, W)
  <2>1. "newline" \in A /\ "newline" \in W /\ "mark" \in A /\ "mark" \in W
    BY DEF Letters, Wordless, White, Notation
  <2> QED
    BY <1>5, <1>6, <2>1, LetterSays DEF NewLine
<1>9. PICK x : x = n \o m
  OBVIOUS
<1>10. PICK y : y = x \o top
  OBVIOUS
<1>11. PICK z : z = y \o e
  OBVIOUS
<1>12. PICK v : v = z \o body
  OBVIOUS
<1>13. Says(x, <<>>, A, W)
  BY <1>8, <1>9, QuietBefore
<1>14. Says(y, Ink(top, W), A, W)
  BY <1>10, <1>13, SaysOwn, QuietBefore
<1>15. Says(z, Ink(top, W), A, W)
  BY <1>7, <1>11, <1>14, EmptyLineSays, QuietBehind
<1>16. Says(v, Ink(top, W) \o Ink(kept, W), A, W)
  <2>1. PICK a \in Seq(A) : a = z /\ Ink(a, W) = Ink(top, W)
    BY <1>15 DEF Says
  <2>2. PICK b \in Seq(A) : b = body /\ Ink(b, W) = Ink(kept, W)
    BY <1>4 DEF Says
  <2>3. v = a \o b
    BY <1>12, <2>1, <2>2
  <2>4. v \in Seq(A)
    BY ONLY <2>3, a \in Seq(A), b \in Seq(A), ConcatIs
  <2>5. Ink(v, W) = Ink(a, W) \o Ink(b, W)
    BY ONLY <2>3, a \in Seq(A), b \in Seq(A), InkConcat
  <2> QED
    BY <2>1, <2>2, <2>4, <2>5 DEF Says
<1>17. PICK c : c = top \o kept
  OBVIOUS
<1>18. Ink(c, W) = Ink(top, W) \o Ink(kept, W)
  BY ONLY <1>17, top \in Seq(A), kept \in Seq(A), InkConcat
<1>19. Says(v \o n, Ink(c, W), A, W)
  BY <1>8, <1>16, <1>18, QuietBehind
<1>20. Told(notes) = v \o n
  BY <1>1, <1>3, <1>5, <1>6, <1>7, <1>9, <1>10, <1>11, <1>12 DEF Told
<1> QED
  BY <1>1, <1>2, <1>17, <1>19, <1>20

(* The header of converted notes, letter by letter. *)
LEMMA PrefaceIs ==
    ASSUME NEW A, Letters \subseteq A
    PROVE  /\ Preface \in Seq(A) /\ Len(Preface) = 6
           /\ Preface[1] = "fence" /\ Preface[2] = "newline" /\ Preface[3] = "tag"
           /\ Preface[4] = "newline" /\ Preface[5] = "fence" /\ Preface[6] = "newline"
<1>1. "fence" \in A /\ "newline" \in A /\ "tag" \in A
  BY DEF Letters
<1> QED
  BY <1>1 DEF Preface

(* What follows the header of converted notes is all the ink they have. *)
LEMMA PrefaceInk ==
    ASSUME NEW W, NEW A, Letters \subseteq A, NEW rest \in Seq(A), NEW t, t = Preface \o rest
    PROVE  /\ t \in Seq(A) /\ BodyStart(t) = 6
           /\ InkAfter(t, 6, W) = Ink(rest, W)
<1> DEFINE C == {j \in 3 .. Len(t) - 2 :
                    SubSeq(t, j, j + 2) = <<"newline", "fence", "newline">>}
<1>1. PICK n \in Nat : n = Len(rest)
  OBVIOUS
<1>2. PICK u \in Seq(A) : u = Preface
  BY PrefaceIs
<1>3. /\ Len(u) = 6
      /\ u[1] = "fence" /\ u[2] = "newline" /\ u[3] = "tag"
      /\ u[4] = "newline" /\ u[5] = "fence" /\ u[6] = "newline"
  BY <1>2, PrefaceIs
<1>4. /\ t \in Seq(A) /\ Len(t) = 6 + n
      /\ \A i \in 1 .. 6 : t[i] = u[i]
      /\ \A i \in 1 .. n : t[6 + i] = rest[i]
  <2>1. t = u \o rest /\ u \in Seq(A) /\ rest \in Seq(A)
    BY <1>2
  <2>2. /\ t \in Seq(A) /\ Len(t) = Len(u) + Len(rest)
        /\ \A i \in 1 .. Len(u) : t[i] = u[i]
        /\ \A i \in 1 .. Len(rest) : t[Len(u) + i] = rest[i]
    BY ONLY <2>1, ConcatIs
  <2> QED
    BY <1>1, <1>3, <2>2
<1>5. /\ t[1] = "fence" /\ t[2] = "newline" /\ t[3] = "tag" /\ t[4] = "newline"
      /\ t[5] = "fence" /\ t[6] = "newline"
  <2>1. 1 \in 1 .. 6 /\ 2 \in 1 .. 6 /\ 3 \in 1 .. 6 /\ 4 \in 1 .. 6 /\ 5 \in 1 .. 6
        /\ 6 \in 1 .. 6
    OBVIOUS
  <2>2. t[1] = u[1] /\ t[2] = u[2] /\ t[3] = u[3] /\ t[4] = u[4] /\ t[5] = u[5]
        /\ t[6] = u[6]
    BY ONLY <1>4, <2>1
  <2> QED
    BY ONLY <1>3, <2>2
<1>6. SubSeq(t, 1, 2) = <<"fence", "newline">>
  <2>1. \A i \in 1 .. 2 : t[i] \in A
    BY <1>1, <1>4
  <2>2. /\ SubSeq(t, 1, 2) \in Seq(A)
        /\ Len(SubSeq(t, 1, 2)) = IF 1 <= 2 THEN 2 - 1 + 1 ELSE 0
        /\ \A i \in 1 .. 2 - 1 + 1 : SubSeq(t, 1, 2)[i] = t[1 + i - 1]
    <3>1. 1 \in Int /\ 2 \in Int
      OBVIOUS
    <3> QED
      BY ONLY <2>1, <3>1, SubSeqProperties
  <2>3. PICK x \in Seq(A) : x = SubSeq(t, 1, 2)
    BY <2>2
  <2>4. Len(x) = 2 /\ x[1] = t[1] /\ x[2] = t[2]
    <3>1. 2 - 1 + 1 = 2 /\ 1 + 1 - 1 = 1 /\ 1 + 2 - 1 = 2 /\ 1 \in 1 .. 2 /\ 2 \in 1 .. 2
      OBVIOUS
    <3>2. x[1] = t[1 + 1 - 1] /\ x[2] = t[1 + 2 - 1]
      BY ONLY <2>2, <2>3, <3>1
    <3>3. Len(x) = IF 1 <= 2 THEN 2 - 1 + 1 ELSE 0
      BY ONLY <2>2, <2>3
    <3>4. (IF 1 <= 2 THEN 2 - 1 + 1 ELSE 0) = 2
      OBVIOUS
    <3>5. x[1] = t[1] /\ x[2] = t[2]
      BY ONLY <3>1, <3>2
    <3> QED
      BY ONLY <3>3, <3>4, <3>5
  <2>5. PICK y : y = <<"fence", "newline">>
    OBVIOUS
  <2>6. y \in Seq(A) /\ Len(y) = 2 /\ y[1] = "fence" /\ y[2] = "newline"
    <3>1. "fence" \in A /\ "newline" \in A
      BY DEF Letters
    <3> QED
      BY <2>5, <3>1
  <2>7. Len(x) = Len(y) /\ \A i \in 1 .. Len(x) : x[i] = y[i]
    BY <1>5, <2>4, <2>6
  <2>8. x = y
    BY ONLY <2>6, <2>7, x \in Seq(A), SeqEqual
  <2> QED
    BY <2>3, <2>5, <2>8
<1>7. SubSeq(t, 4, 4 + 2) = <<"newline", "fence", "newline">>
  <2>1. \A i \in 4 .. 6 : t[i] \in A
    BY <1>1, <1>4
  <2>2. /\ SubSeq(t, 4, 6) \in Seq(A)
        /\ Len(SubSeq(t, 4, 6)) = IF 4 <= 6 THEN 6 - 4 + 1 ELSE 0
        /\ \A i \in 1 .. 6 - 4 + 1 : SubSeq(t, 4, 6)[i] = t[4 + i - 1]
    <3>1. 4 \in Int /\ 6 \in Int
      OBVIOUS
    <3> QED
      BY ONLY <2>1, <3>1, SubSeqProperties
  <2>3. PICK x \in Seq(A) : x = SubSeq(t, 4, 6)
    BY <2>2
  <2>4. Len(x) = 3 /\ x[1] = t[4] /\ x[2] = t[5] /\ x[3] = t[6]
    <3>1. /\ 6 - 4 + 1 = 3 /\ 4 + 1 - 1 = 4 /\ 4 + 2 - 1 = 5 /\ 4 + 3 - 1 = 6
          /\ 1 \in 1 .. 3 /\ 2 \in 1 .. 3 /\ 3 \in 1 .. 3
      OBVIOUS
    <3>2. x[1] = t[4 + 1 - 1] /\ x[2] = t[4 + 2 - 1] /\ x[3] = t[4 + 3 - 1]
      BY ONLY <2>2, <2>3, <3>1
    <3>3. Len(x) = IF 4 <= 6 THEN 6 - 4 + 1 ELSE 0
      BY ONLY <2>2, <2>3
    <3>4. (IF 4 <= 6 THEN 6 - 4 + 1 ELSE 0) = 3
      OBVIOUS
    <3>5. x[1] = t[4] /\ x[2] = t[5] /\ x[3] = t[6]
      BY ONLY <3>1, <3>2
    <3> QED
      BY ONLY <3>3, <3>4, <3>5
  <2>5. PICK y : y = <<"newline", "fence", "newline">>
    OBVIOUS
  <2>6. y \in Seq(A) /\ Len(y) = 3 /\ y[1] = "newline" /\ y[2] = "fence" /\ y[3] = "newline"
    <3>1. "fence" \in A /\ "newline" \in A
      BY DEF Letters
    <3> QED
      BY <2>5, <3>1
  <2>7. Len(x) = Len(y) /\ \A i \in 1 .. Len(x) : x[i] = y[i]
    BY <1>5, <2>4, <2>6
  <2>8. x = y
    BY ONLY <2>6, <2>7, x \in Seq(A), SeqEqual
  <2>9. 4 + 2 = 6
    OBVIOUS
  <2> QED
    BY <2>3, <2>5, <2>8, <2>9
<1>8. SubSeq(t, 3, 3 + 2) # <<"newline", "fence", "newline">>
  <2>1. \A i \in 3 .. 5 : t[i] \in A
    BY <1>1, <1>4
  <2>2. /\ SubSeq(t, 3, 5) \in Seq(A)
        /\ \A i \in 1 .. 5 - 3 + 1 : SubSeq(t, 3, 5)[i] = t[3 + i - 1]
    <3>1. 3 \in Int /\ 5 \in Int
      OBVIOUS
    <3> QED
      BY ONLY <2>1, <3>1, SubSeqProperties
  <2>3. SubSeq(t, 3, 5)[1] = t[3]
    <3>1. 5 - 3 + 1 = 3 /\ 3 + 1 - 1 = 3 /\ 1 \in 1 .. 3
      OBVIOUS
    <3>2. SubSeq(t, 3, 5)[1] = t[3 + 1 - 1]
      BY ONLY <2>2, <3>1
    <3> QED
      BY <3>1, <3>2
  <2>4. <<"newline", "fence", "newline">>[1] = "newline"
    OBVIOUS
  <2>5. 3 + 2 = 5 /\ "tag" # "newline"
    OBVIOUS
  <2> QED
    BY <1>5, <2>3, <2>4, <2>5
<1>9. 4 \in C /\ 3 \notin C /\ C \in SUBSET (3 .. 4 + n) /\ C # {}
  <2>1. Len(t) - 2 = 4 + n /\ 4 \in 3 .. 4 + n
    BY <1>4
  <2>2. C = {j \in 3 .. 4 + n : SubSeq(t, j, j + 2) = <<"newline", "fence", "newline">>}
    BY <2>1
  <2> HIDE DEF C
  <2>3. 4 \in C
    BY <1>7, <2>1, <2>2
  <2>4. 3 \notin C
    BY <1>8, <2>2
  <2>5. C \in SUBSET (3 .. 4 + n)
    BY <2>2
  <2> QED
    BY <2>3, <2>4, <2>5
<1> HIDE DEF C
<1>10. Min(C) = 4
  <2>1. 3 \in Int /\ 4 + n \in Int
    OBVIOUS
  <2>2. PICK b \in Int : b = 4 + n
    BY <2>1
  <2>a. PICK a \in Int : a = 3
    OBVIOUS
  <2>3. C \in SUBSET (a .. b) /\ C # {}
    BY <1>9, <2>2, <2>a
  <2>4. Min(C) \in C /\ \A y \in C : Min(C) <= y
    BY ONLY <2>3, a \in Int, b \in Int, Least
  <2>c. PICK k : k = Min(C)
    OBVIOUS
  <2>d. k \in a .. b
    BY ONLY <2>3, <2>4, <2>c
  <2>5. PICK m \in Int : m = Min(C)
    BY ONLY <2>c, <2>d, a \in Int, b \in Int
  <2>6. m <= 4 /\ m >= 3 /\ m # 3
    BY <1>9, <2>3, <2>4, <2>5, <2>a
  <2> QED
    BY <2>5, <2>6
<1>11. BodyStart(t) = 6
  BY <1>6, <1>9, <1>10 DEF BodyStart, C
<1>12. PICK x : x = SubSeq(t, 1, 6)
  OBVIOUS
<1>13. PICK y : y = SubSeq(t, 6 + 1, Len(t))
  OBVIOUS
<1>14. 6 \in 0 .. Len(t) /\ Len(t) - 6 = n
  BY <1>4
<1>15. Cut(t, 6, x, y, A)
  BY <1>4, <1>12, <1>13, <1>14, CutAt
<1>16. y \in Seq(A) /\ Len(y) = n /\ \A i \in 1 .. n : y[i] = rest[i]
  BY <1>4, <1>14, <1>15 DEF Cut
<1>17. y = rest
  <2>1. Len(y) = Len(rest) /\ \A i \in 1 .. Len(y) : y[i] = rest[i]
    BY <1>1, <1>16
  <2> QED
    BY ONLY <1>16, <2>1, rest \in Seq(A), SeqEqual
<1>18. InkAfter(t, 6, W) = Ink(SubSeq(t, 6 + 1, Len(t)), W)
  BY <1>4, <1>14, InkAfterIs
<1> QED
  BY <1>4, <1>11, <1>13, <1>17, <1>18

-----------------------------------------------------------------------------
(* The text of a file. *)

(* The text of a file is a sequence of letters of an alphabet that has      *)
(* those of the file.                                                       *)
LEMMA TextIn ==
    ASSUME NEW A, Letters \subseteq A,
           NEW f, NEW kind \in {"include", "readme"}, NEW how \in TextStatuses,
           Readable(f, kind, how),
           f.world.parts \in Seq(Seq(A)),
           f.world.scan \in Seq(Seq([text : A, conf : Int])),
           f.world.sheets \in Seq(Seq(Seq(A))),
           f.name.extension = "xls" => f.world.sheets # <<>>
    PROVE  TextOf(f, kind, how) \in Seq(A)
<1> DEFINE w == f.world
           ext == f.name.extension
           T == Seq(A)
<1>0. "newline" \in A /\ "blank" \in A /\ "sheet" \in A
  BY DEF Letters
<1>2. NewLine \in T /\ EmptyLine \in T
  BY <1>0 DEF NewLine, EmptyLine
<1>3. PICK parts \in Seq(Seq(A)) : parts = w.parts
  OBVIOUS
<1>4. PICK scan \in Seq(Seq([text : A, conf : Int])) : scan = w.scan
  OBVIOUS
<1>5. PICK sheets \in Seq(Seq(Seq(A))) : sheets = w.sheets
  OBVIOUS
<1>6. Joined(parts, NewLine) \in T /\ Joined(parts, EmptyLine) \in T
  BY <1>2, SeparatedIs
<1>7. ScanText(scan) \in T
  BY <1>0, ScanTextIs
<1>8. convert_to_md(parts) \in T
  <2>1. PICK W : W = White \cup Notation
    OBVIOUS
  <2>2. Says(Told(parts), Ink(title(parts) \o Kept(parts), W), A, W)
    BY <2>1, NotesSay DEF Wordless
  <2>3. PICK rest \in Seq(A) : rest = Told(parts)
    BY <2>2 DEF Says
  <2>4. PICK t : t = Preface \o rest
    OBVIOUS
  <2>5. t \in Seq(A)
    BY <2>4, PrefaceInk
  <2> QED
    BY <2>3, <2>4, <2>5, ConvertedIs
<1>9. Joined(WorkbookLines(sheets), NewLine) \in T
  <2>1. WorkbookLines(sheets) \in Seq(Seq(A))
    BY <1>0, WorkbookLinesIs
  <2> QED
    BY <1>2, <2>1, SeparatedIs
<1>10. ASSUME ext = "xls" PROVE Joined(sheets[1], NewLine) \in T
  <2>1. sheets # <<>>
    BY <1>5, <1>10
  <2>2. sheets[1] \in Seq(Seq(A))
    BY <2>1, EmptySeq, LenProperties
  <2> QED
    BY <1>2, <2>2, SeparatedIs
<1> HIDE DEF T
<1>11. TextOf(f, kind, how) \in T
  BY <1>3, <1>4, <1>5, <1>6, <1>7, <1>8, <1>9, <1>10 DEF TextOf, Readable
<1> QED
  BY <1>11 DEF T

(* The letters of files, and those that extraction adds. *)
Alphabet == STRING \cup Letters

(* A sequence over an alphabet is one over a wider alphabet. *)
LEMMA SeqWider ==
    ASSUME NEW A, NEW B, A \subseteq B, NEW q \in Seq(A)
    PROVE  q \in Seq(B)
<1>1. PICK n \in Nat : n = Len(q)
  OBVIOUS
<1>2. q \in [1 .. n -> A]
  BY <1>1
<1>3. q \in [1 .. n -> B]
  BY <1>2
<1> QED
  BY <1>3

(* A file's letters are letters of the alphabet. *)
LEMMA FileIs ==
    ASSUME NEW f \in File
    PROVE  /\ f.world.parts \in Seq(Seq(Alphabet))
           /\ f.world.scan \in Seq(Seq([text : Alphabet, conf : Int]))
           /\ f.world.sheets \in Seq(Seq(Seq(Alphabet)))
           /\ f.name.extension = "xls" => f.world.sheets # <<>>
<1> DEFINE A == STRING
           B == Alphabet
           R == [text : A, conf : Int]
           Q == [text : B, conf : Int]
<1>1. /\ f.world.parts \in Seq(Seq(A))
      /\ f.world.scan \in Seq(Seq(R))
      /\ f.world.sheets \in Seq(Seq(Seq(A)))
      /\ f.name.extension = "xls" => f.world.sheets # <<>>
  BY FileAssumption
<1>2. A \subseteq B
  BY DEF Alphabet
<1> HIDE DEF A, B
<1>3. R \subseteq Q
  BY <1>2
<1> HIDE DEF R, Q
<1>4. Seq(A) \subseteq Seq(B)
  BY <1>2, SeqWider
<1>5. Seq(Seq(A)) \subseteq Seq(Seq(B))
  BY <1>4, SeqWider
<1>6. Seq(R) \subseteq Seq(Q)
  BY <1>3, SeqWider
<1>7. f.world.parts \in Seq(Seq(B))
  BY <1>1, <1>5
<1>8. f.world.scan \in Seq(Seq(Q))
  BY <1>1, <1>6, SeqWider
<1>9. f.world.sheets \in Seq(Seq(Seq(B)))
  BY <1>1, <1>5, SeqWider
<1> QED
  BY <1>1, <1>7, <1>8, <1>9 DEF B, Q

(* A file's text is a sequence of letters. *)
LEMMA TextIs ==
    ASSUME NEW f \in File, NEW kind \in {"include", "readme"}, NEW how \in TextStatuses,
           Readable(f, kind, how)
    PROVE  TextOf(f, kind, how) \in Seq(Alphabet)
<1>2. Letters \subseteq Alphabet
  BY DEF Alphabet
<1>3. PICK A : A = Alphabet
  OBVIOUS
<1>4. /\ Letters \subseteq A
      /\ f.world.parts \in Seq(Seq(A))
      /\ f.world.scan \in Seq(Seq([text : A, conf : Int]))
      /\ f.world.sheets \in Seq(Seq(Seq(A)))
      /\ f.name.extension = "xls" => f.world.sheets # <<>>
  BY <1>2, <1>3, FileIs
<1>5. TextOf(f, kind, how) \in Seq(A)
  BY ONLY <1>4, TextIn, Readable(f, kind, how), kind \in {"include", "readme"},
          how \in TextStatuses
<1> QED
  BY <1>3, <1>5

(* The first sheet of an .xls has no title. *)
LEMMA PlainLines ==
    ASSUME NEW A, "newline" \in A, NEW rows \in Seq(Seq(A)),
           \A j \in DOMAIN rows : \A k \in DOMAIN rows[j] : rows[j][k] # "sheet"
    PROVE  \A p \in 1 .. Len(Joined(rows, NewLine)) : Joined(rows, NewLine)[p] # "sheet"
<1> DEFINE w == Separated(rows, NewLine)
           t == Joined(rows, NewLine)
<1>1. NewLine \in Seq(A) /\ Len(NewLine) = 1 /\ NewLine[1] = "newline"
  BY SingleIs DEF NewLine
<1>0. \A j \in 1 .. Len(rows) : rows[j] \in Seq(A) /\ \A k \in 1 .. Len(rows[j]) : rows[j][k] # "sheet"
  OBVIOUS
<1> HIDE DEF w, t
<1>2. /\ t = FlattenSeq(w) /\ w \in Seq(Seq(A)) /\ Len(w) = Len(rows)
      /\ \A i \in 1 .. Len(rows) : w[i] = IF i = 1 THEN rows[i] ELSE NewLine \o rows[i]
  BY <1>1, SeparatedIs DEF w, t
<1>3. ASSUME NEW p \in 1 .. Len(t) PROVE t[p] # "sheet"
  <2>1. PICK k \in 1 .. Len(w) : \E j \in 1 .. Len(w[k]) : t[p] = w[k][j]
    <3>1. PICK i : i = p
      OBVIOUS
    <3>2. i \in 1 .. Len(FlattenSeq(w)) /\ w \in Seq(Seq(A))
      BY <1>2, <3>1
    <3>3. \E k \in 1 .. Len(w) : \E j \in 1 .. Len(w[k]) :
             /\ FlattenSeq(w)[i] = w[k][j]
             /\ j > 1 => i > 1 /\ FlattenSeq(w)[i - 1] = w[k][j - 1]
             /\ k = 1 /\ j = 1 => i = 1
      BY ONLY <3>2, FlattenPlace
    <3> QED
      BY <1>2, <3>1, <3>3
  <2>2. PICK j \in 1 .. Len(w[k]) : t[p] = w[k][j]
    BY <2>1
  <2>3. k \in 1 .. Len(rows)
    BY <1>2
  <2>4. rows[k] \in Seq(A) /\ \A l \in 1 .. Len(rows[k]) : rows[k][l] # "sheet"
    BY <1>0, <2>3
  <2>5. CASE k = 1
    BY <1>2, <2>2, <2>3, <2>4, <2>5
  <2>6. CASE k # 1
    <3>1. w[k] = NewLine \o rows[k]
      BY <1>2, <2>3, <2>6
    <3>2. PICK y : y = w[k]
      OBVIOUS
    <3>3. PICK x \in Seq(A) : x = rows[k]
      BY <2>4
    <3>4. PICK z \in Seq(A) : z = NewLine
      BY <1>1
    <3>5. y = z \o x /\ x \in Seq(A) /\ z \in Seq(A)
      BY <3>1, <3>2, <3>3, <3>4
    <3>a. /\ Len(y) = Len(z) + Len(x)
          /\ \A i \in 1 .. Len(z) : y[i] = z[i]
          /\ \A i \in 1 .. Len(x) : y[Len(z) + i] = x[i]
      BY ONLY <3>5, ConcatIs
    <3>6. Len(z) = 1 /\ z[1] = "newline"
      BY <1>1, <3>4
    <3>7. j \in 1 .. Len(y) /\ t[p] = y[j]
      BY <2>2, <3>2
    <3>b. j \in 1 .. Len(z) \/ \E l \in 1 .. Len(x) : j = Len(z) + l
      <4>1. Len(x) \in Nat
        BY <3>5
      <4>2. j # 1 => j - 1 \in 1 .. Len(x) /\ j = 1 + (j - 1)
        BY <3>6, <3>7, <3>a, <4>1
      <4> QED
        BY <3>6, <4>2
    <3>8. CASE j \in 1 .. Len(z)
      <4>1. j = 1 /\ y[j] = "newline"
        BY <3>6, <3>8, <3>a
      <4> QED
        BY <3>7, <4>1
    <3>9. CASE \E l \in 1 .. Len(x) : j = Len(z) + l
      <4>1. PICK l \in 1 .. Len(x) : j = Len(z) + l
        BY <3>9
      <4>2. y[j] = x[l] /\ x[l] # "sheet"
        BY <2>4, <3>3, <3>a, <4>1
      <4> QED
        BY <3>7, <4>2
    <3> QED
      BY <3>b, <3>7, <3>8, <3>9
  <2> QED
    BY <2>5, <2>6
<1> QED
  BY <1>3 DEF t

-----------------------------------------------------------------------------
(* From a file to its chunks. *)

(* What the chunks u of a text t of a file f are. *)
SplitInto(f, kind, t, u) ==
    LET marked == kind = "readme" \/ f.name.extension = "md"
    IN  IF ~marked /\ f.name.extension = "xlsx"
        THEN WorkbookSplit(t, u) /\ t # <<>> /\ t[1] = "sheet"
        ELSE \E r : /\ u = Bare(r)
                    /\ Splits(t, r, Span(IF marked THEN BodyStart(t) ELSE 0, Len(t)))

(* A workbook without sheets has no text. *)
LEMMA NoSheets ==
    ASSUME NEW A, {"sheet", "newline"} \subseteq A, NEW sheets \in Seq(Seq(Seq(A))), sheets = <<>>
    PROVE  Len(Joined(WorkbookLines(sheets), NewLine)) = 0
<1> DEFINE b == [i \in DOMAIN sheets |-> SheetBlocks(sheets[i])]
           P == FlattenSeq(b)
           T == Seq(A)
           w == Separated(P, NewLine)
<1>1. DOMAIN sheets = 1 .. 0
  OBVIOUS
<1>2. b \in Seq(Seq(T)) /\ Len(b) = 0
  <2>1. b = [i \in 1 .. 0 |-> SheetBlocks(sheets[i])]
    BY <1>1
  <2>2. b \in [1 .. 0 -> Seq(T)]
    BY <2>1
  <2> QED
    BY <2>2
<1> HIDE DEF b, T
<1>3. P \in Seq(T) /\ Len(P) = 0
  BY ONLY <1>2, FlattenNone
<1> HIDE DEF P
<1>4. NewLine \in T
  BY SingleIs DEF NewLine, T
<1>5. /\ Joined(P, NewLine) = FlattenSeq(w) /\ w \in Seq(T) /\ Len(w) = Len(P)
  BY <1>3, <1>4, SeparatedIs DEF T
<1> HIDE DEF w
<1>6. Len(FlattenSeq(w)) = 0
  <2>1. w \in Seq(Seq(A)) /\ Len(w) = 0
    BY <1>3, <1>5 DEF T
  <2> QED
    BY ONLY <2>1, FlattenNone
<1> QED
  BY <1>5, <1>6 DEF P, b, WorkbookLines

(* Whatever splitter a file gets, its chunks are what that splitter         *)
(* promises.                                                                *)
LEMMA SplitTextIs ==
    ASSUME NEW f \in File, NEW kind \in {"include", "readme"}, NEW how \in TextStatuses,
           Readable(f, kind, how), f.name.extension = "xls" => Untitled(f.world.sheets),
           NEW t, t = TextOf(f, kind, how), HasInk(t, Span(0, Len(t)))
    PROVE  SplitInto(f, kind, t, split_text(t, kind, f.name.extension))
<1> DEFINE ext == f.name.extension
           marked == kind = "readme" \/ ext = "md"
           A == Alphabet
<1>1. t \in Seq(A)
  BY TextIs
<1>2. Letters \subseteq A /\ "sheet" \in A /\ "newline" \in A
  BY DEF Alphabet, Letters
<1> HIDE DEF A
<1>3. Len(t) \in Nat /\ Span(0, Len(t)) \in Spans /\ Span(0, Len(t)).start = 0
      /\ Span(0, Len(t)).end = Len(t)
  BY <1>1, SpanIs
<1>4. CASE marked
  <2>1. split_text(t, kind, ext) = Bare(MarkdownSpans(t))
    BY <1>4 DEF split_text
  <2>2. Splits(t, MarkdownSpans(t), Span(BodyStart(t), Len(t)))
    BY <1>1, MarkdownSplits
  <2> QED
    BY <1>4, <2>1, <2>2 DEF SplitInto
<1>5. CASE ~marked /\ ext = "xlsx"
  <2>1. PICK sheets \in Seq(Seq(Seq(A))) : sheets = f.world.sheets
    BY FileIs DEF A
  <2>2. t = Joined(WorkbookLines(sheets), NewLine)
    BY <1>5, <2>1 DEF TextOf, Readable
  <2>3. split_text(t, kind, ext) = SpreadsheetChunks(t)
    BY <1>5 DEF split_text
  <2>4. sheets # <<>>
    <3>1. SUFFICES ASSUME sheets = <<>> PROVE FALSE
      OBVIOUS
    <3>2. Len(t) = 0
      BY <1>2, <2>2, <3>1, NoSheets
    <3> QED
      BY <1>3, <3>2 DEF HasInk, Positions
  <2>6. t # <<>> /\ t[1] = "sheet"
    <3>1. {"sheet", "newline"} \subseteq A
      BY <1>2
    <3>2. LET v == Joined(FlattenSeq([i \in DOMAIN sheets |-> SheetBlocks(sheets[i])]), NewLine)
          IN  v # <<>> /\ v[1] = "sheet"
      BY ONLY <2>4, <3>1, sheets \in Seq(Seq(Seq(A))), WorkbookText
    <3> QED
      BY <2>2, <3>2 DEF WorkbookLines
  <2>7. WorkbookSplit(t, SpreadsheetChunks(t))
    BY <1>1, <2>6, WorkbookSplits
  <2> QED
    BY <1>5, <2>3, <2>6, <2>7 DEF SplitInto
<1>6. CASE ~marked /\ ext = "xls"
  <2>1. PICK sheets \in Seq(Seq(Seq(A))) : sheets = f.world.sheets
    BY FileIs DEF A
  <2>2. sheets # <<>> /\ 1 \in DOMAIN sheets
    <3>1. sheets # <<>>
      BY <1>6, <2>1, FileIs
    <3> QED
      BY <3>1, EmptySeq, LenProperties
  <2>3. PICK rows \in Seq(Seq(A)) : rows = sheets[1]
    BY <2>2
  <2>4. t = Joined(rows, NewLine)
    BY <1>6, <2>1, <2>3 DEF TextOf, Readable
  <2>5. \A j \in DOMAIN rows : \A k \in DOMAIN rows[j] : rows[j][k] # "sheet"
    BY <1>6, <2>1, <2>2, <2>3 DEF Untitled
  <2>6. \A p \in 1 .. Len(t) : t[p] # "sheet"
    BY <1>2, <2>4, <2>5, PlainLines
  <2>7. split_text(t, kind, ext) = SpreadsheetChunks(t)
    BY <1>6 DEF split_text
  <2>8. SpreadsheetChunks(t) = Bare(PlainTextSpans(t, Span(0, Len(t)), 0))
    BY <1>1, <2>6, UntitledSplits
  <2>9. Splits(t, PlainTextSpans(t, Span(0, Len(t)), 0), Span(0, Len(t)))
    <3>1. 0 \in 0 .. Overlap
      BY SizeAssumption
    <3> QED
      BY <1>3, <3>1, PlainTextSplits
  <2> QED
    BY <1>6, <2>7, <2>8, <2>9 DEF SplitInto
<1>7. CASE ~marked /\ ext \notin {"xls", "xlsx"}
  <2>1. split_text(t, kind, ext) = Bare(PlainTextSpans(t, Span(0, Len(t)), Overlap))
    BY <1>7 DEF split_text
  <2>2. Splits(t, PlainTextSpans(t, Span(0, Len(t)), Overlap), Span(0, Len(t)))
    <3>1. Overlap \in 0 .. Overlap
      BY SizeAssumption
    <3> QED
      BY <1>3, <3>1, PlainTextSplits
  <2> QED
    BY <1>7, <2>1, <2>2 DEF SplitInto
<1> QED
  BY <1>4, <1>5, <1>6, <1>7

-----------------------------------------------------------------------------

(* Where a text and its chunks come from. *)
TextInv ==
    LET result == Worker(category, file.name.extension, file.world)
    IN  /\ file \in File
        /\ stage \in {"walked", "hashed", "extracted", "done"}
        /\ stage = "walked" => status = "none"
        /\ stage = "hashed" => category \in {"include", "readme"} /\ status = "none"
        /\ status \in TextStatuses =>
              /\ category \in {"include", "readme"}
              /\ status = result.status /\ text = result.text
        /\ Done => chunks = IF HasInk(text, Span(0, Len(text)))
                            THEN split_text(text, category, file.name.extension) ELSE <<>>

(* TextInv holds in the beginning. *)
LEMMA TextInit == Init => TextInv
BY DEF Init, TextInv, TextStatuses, Done

(* Every step keeps TextInv. *)
LEMMA TextStep == TextInv /\ [Next]_vars => TextInv'
<1> SUFFICES ASSUME TextInv, [Next]_vars PROVE TextInv'
  OBVIOUS
<1>0. "none" \notin TextStatuses /\ "skipped" \notin TextStatuses
  BY DEF TextStatuses
<1>1. CASE Classify
  BY <1>0, <1>1 DEF Classify, TextInv, Done
<1>2. CASE Extract
  BY <1>0, <1>2 DEF Extract, TextInv, Done
<1>3. CASE Split
  BY <1>3 DEF Split, TextInv, Done
<1>4. CASE UNCHANGED vars
  BY <1>4 DEF vars, TextInv, Done
<1> QED
  BY <1>1, <1>2, <1>3, <1>4 DEF Next

(* The worker lets through the text of the file. *)
LEMMA WorkerText ==
    ASSUME NEW f \in File, NEW kind \in {"include", "readme"},
           Worker(kind, f.name.extension, f.world).status \in TextStatuses
    PROVE  LET r == Worker(kind, f.name.extension, f.world)
           IN  Readable(f, kind, r.status) /\ r.text = TextOf(f, kind, r.status)
<1> DEFINE e == extract(kind, f.name.extension, f.world)
           r == Worker(kind, f.name.extension, f.world)
<1>1. "failed" \notin TextStatuses
  BY DEF TextStatuses
<1>2. r.status = IF e = Raises THEN "failed" ELSE e.status
  BY DEF Worker
<1>3. r.status = e.status /\ e.status \in TextStatuses
  BY <1>1, <1>2
<1>4. r.text = e.text
  BY <1>3 DEF Worker
<1>5. Readable(f, kind, e.status) /\ e.text = TextOf(f, kind, e.status)
  BY <1>3, ExtractedText
<1> QED
  BY <1>3, <1>4, <1>5

(* A file that is done has its own text, and that text's chunks. *)
LEMMA DoneIs ==
    ASSUME TextInv, Done, file.name.extension = "xls" => Untitled(file.world.sheets)
    PROVE  /\ file \in File /\ category \in {"include", "readme"} /\ status \in TextStatuses
           /\ Readable(file, category, status) /\ text = TextOf(file, category, status)
           /\ text \in Seq(Alphabet)
           /\ \/ HasInk(text, Span(0, Len(text))) /\ SplitInto(file, category, text, chunks)
              \/ ~HasInk(text, Span(0, Len(text))) /\ chunks = <<>>
<1>1. /\ file \in File /\ category \in {"include", "readme"} /\ status \in TextStatuses
      /\ status = Worker(category, file.name.extension, file.world).status
      /\ text = Worker(category, file.name.extension, file.world).text
      /\ chunks = IF HasInk(text, Span(0, Len(text)))
                  THEN split_text(text, category, file.name.extension) ELSE <<>>
  BY DEF TextInv, Done
<1>2. Readable(file, category, status) /\ text = TextOf(file, category, status)
  BY <1>1, WorkerText
<1>3. text \in Seq(Alphabet)
  BY <1>1, <1>2, TextIs
<1>4. HasInk(text, Span(0, Len(text))) => SplitInto(file, category, text, chunks)
  BY <1>1, <1>2, SplitTextIs
<1> QED
  BY <1>1, <1>2, <1>3, <1>4

-----------------------------------------------------------------------------
(* Chunks of texts and of sheets. *)

(* The rows of a workbook's chunks follow each other. *)
LEMMA RowsInOrder ==
    ASSUME NEW t, NEW u, WorkbookSplit(t, u)
    PROVE  /\ Len(u) \in Nat /\ DOMAIN u = 1 .. Len(u)
           /\ \A i \in 1 .. Len(u) :
                 /\ u[i].head \in Spans /\ u[i].rows \in Spans
                 /\ u[i].rows.start \in Nat /\ u[i].rows.end \in Nat
                 /\ u[i].rows.start <= u[i].rows.end
           /\ \A i, j \in 1 .. Len(u) : i < j => u[i].rows.end <= u[j].rows.start
<1> DEFINE L == Len(u)
<1>1. u \in Seq(SheetParts) /\ L \in Nat /\ DOMAIN u = 1 .. L
  BY DEF WorkbookSplit
<1>2. ASSUME NEW i \in 1 .. L
      PROVE  /\ u[i].head \in Spans /\ u[i].rows \in Spans
             /\ u[i].rows.start \in Nat /\ u[i].rows.end \in Nat
             /\ u[i].rows.start <= u[i].rows.end
  <2>1. u[i] \in SheetParts
    BY <1>1
  <2>2. u[i].rows.start <= u[i].rows.end
    BY DEF WorkbookSplit, OneOfSheet
  <2> QED
    BY <2>1, <2>2 DEF SheetParts, Spans
<1>3. \A k \in 2 .. L : u[k - 1].rows.end <= u[k].rows.start
  BY DEF WorkbookSplit
<1> HIDE DEF L
<1>4. ASSUME NEW i \in 1 .. L PROVE \A j \in i + 1 .. L : u[i].rows.end <= u[j].rows.start
  <2> DEFINE S == {j \in i + 1 .. L : u[i].rows.end <= u[j].rows.start}
  <2>1. PICK b \in Nat : b = i + 1
    BY <1>1
  <2>2. CASE b <= L
    <3>1. b \in S
      <4>1. b \in 2 .. L /\ b - 1 = i
        BY <1>1, <2>1, <2>2
      <4>2. u[i].rows.end <= u[b].rows.start
        BY <1>3, <4>1
      <4> QED
        BY <1>1, <2>1, <2>2, <4>2
    <3>2. ASSUME NEW n \in b + 1 .. L, n - 1 \in S PROVE n \in S
      <4>1. n \in 2 .. L /\ n - 1 \in 1 .. L /\ n \in 1 .. L /\ n \in i + 1 .. L
        BY <1>1, <2>1
      <4>2. PICK m \in 1 .. L : m = n - 1
        BY <4>1
      <4>3. u[i].rows.end <= u[m].rows.start
        BY <3>2, <4>2
      <4>4. u[m].rows.end <= u[n].rows.start
        BY <1>3, <4>1, <4>2
      <4>5. PICK a \in Nat : a = u[i].rows.end
        BY <1>2
      <4>6. PICK c \in Nat : c = u[m].rows.start
        BY <1>2
      <4>7. PICK d \in Nat : d = u[m].rows.end
        BY <1>2
      <4>8. PICK e \in Nat : e = u[n].rows.start
        BY <1>2, <4>1
      <4>9. a <= c /\ c <= d /\ d <= e
        BY <1>2, <4>3, <4>4, <4>5, <4>6, <4>7, <4>8
      <4>10. a <= e
        BY ONLY <4>9, a \in Nat, c \in Nat, d \in Nat, e \in Nat
      <4> QED
        BY <4>1, <4>5, <4>8, <4>10
    <3> HIDE DEF S
    <3>3. \A n \in b .. L : n \in S
      BY ONLY <1>1, <3>1, <3>2, b \in Nat, InductionFrom
    <3> QED
      BY <2>1, <3>3 DEF S
  <2>3. CASE ~(b <= L)
    BY <1>1, <2>1, <2>3
  <2> QED
    BY <2>2, <2>3
<1>5. ASSUME NEW i \in 1 .. L, NEW j \in 1 .. L, i < j PROVE u[i].rows.end <= u[j].rows.start
  <2>1. j \in i + 1 .. L
    BY <1>1, <1>5
  <2> QED
    BY <1>4, <2>1
<1> QED
  BY <1>1, <1>2, <1>5 DEF L

(* Spans that follow each other have no place in common. *)
LEMMA ApartPositions ==
    ASSUME NEW a \in Spans, NEW b \in Spans, a.end <= b.start
    PROVE  Positions(a) \cap Positions(b) = {}
<1>1. PICK i \in Nat : i = a.end
  BY DEF Spans
<1>2. PICK j \in Nat : j = b.start
  BY DEF Spans
<1>3. a.start \in Int /\ b.end \in Int
  BY DEF Spans
<1>4. i <= j
  BY <1>1, <1>2
<1> QED
  BY <1>1, <1>2, <1>3, <1>4 DEF Positions

(* The invariant implies ChunksBounded. *)
LEMMA ChunksAreBounded ==
    ASSUME TextInv, \A f \in File : f.name.extension = "xls" => Untitled(f.world.sheets)
    PROVE  ChunksBounded
<1> SUFFICES ASSUME Done
             PROVE  \A i \in DOMAIN chunks :
                        /\ SmallEnough(chunks[i])
                        /\ i > 1 => Follows(chunks[i].rows, chunks[i - 1].rows)
  BY DEF ChunksBounded
<1> DEFINE marked == category = "readme" \/ file.name.extension = "md"
<1>1. /\ file \in File /\ category \in {"include", "readme"}
      /\ text \in Seq(Alphabet)
      /\ \/ HasInk(text, Span(0, Len(text))) /\ SplitInto(file, category, text, chunks)
         \/ ~HasInk(text, Span(0, Len(text))) /\ chunks = <<>>
  <2>1. file \in File
    BY DEF TextInv
  <2> QED
    BY <2>1, DoneIs
<1>2. CASE chunks = <<>>
  <2>1. DOMAIN chunks = {}
    BY <1>2
  <2> QED
    BY <2>1
<1>3. CASE SplitInto(file, category, text, chunks) /\ ~marked /\ file.name.extension = "xlsx"
  <2>1. WorkbookSplit(text, chunks) /\ text[1] = "sheet"
    BY <1>3 DEF SplitInto
  <2>2. IsSheet
    BY <1>1, <1>3 DEF IsSheet, IsMarkdown, extension
  <2>3. /\ Len(chunks) \in Nat /\ DOMAIN chunks = 1 .. Len(chunks)
        /\ \A i \in 1 .. Len(chunks) :
              /\ chunks[i].head \in Spans /\ chunks[i].rows \in Spans
              /\ chunks[i].rows.start \in Nat /\ chunks[i].rows.end \in Nat
              /\ chunks[i].rows.start <= chunks[i].rows.end
    BY <2>1, RowsInOrder
  <2>4. ASSUME NEW i \in DOMAIN chunks PROVE SmallEnough(chunks[i])
    <3>1. \E a, b \in Nat : SheetOf(text, a, b) /\ OneOfSheet(text, chunks[i], Span(a, b))
      BY <2>1, <2>3 DEF WorkbookSplit
    <3>2. \/ chunks[i].head = NoHead
          \/ /\ chunks[i].head # NoHead
             /\ \/ Size(chunks[i].head) + Size(chunks[i].rows) <= Target
                \/ Newlines(text, chunks[i].rows) = {}
      BY <3>1 DEF OneOfSheet
    <3> QED
      BY <2>1, <2>2, <3>2 DEF SmallEnough
  <2>5. ASSUME NEW i \in DOMAIN chunks, i > 1
        PROVE  Follows(chunks[i].rows, chunks[i - 1].rows)
    <3>1. i \in 2 .. Len(chunks) /\ i - 1 \in 1 .. Len(chunks)
      BY <2>3, <2>5
    <3>2. PICK h \in 1 .. Len(chunks) : h = i - 1
      BY <3>1
    <3>3. PICK x \in Spans : x = chunks[h].rows
      BY <2>3
    <3>4. PICK y \in Spans : y = chunks[i].rows
      BY <2>3
    <3>5. x.end <= y.start /\ x.end < y.end
      BY <2>1, <3>1, <3>2, <3>3, <3>4 DEF WorkbookSplit
    <3>6. x.start <= y.start
      <4>1. PICK a \in Nat : a = x.start
        BY DEF Spans
      <4>2. PICK b \in Nat : b = x.end
        BY DEF Spans
      <4>3. PICK c \in Nat : c = y.start
        BY DEF Spans
      <4>4. a <= b /\ b <= c
        BY <2>3, <3>3, <3>5, <4>1, <4>2, <4>3
      <4>5. a <= c
        BY ONLY <4>4, a \in Nat, b \in Nat, c \in Nat
      <4> QED
        BY <4>1, <4>3, <4>5
    <3>7. InkIn(Positions(x) \cap Positions(y)) = {}
      <4>1. Positions(x) \cap Positions(y) = {}
        BY <3>5, ApartPositions
      <4> QED
        BY <4>1 DEF InkIn
    <3>8. Cardinality(InkIn(Positions(x) \cap Positions(y))) <= Overlap
      <4>1. Cardinality({}) = 0
        BY FS_EmptySet
      <4>2. 0 <= Overlap
        BY SizeAssumption
      <4> QED
        BY <3>7, <4>1, <4>2
    <3>9. Follows(y, x)
      BY <3>5, <3>6, <3>8 DEF Follows
    <3> QED
      BY <3>2, <3>3, <3>4, <3>9
  <2> QED
    BY <2>4, <2>5
<1>4. CASE SplitInto(file, category, text, chunks) /\ ~(~marked /\ file.name.extension = "xlsx")
  <2>1. PICK s, r : chunks = Bare(r) /\ Splits(text, r, s)
    BY <1>4 DEF SplitInto
  <2>2. r \in Seq(Spans)
    BY <2>1 DEF Splits
  <2>3. /\ Len(r) \in Nat /\ DOMAIN chunks = 1 .. Len(r)
        /\ \A k \in 1 .. Len(r) : /\ r[k] \in Spans
                                  /\ chunks[k].head = NoHead /\ chunks[k].rows = r[k]
    BY <2>1, <2>2, BareIs
  <2>4. ASSUME NEW i \in DOMAIN chunks PROVE SmallEnough(chunks[i])
    <3>1. Cardinality(InkAt(text, Positions(r[i]))) <= Target + Overlap
      BY <2>1, <2>3 DEF Splits
    <3> QED
      BY <2>3, <3>1 DEF SmallEnough, InkIn, InkAt
  <2>5. ASSUME NEW i \in DOMAIN chunks, i > 1
        PROVE  Follows(chunks[i].rows, chunks[i - 1].rows)
    <3>1. i \in 2 .. Len(r) /\ i - 1 \in 1 .. Len(r)
      BY <2>3, <2>5
    <3>2. Advances(text, r[i - 1], r[i])
      BY <2>1, <3>1 DEF Splits
    <3>3. Follows(r[i], r[i - 1])
      BY <3>2 DEF Advances, Follows, InkIn, InkAt
    <3> QED
      BY <2>3, <3>1, <3>3
  <2> QED
    BY <2>4, <2>5
<1> QED
  BY <1>1, <1>2, <1>3, <1>4

(* In the text of a workbook only the titles of its sheets look like one. *)
LEMMA TitlesBeginLines ==
    ASSUME TextInv, Done, IsSheet, extension = "xlsx", Untitled(file.world.sheets)
    PROVE  \A p \in 1 .. Len(text) : text[p] = "sheet" => p = 1 \/ text[p - 1] = "newline"
<1> DEFINE A == Alphabet
<1>1. /\ file \in File /\ Readable(file, category, status)
      /\ text = TextOf(file, category, status) /\ text \in Seq(A)
  BY DoneIs DEF extension
<1>2. file.name.extension = "xlsx" /\ ~(category = "readme" \/ file.name.extension = "md")
  BY DEF IsSheet, IsMarkdown, extension
<1>3. PICK sheets \in Seq(Seq(Seq(A))) : sheets = file.world.sheets
  BY <1>1, FileIs
<1>4. {"sheet", "newline"} \subseteq A
  BY DEF Alphabet, Letters
<1> HIDE DEF A
<1>5. text = Joined(WorkbookLines(sheets), NewLine)
  BY <1>1, <1>2, <1>3 DEF TextOf, Readable
<1>6. CASE sheets = <<>>
  <2>1. Len(text) = 0
    BY <1>4, <1>5, <1>6, NoSheets
  <2> QED
    BY <2>1
<1>7. CASE sheets # <<>>
  <2>1. LET v == Joined(FlattenSeq([i \in DOMAIN sheets |-> SheetBlocks(sheets[i])]), NewLine)
        IN  Untitled(sheets) =>
              \A p \in 1 .. Len(v) : v[p] = "sheet" => p = 1 \/ v[p - 1] = "newline"
    BY ONLY <1>4, <1>7, sheets \in Seq(Seq(Seq(A))), WorkbookText
  <2> QED
    BY <1>3, <1>5, <2>1 DEF WorkbookLines
<1> QED
  BY <1>6, <1>7

(* The invariant implies LinesApart. *)
LEMMA LinesAreApart ==
    ASSUME TextInv, \A f \in File : f.name.extension = "xlsx" => Untitled(f.world.sheets)
    PROVE  LinesApart
<1> DEFINE own(c) == IF c.head = NoHead THEN c.rows.start ELSE c.head.start
<1> SUFFICES ASSUME Done, IsSheet, extension = "xlsx", NEW i \in DOMAIN chunks
             PROVE  /\ text[own(chunks[i]) + 1] = "sheet"
                    /\ \A p \in own(chunks[i]) + 2 .. chunks[i].rows.end : text[p] # "sheet"
                    /\ \/ /\ chunks[i].head = NoHead
                          /\ \/ chunks[i].rows.end = Len(text)
                             \/ text[chunks[i].rows.end + 1] = "sheet"
                       \/ /\ TwoLines(chunks[i].head)
                          /\ chunks[i].head.end <= chunks[i].rows.start
                          /\ text[chunks[i].rows.start] = "newline"
                          /\ \/ chunks[i].rows.end = Len(text)
                             \/ text[chunks[i].rows.end + 1] \in {"newline", "sheet"}
                    /\ \A j \in DOMAIN chunks \ {i} :
                            Positions(chunks[i].rows) \cap Positions(chunks[j].rows) = {}
  BY DEF LinesApart
<1>1. WorkbookSplit(text, chunks)
  <2>1. \/ HasInk(text, Span(0, Len(text))) /\ SplitInto(file, category, text, chunks)
        \/ ~HasInk(text, Span(0, Len(text))) /\ chunks = <<>>
    BY DoneIs DEF extension
  <2>2. chunks # <<>>
    OBVIOUS
  <2>3. file.name.extension = "xlsx" /\ ~(category = "readme" \/ file.name.extension = "md")
    BY DEF IsSheet, IsMarkdown, extension
  <2> QED
    BY <2>1, <2>2, <2>3 DEF SplitInto
<1>2. /\ Len(chunks) \in Nat /\ DOMAIN chunks = 1 .. Len(chunks)
      /\ \A k \in 1 .. Len(chunks) : chunks[k].head \in Spans /\ chunks[k].rows \in Spans
      /\ \A j, k \in 1 .. Len(chunks) : j < k => chunks[j].rows.end <= chunks[k].rows.start
  BY <1>1, RowsInOrder
<1>3. PICK a, b \in Nat : SheetOf(text, a, b) /\ OneOfSheet(text, chunks[i], Span(a, b))
  BY <1>1, <1>2 DEF WorkbookSplit
<1>4. PICK e \in Nat : e = chunks[i].rows.end
  BY <1>2 DEF Spans
<1>5. /\ a < b /\ b <= Len(text) /\ text[a + 1] = "sheet"
      /\ \A p \in a + 2 .. b : text[p] # "sheet"
      /\ b = Len(text) \/ text[b + 1] = "sheet"
  <2>1. file \in File /\ text \in Seq(Alphabet)
    BY DoneIs DEF extension
  <2>2. \A p \in 1 .. Len(text) : text[p] = "sheet" => p = 1 \/ text[p - 1] = "newline"
    <3>1. Untitled(file.world.sheets)
      BY <2>1 DEF extension
    <3> QED
      BY <3>1, TitlesBeginLines
  <2>3. Len(text) \in Nat
    BY <2>1
  <2>4. \A p \in a + 2 .. b : text[p] = "sheet" => text[p - 1] # "newline"
    BY <1>3 DEF SheetOf
  <2>5. a < b /\ b <= Len(text) /\ text[a + 1] = "sheet" /\ (b = Len(text) \/ text[b + 1] = "sheet")
    BY <1>3 DEF SheetOf
  <2>6. ASSUME NEW p \in a + 2 .. b PROVE p \in 1 .. Len(text) /\ p # 1
    BY <2>3, <2>5
  <2> QED
    BY <2>2, <2>4, <2>5, <2>6
<1>6. /\ e <= b
      /\ \/ chunks[i].head = NoHead /\ chunks[i].rows = Span(a, b)
         \/ /\ chunks[i].head # NoHead /\ chunks[i].head.start = a
            /\ TwoLines(chunks[i].head)
            /\ chunks[i].head.end <= chunks[i].rows.start
            /\ text[chunks[i].rows.start] = "newline"
      /\ e = b \/ text[e + 1] = "newline"
  BY <1>3, <1>4, SpanIs DEF OneOfSheet, TwoLines
<1>7. own(chunks[i]) = a
  BY <1>6, SpanIs
<1>8. \A p \in a + 2 .. e : text[p] # "sheet"
  BY <1>5, <1>6
<1>9. /\ e = Len(text) \/ text[e + 1] \in {"newline", "sheet"}
      /\ chunks[i].head = NoHead => e = Len(text) \/ text[e + 1] = "sheet"
  <2>1. chunks[i].head = NoHead => e = b
    BY <1>4, <1>6, SpanIs
  <2> QED
    BY <1>5, <1>6, <2>1
<1>10. ASSUME NEW j \in DOMAIN chunks \ {i}
       PROVE  Positions(chunks[i].rows) \cap Positions(chunks[j].rows) = {}
  <2>1. i \in 1 .. Len(chunks) /\ j \in 1 .. Len(chunks) /\ i # j
    BY <1>2
  <2>2. CASE i < j
    BY <1>2, <2>1, <2>2, ApartPositions
  <2>3. CASE j < i
    <3>1. Positions(chunks[j].rows) \cap Positions(chunks[i].rows) = {}
      BY <1>2, <2>1, <2>3, ApartPositions
    <3> QED
      BY <3>1
  <2> QED
    BY <2>1, <2>2, <2>3
<1> HIDE DEF own
<1> QED
  BY <1>4, <1>5, <1>6, <1>7, <1>8, <1>9, <1>10

(* Whatever a file holds, its chunks stay small enough to be embedded and   *)
(* go forward: a chunk of text has no more ink than the target and the      *)
(* overlap, one of a sheet is within the target with its head or has one    *)
(* row, and neighbours share no more than the overlap.  Of an .xls, which   *)
(* is written without titles, it is assumed that no cell looks like one     *)
(* (_pack_spans and chunk_spreadsheet of splitters.py).                     *)
THEOREM ChunksStaySmall ==
    ASSUME \A f \in File : f.name.extension = "xls" => Untitled(f.world.sheets)
    PROVE  Spec => []ChunksBounded
<1>1. TextInv => ChunksBounded
  BY ChunksAreBounded
<1> QED
  BY TextInit, TextStep, <1>1, PTL DEF Spec

(* A chunk of a workbook speaks of one sheet: under the line of its title   *)
(* and the line below it, it has lines of that sheet which are whole and in *)
(* no other chunk.  It is assumed that no cell looks like the title of a    *)
(* sheet (chunk_spreadsheet of splitters.py).                               *)
THEOREM LinesStayApart ==
    ASSUME \A f \in File : f.name.extension = "xlsx" => Untitled(f.world.sheets)
    PROVE  Spec => []LinesApart
<1>1. TextInv => LinesApart
  BY LinesAreApart
<1> QED
  BY TextInit, TextStep, <1>1, PTL DEF Spec

-----------------------------------------------------------------------------
(* What extraction keeps of the ink. *)
(* The words of a page, joined by blanks, are its ink. *)
LEMMA PageInk ==
    ASSUME NEW A, "blank" \in A, NEW page \in Seq([text : A, conf : Int]),
           NEW x, x = [j \in DOMAIN page |-> page[j].text]
    PROVE  x \in Seq(A) /\ Ink(PageText(page), White) = Ink(x, White)
<1> DEFINE R == [text : A, conf : Int]
           S == {i \in DOMAIN page : page[i].text \notin White}
           v == Words(page)
           n == Cardinality(S)
           a == Ascending(S)
           s == [i \in 1 .. n |-> v[i].text]
           u == [i \in DOMAIN v |-> <<v[i].text>>]
<1>1. S \in SUBSET (1 .. Len(page)) /\ page \in Seq(R)
  OBVIOUS
<1>2. v = Only(page, S)
  BY DEF Words
<1>3. PICK N \in Nat : N = Len(page)
  OBVIOUS
<1>4. /\ x \in Seq(A) /\ Len(x) = N /\ \A j \in 1 .. N : x[j] = page[j].text
  <2>1. x = [j \in 1 .. N |-> page[j].text]
    BY <1>3
  <2>2. \A j \in 1 .. N : page[j].text \in A
    <3> TAKE j \in 1 .. N
    <3>1. page[j] \in R
      <4> HIDE DEF R
      <4> QED
        BY ONLY <1>1, <1>3, j \in 1 .. N, ElementOfSeq
    <3> QED
      BY <3>1
  <2>3. x \in [1 .. N -> A]
    BY <2>1, <2>2
  <2> QED
    BY <2>1, <2>3
<1>5. S = Inked(x, White) /\ S \in SUBSET (1 .. N)
  BY <1>3, <1>4 DEF Inked
<1>b. \A i \in S : page[i].text \notin White
  OBVIOUS
<1> HIDE DEF v, S, n, a
<1>6. /\ v \in Seq(R) /\ Len(v) = n /\ n \in Nat
      /\ \A i \in 1 .. n : a[i] \in S /\ v[i] = page[a[i]]
  <2> HIDE DEF R
  <2>1. /\ Only(page, S) \in Seq(R) /\ Len(Only(page, S)) = Cardinality(S)
        /\ Cardinality(S) \in Nat
        /\ \A i \in 1 .. Cardinality(S) :
              /\ Ascending(S)[i] \in S
              /\ Only(page, S)[i] = page[Ascending(S)[i]] /\ Only(page, S)[i] \in R
    BY ONLY <1>1, OnlyIs
  <2> QED
    BY <1>2, <2>1 DEF n, a
<1>7. DOMAIN v = 1 .. n /\ \A i \in 1 .. n : v[i] \in R
  <2> HIDE DEF R
  <2> QED
    BY ONLY <1>6
<1>8. \A i \in 1 .. n : s[i] = v[i].text /\ s[i] \in A /\ s[i] = x[a[i]] /\ s[i] \notin White
  <2> TAKE i \in 1 .. n
  <2>1. v[i].text \in A
    BY <1>7
  <2>2. a[i] \in S /\ v[i] = page[a[i]] /\ a[i] \in 1 .. N
    BY <1>5, <1>6
  <2>3. x[a[i]] = page[a[i]].text /\ page[a[i]].text \notin White
    BY <1>4, <1>b, <2>2
  <2> QED
    BY <2>1, <2>2, <2>3
<1>9. s \in Seq(A) /\ Len(s) = n
  <2>1. s \in [1 .. n -> A]
    BY <1>8
  <2> QED
    BY <1>6, <2>1
<1>10. u = [i \in 1 .. n |-> <<v[i].text>>]
  BY <1>7
<1> HIDE DEF s, u
<1>11. Ink(x, White) = s
  <2>1. /\ Only(x, S) \in Seq(A) /\ Len(Only(x, S)) = n
        /\ \A i \in 1 .. n : Only(x, S)[i] = x[a[i]]
    <3>1. S \in SUBSET (1 .. Len(x)) /\ x \in Seq(A)
      BY <1>4, <1>5
    <3>2. /\ Only(x, S) \in Seq(A) /\ Len(Only(x, S)) = Cardinality(S) /\ Cardinality(S) \in Nat
          /\ \A i \in 1 .. Cardinality(S) :
              /\ Ascending(S)[i] \in S
              /\ Only(x, S)[i] = x[Ascending(S)[i]] /\ Only(x, S)[i] \in A
      BY ONLY <3>1, OnlyIs
    <3> QED
      BY <3>2 DEF n, a
  <2>2. PICK y \in Seq(A) : y = Only(x, S)
    BY <2>1
  <2>3. Len(y) = Len(s) /\ \A i \in 1 .. Len(y) : y[i] = s[i]
    BY <1>8, <1>9, <2>1, <2>2
  <2>4. y = s
    BY ONLY <1>9, <2>3, y \in Seq(A), SeqEqual
  <2> QED
    BY <1>5, <2>2, <2>4 DEF Ink
<1>12. u = Masked(s, 1 .. n)
  <2>1. DOMAIN s = 1 .. n
    BY <1>9
  <2>2. \A i \in 1 .. n : <<v[i].text>> = IF i \in 1 .. n THEN <<s[i]>> ELSE <<>>
    BY <1>8
  <2> QED
    BY <1>10, <2>1, <2>2 DEF Masked
<1>13. u \in Seq(Seq(A))
  BY <1>9, <1>12, MaskedIs
<1>14. FlattenSeq(u) = s
  <2>1. PICK P : P = 1 .. n
    OBVIOUS
  <2>2. P = 1 .. Len(s) /\ P \in SUBSET (1 .. Len(s)) /\ s \in Seq(A)
    BY <1>9, <2>1
  <2>3. Only(s, P) = FlattenSeq(Masked(s, P))
    BY ONLY <2>2, OnlyFlattens
  <2>4. Only(s, P) = s
    BY ONLY <2>2, OnlyAll
  <2> QED
    BY <1>12, <2>1, <2>3, <2>4
<1>15. Ink(s, White) = s
  BY <1>8, <1>9, InkOfInk
<1>16. Ink(Joined(u, <<"blank">>), White) = Ink(FlattenSeq(u), White)
  <2>1. PICK sep : sep = <<"blank">>
    OBVIOUS
  <2>2. sep \in Seq(A) /\ \A i \in 1 .. Len(sep) : sep[i] \in White
    BY <2>1, SingleIs DEF White
  <2>3. Ink(Joined(u, sep), White) = Ink(FlattenSeq(u), White)
    BY ONLY <1>13, <2>2, InkJoined
  <2> QED
    BY <2>1, <2>3
<1>17. PageText(page) = Joined(u, <<"blank">>)
  BY DEF PageText, u, v
<1> QED
  BY <1>4, <1>11, <1>14, <1>15, <1>16, <1>17

(* The words of a scan are the ink of its text. *)
LEMMA ScanInk ==
    ASSUME NEW A, "blank" \in A, "newline" \in A,
           NEW scan \in Seq(Seq([text : A, conf : Int])),
           NEW r, r = [i \in DOMAIN scan |-> [j \in DOMAIN scan[i] |-> scan[i][j].text]]
    PROVE  Ink(ScanText(scan), White) = Ink(FlattenSeq(r), White)
<1> DEFINE u == [i \in DOMAIN scan |-> PageText(scan[i])]
<1>1. PICK n \in Nat : n = Len(scan)
  OBVIOUS
<1>2. u \in Seq(Seq(A)) /\ Len(u) = n /\ \A i \in 1 .. n : u[i] = PageText(scan[i])
  <2>1. u \in Seq(Seq(A))
    BY ScanTextIs
  <2>2. DOMAIN u = 1 .. n
    BY <1>1
  <2> QED
    BY <1>1, <2>1, <2>2
<1>3. \A i \in 1 .. n : scan[i] \in Seq([text : A, conf : Int])
  BY <1>1
<1>4. ASSUME NEW i \in 1 .. n PROVE r[i] \in Seq(A) /\ Ink(u[i], White) = Ink(r[i], White)
  <2>1. PICK page \in Seq([text : A, conf : Int]) : page = scan[i]
    BY <1>3
  <2>2. r[i] = [j \in DOMAIN page |-> page[j].text]
    BY <1>1, <2>1
  <2>3. r[i] \in Seq(A) /\ Ink(PageText(page), White) = Ink(r[i], White)
    BY <2>2, PageInk
  <2> QED
    BY <1>2, <2>1, <2>3
<1>5. r \in Seq(Seq(A)) /\ Len(r) = n
  <2>1. r = [i \in 1 .. n |-> r[i]]
    BY <1>1
  <2>2. r \in [1 .. n -> Seq(A)]
    BY <1>4, <2>1
  <2> QED
    BY <2>2
<1> HIDE DEF u
<1>6. Ink(FlattenSeq(u), White) = Ink(FlattenSeq(r), White)
  <2>1. /\ u \in Seq(Seq(A)) /\ r \in Seq(Seq(A)) /\ Len(u) = Len(r)
        /\ \A i \in 1 .. Len(u) : Ink(u[i], White) = Ink(r[i], White)
    BY <1>2, <1>4, <1>5
  <2> QED
    BY ONLY <2>1, InkSame
<1>7. Ink(Joined(u, EmptyLine), White) = Ink(FlattenSeq(u), White)
  <2>1. EmptyLine \in Seq(A) /\ \A i \in 1 .. Len(EmptyLine) : EmptyLine[i] \in White
    BY DEF EmptyLine, White
  <2>2. u \in Seq(Seq(A))
    BY <1>2
  <2> QED
    BY ONLY <2>1, <2>2, InkJoined
<1> QED
  BY <1>6, <1>7 DEF ScanText, u

(* The lines of a sheet are its title and its rows. *)
LEMMA BlocksInk ==
    ASSUME NEW A, "sheet" \in A, NEW rows \in Seq(Seq(A))
    PROVE  /\ FlattenSeq(SheetBlocks(rows)) = <<"sheet">> \o FlattenSeq(rows)
           /\ SheetBlocks(rows) \in Seq(Seq(A))
           /\ <<"sheet">> \o FlattenSeq(rows) \in Seq(A)
<1> DEFINE S == {i \in DOMAIN rows : rows[i] # <<>>}
           T == Seq(A)
           u == <<<<"sheet">>>>
           r == Only(rows, S)
           b == Masked(rows, S)
<1>1. <<"sheet">> \in T
  BY SingleIs
<1>2. S \in SUBSET (1 .. Len(rows)) /\ rows \in Seq(T)
  OBVIOUS
<1>a. \A i \in 1 .. Len(rows) : i \notin S => rows[i] = <<>>
  OBVIOUS
<1>b. SheetBlocks(rows) = u \o r
  BY DEF SheetBlocks
<1> HIDE DEF S
<1>3. u \in Seq(T) /\ r \in Seq(T)
  <2> HIDE DEF T
  <2>1. u \in Seq(T)
    BY ONLY <1>1, SingleIs DEF u
  <2>2. r \in Seq(T)
    BY ONLY <1>2, OnlyIs DEF r
  <2> QED
    BY <2>1, <2>2
<1>4. r = FlattenSeq(b)
  <2> HIDE DEF T
  <2> QED
    BY ONLY <1>2, OnlyFlattens DEF r, b
<1>5. /\ b \in Seq(Seq(T)) /\ Len(b) = Len(rows)
      /\ \A i \in 1 .. Len(rows) : b[i] = IF i \in S THEN <<rows[i]>> ELSE <<>>
  <2> HIDE DEF T
  <2> QED
    BY ONLY <1>2, MaskedIs DEF b
<1> HIDE DEF u, r, b
<1>6. ASSUME NEW i \in 1 .. Len(rows) PROVE rows[i] = FlattenSeq(b[i])
  <2>1. PICK x \in Seq(A) : x = rows[i]
    OBVIOUS
  <2>2. CASE i \in S
    <3>1. b[i] = <<x>>
      BY <1>5, <2>1, <2>2
    <3>2. FlattenSeq(<<x>>) = x
      BY FlattenOne
    <3> QED
      BY <2>1, <3>1, <3>2
  <2>3. CASE i \notin S
    <3>1. b[i] = <<>> /\ rows[i] = <<>>
      BY <1>5, <1>a, <2>3
    <3> QED
      BY <3>1, FlattenEmpty
  <2> QED
    BY <2>2, <2>3
<1>7. FlattenSeq(r) = FlattenSeq(rows)
  <2>1. b \in Seq(Seq(Seq(A))) /\ Len(rows) = Len(b)
    BY <1>5
  <2>2. \A i \in 1 .. Len(b) : rows[i] = FlattenSeq(b[i])
    BY <1>5, <1>6
  <2>3. FlattenSeq(FlattenSeq(b)) = FlattenSeq(rows)
    BY ONLY <2>1, <2>2, rows \in Seq(Seq(A)), FlattenFlatten
  <2> QED
    BY <1>4, <2>3
<1>8. FlattenSeq(u) = <<"sheet">>
  BY <1>1, FlattenOne DEF u
<1>9. PICK c : c = u \o r
  OBVIOUS
<1>10. FlattenSeq(c) = FlattenSeq(u) \o FlattenSeq(r)
  <2>1. u \in Seq(Seq(A)) /\ r \in Seq(Seq(A))
    BY <1>3
  <2> QED
    BY ONLY <1>9, <2>1, FlattenConcat
<1>11. SheetBlocks(rows) \in Seq(T)
  <2> HIDE DEF T
  <2>1. c \in Seq(T)
    BY ONLY <1>3, <1>9, ConcatIs
  <2> QED
    BY <1>9, <1>b, <2>1
<1>12. <<"sheet">> \o FlattenSeq(rows) \in Seq(A)
  <2>1. PICK x \in Seq(A) : x = <<"sheet">>
    BY <1>1
  <2>2. PICK y \in Seq(A) : y = FlattenSeq(rows)
    BY FlattenIs
  <2>3. PICK z : z = x \o y
    OBVIOUS
  <2>4. z \in Seq(A)
    <3>1. x \in Seq(A) /\ y \in Seq(A)
      OBVIOUS
    <3> QED
      BY ONLY <2>3, <3>1, ConcatIs
  <2> QED
    BY <2>1, <2>2, <2>3, <2>4
<1> QED
  BY <1>7, <1>8, <1>9, <1>10, <1>11, <1>12, <1>b

(* The ink of a workbook's text is that of its sheets, each with its title. *)
LEMMA WorkbookInk ==
    ASSUME NEW A, "sheet" \in A, "newline" \in A, NEW sheets \in Seq(Seq(Seq(A))),
           NEW r, r = [i \in DOMAIN sheets |-> <<"sheet">> \o FlattenSeq(sheets[i])]
    PROVE  Ink(Joined(WorkbookLines(sheets), NewLine), White) = Ink(FlattenSeq(r), White)
<1> DEFINE b == [i \in DOMAIN sheets |-> SheetBlocks(sheets[i])]
<1>1. PICK n \in Nat : n = Len(sheets)
  OBVIOUS
<1>2. \A i \in 1 .. n : sheets[i] \in Seq(Seq(A))
  BY <1>1
<1>3. ASSUME NEW i \in 1 .. n
      PROVE  /\ b[i] \in Seq(Seq(A)) /\ r[i] \in Seq(A) /\ r[i] = FlattenSeq(b[i])
  <2>1. PICK rows \in Seq(Seq(A)) : rows = sheets[i]
    BY <1>2
  <2>2. b[i] = SheetBlocks(rows) /\ r[i] = <<"sheet">> \o FlattenSeq(rows)
    BY <1>1, <2>1
  <2> QED
    BY <2>2, BlocksInk
<1>4. b \in Seq(Seq(Seq(A))) /\ Len(b) = n
  <2>1. b = [i \in 1 .. n |-> b[i]]
    BY <1>1
  <2>2. b \in [1 .. n -> Seq(Seq(A))]
    BY <1>3, <2>1
  <2> QED
    BY <2>2
<1>5. r \in Seq(Seq(A)) /\ Len(r) = n
  <2>1. r = [i \in 1 .. n |-> r[i]]
    BY <1>1
  <2>2. r \in [1 .. n -> Seq(A)]
    BY <1>3, <2>1
  <2> QED
    BY <2>2
<1> HIDE DEF b
<1>6. FlattenSeq(FlattenSeq(b)) = FlattenSeq(r)
  <2>1. /\ b \in Seq(Seq(Seq(A))) /\ r \in Seq(Seq(A)) /\ Len(r) = Len(b)
        /\ \A i \in 1 .. Len(b) : r[i] = FlattenSeq(b[i])
    BY <1>3, <1>4, <1>5
  <2> QED
    BY ONLY <2>1, FlattenFlatten
<1>7. PICK lines \in Seq(Seq(A)) : lines = FlattenSeq(b)
  <2> DEFINE T == Seq(A)
  <2>1. b \in Seq(Seq(T))
    BY <1>4
  <2> HIDE DEF T
  <2>2. FlattenSeq(b) \in Seq(T)
    BY <2>1, FlattenIs
  <2> QED
    BY <2>2 DEF T
<1>8. NewLine \in Seq(A) /\ \A i \in 1 .. Len(NewLine) : NewLine[i] \in White
  BY SingleIs DEF NewLine, White
<1>9. Ink(Joined(lines, NewLine), White) = Ink(FlattenSeq(lines), White)
  BY ONLY <1>8, lines \in Seq(Seq(A)), InkJoined
<1>10. WorkbookLines(sheets) = lines
  BY <1>7 DEF WorkbookLines, b
<1> QED
  BY <1>6, <1>7, <1>9, <1>10

-----------------------------------------------------------------------------
(* The ink of a file. *)

(* The letters a reader of a file of this kind would see. *)
SourceOf(f, kind, how) ==
    LET w == f.world
        ext == f.name.extension
        lines == Joined(w.parts, NewLine)
    IN  IF how \in Scanned
        THEN FlattenSeq([i \in DOMAIN w.scan |->
                [j \in DOMAIN w.scan[i] |-> w.scan[i][j].text]])
        ELSE IF kind = "readme" /\ ext # "md" THEN title(w.parts) \o Kept(w.parts)
        ELSE IF kind = "readme" \/ ext = "md"
             THEN SubSeq(lines, BodyStart(lines) + 1, Len(lines))
        ELSE IF ext = "xlsx"
             THEN FlattenSeq([i \in DOMAIN w.sheets |-> <<"sheet">> \o FlattenSeq(w.sheets[i])])
        ELSE IF ext = "xls" THEN FlattenSeq(w.sheets[1])
        ELSE FlattenSeq(w.parts)

(* Document's SourceInk is that of the file, its category and its status. *)
LEMMA SourceIs == SourceInk = SourceOf(file, category, status)
BY DEF SourceInk, SourceOf, Scanned, IsScan, IsMarkdown, IsConverted, extension, world, Kept

(* The letters of a file of this kind that are no words. *)
MuteOf(f, kind) ==
    IF kind = "readme" /\ f.name.extension # "md" THEN White \cup Notation ELSE White

(* Document's Mute is that of the file and its category. *)
LEMMA MuteIs == Mute = MuteOf(file, category) /\ White \subseteq Mute
BY DEF Mute, MuteOf, IsConverted, extension

(* Where in its text the letters of a file begin. *)
StartOf(f, kind, t) ==
    IF kind = "readme" \/ f.name.extension = "md" THEN BodyStart(t) ELSE 0

(* Nothing is lost in extraction: behind its front matter, if it has one,   *)
(* the ink of the text of a file is the ink of its paragraphs, pages,       *)
(* scanned words or sheets, in their order, whichever extractor wrote it    *)
(* (ingest/extractors).  Of notes that become Markdown the words are those  *)
(* of the title and of the lines that convert_to_md.sh does not drop, and   *)
(* its notation, that of the notes and the dates do not count as words.     *)
THEOREM TextInk ==
    ASSUME NEW f \in File, NEW kind \in {"include", "readme"}, NEW how \in TextStatuses,
           Readable(f, kind, how), NEW t, t = TextOf(f, kind, how)
    PROVE  InkAfter(t, StartOf(f, kind, t), MuteOf(f, kind))
                = Ink(SourceOf(f, kind, how), MuteOf(f, kind))
<1> DEFINE ext == f.name.extension
           marked == kind = "readme" \/ ext = "md"
           w == f.world
           A == Alphabet
<1>1. t \in Seq(A)
  BY TextIs
<1>2. /\ Letters \subseteq A /\ "blank" \in A /\ "sheet" \in A /\ "newline" \in A
  BY DEF Alphabet, Letters
<1>3. PICK parts \in Seq(Seq(A)) : parts = w.parts
  BY FileIs
<1>4. PICK scan \in Seq(Seq([text : A, conf : Int])) : scan = w.scan
  BY FileIs
<1>5. PICK sheets \in Seq(Seq(Seq(A))) : sheets = w.sheets
  BY FileIs
<1> HIDE DEF A
<1>6. /\ NewLine \in Seq(A) /\ EmptyLine \in Seq(A)
      /\ \A i \in 1 .. Len(NewLine) : NewLine[i] \in White
      /\ \A i \in 1 .. Len(EmptyLine) : EmptyLine[i] \in White
  BY <1>2 DEF NewLine, EmptyLine, White
<1>7. PICK lines \in Seq(A) : lines = Joined(parts, NewLine)
  <2>1. Joined(parts, NewLine) \in Seq(A)
    BY <1>6, SeparatedIs
  <2> QED
    BY <2>1
<1>8. Ink(lines, White) = Ink(FlattenSeq(parts), White)
  <2>1. NewLine \in Seq(A) /\ \A i \in 1 .. Len(NewLine) : NewLine[i] \in White
    BY <1>6
  <2>2. Ink(Joined(parts, NewLine), White) = Ink(FlattenSeq(parts), White)
    BY ONLY <2>1, parts \in Seq(Seq(A)), InkJoined
  <2> QED
    BY <1>7, <2>2
<1>9. InkAfter(t, 0, White) = Ink(t, White)
  BY <1>1, InkAfterNothing
<1>a. ~(kind = "readme" /\ ext # "md") => MuteOf(f, kind) = White
  BY DEF MuteOf
<1>10. how \in Scanned => ~marked
  BY DEF Readable
<1>11. CASE how \in Scanned
  <2>1. t = ScanText(scan)
    BY <1>4, <1>11 DEF TextOf
  <2>2. PICK r : r = [i \in DOMAIN scan |-> [j \in DOMAIN scan[i] |-> scan[i][j].text]]
    OBVIOUS
  <2>3. SourceOf(f, kind, how) = FlattenSeq(r)
    BY <1>4, <1>11, <2>2 DEF SourceOf
  <2>4. Ink(ScanText(scan), White) = Ink(FlattenSeq(r), White)
    <3>1. "blank" \in A /\ "newline" \in A
      BY <1>2
    <3> QED
      BY ONLY <2>2, <3>1, scan \in Seq(Seq([text : A, conf : Int])), ScanInk
  <2>5. StartOf(f, kind, t) = 0
    BY <1>10, <1>11 DEF StartOf
  <2> QED
    BY <1>9, <1>10, <1>11, <1>a, <2>1, <2>3, <2>4, <2>5
<1>12. CASE how \notin Scanned /\ kind = "readme" /\ ext # "md"
  <2>1. PICK W : W = MuteOf(f, kind)
    OBVIOUS
  <2>2. Wordless(W)
    BY <1>12, <2>1 DEF MuteOf, Wordless
  <2>3. Says(Told(parts), Ink(title(parts) \o Kept(parts), W), A, W)
    BY <1>2, <2>2, NotesSay
  <2>4. PICK rest \in Seq(A) : rest = Told(parts)
    BY <2>3 DEF Says
  <2>5. t = Preface \o rest
    BY <1>3, <1>12, <2>4, ConvertedIs DEF TextOf
  <2>6. BodyStart(t) = 6 /\ InkAfter(t, 6, W) = Ink(rest, W)
    BY <1>2, <2>5, PrefaceInk
  <2>7. SourceOf(f, kind, how) = title(parts) \o Kept(parts)
    BY <1>3, <1>12 DEF SourceOf
  <2>8. StartOf(f, kind, t) = BodyStart(t)
    BY <1>12 DEF StartOf
  <2> QED
    BY <2>1, <2>3, <2>4, <2>6, <2>7, <2>8 DEF Says
<1>13. CASE how \notin Scanned /\ marked /\ ext = "md"
  <2>1. t = lines
    BY <1>3, <1>7, <1>13 DEF TextOf
  <2>2. SourceOf(f, kind, how) = SubSeq(lines, BodyStart(lines) + 1, Len(lines))
    BY <1>3, <1>7, <1>13 DEF SourceOf
  <2>3. BodyStart(t) \in 0 .. Len(t)
    BY <1>1, BodyStartIs
  <2>4. PICK n \in 0 .. Len(t) : n = BodyStart(t)
    BY <2>3
  <2>5. InkAfter(t, n, White) = Ink(SubSeq(t, n + 1, Len(t)), White)
    BY ONLY <1>1, n \in 0 .. Len(t), InkAfterIs
  <2>6. StartOf(f, kind, t) = n
    BY <1>13, <2>4 DEF StartOf
  <2> QED
    BY <1>13, <1>a, <2>1, <2>2, <2>4, <2>5, <2>6
<1>14. CASE how \notin Scanned /\ ~marked
  <2>a. MuteOf(f, kind) = White
    BY <1>14, <1>a
  <2>0. StartOf(f, kind, t) = 0
    BY <1>14 DEF StartOf
  <2>1. kind = "include" /\ ext \in {"txt", "text", "pdf", "docx", "doc", "xlsx", "xls"}
    BY <1>14 DEF Readable
  <2>2. CASE ext = "xlsx"
    <3>1. t = Joined(WorkbookLines(sheets), NewLine)
      BY <1>5, <1>14, <2>1, <2>2 DEF TextOf
    <3>2. PICK r : r = [i \in DOMAIN sheets |-> <<"sheet">> \o FlattenSeq(sheets[i])]
      OBVIOUS
    <3>3. SourceOf(f, kind, how) = FlattenSeq(r)
      BY <1>5, <1>14, <2>1, <2>2, <3>2 DEF SourceOf
    <3>4. Ink(Joined(WorkbookLines(sheets), NewLine), White) = Ink(FlattenSeq(r), White)
      <4>1. "sheet" \in A /\ "newline" \in A
        BY <1>2
      <4> QED
        BY ONLY <3>2, <4>1, sheets \in Seq(Seq(Seq(A))), WorkbookInk
    <3> QED
      BY <1>9, <2>0, <2>a, <3>1, <3>3, <3>4
  <2>3. CASE ext = "xls"
    <3>1. sheets # <<>> /\ 1 \in DOMAIN sheets
      <4>1. sheets # <<>>
        BY <1>5, <2>3, FileIs
      <4> QED
        BY <4>1, EmptySeq, LenProperties
    <3>2. PICK rows \in Seq(Seq(A)) : rows = sheets[1]
      BY <3>1
    <3>3. t = Joined(rows, NewLine)
      BY <1>5, <1>14, <2>1, <2>3, <3>2 DEF TextOf
    <3>4. SourceOf(f, kind, how) = FlattenSeq(rows)
      BY <1>5, <1>14, <2>1, <2>3, <3>2 DEF SourceOf
    <3>5. Ink(Joined(rows, NewLine), White) = Ink(FlattenSeq(rows), White)
      <4>1. NewLine \in Seq(A) /\ \A i \in 1 .. Len(NewLine) : NewLine[i] \in White
        BY <1>6
      <4> QED
        BY ONLY <4>1, rows \in Seq(Seq(A)), InkJoined
    <3> QED
      BY <1>9, <2>0, <2>a, <3>3, <3>4, <3>5
  <2>4. CASE ext = "pdf"
    <3>1. t = Joined(parts, EmptyLine)
      BY <1>3, <1>14, <2>1, <2>4 DEF TextOf
    <3>2. SourceOf(f, kind, how) = FlattenSeq(parts)
      BY <1>3, <1>14, <2>1, <2>4 DEF SourceOf
    <3>3. Ink(Joined(parts, EmptyLine), White) = Ink(FlattenSeq(parts), White)
      <4>1. EmptyLine \in Seq(A) /\ \A i \in 1 .. Len(EmptyLine) : EmptyLine[i] \in White
        BY <1>6
      <4> QED
        BY ONLY <4>1, parts \in Seq(Seq(A)), InkJoined
    <3> QED
      BY <1>9, <2>0, <2>a, <3>1, <3>2, <3>3
  <2>5. CASE ext \in {"txt", "text", "docx", "doc"}
    <3>1. t = lines
      BY <1>3, <1>7, <1>14, <2>1, <2>5 DEF TextOf
    <3>2. SourceOf(f, kind, how) = FlattenSeq(parts)
      BY <1>3, <1>14, <2>1, <2>5 DEF SourceOf
    <3> QED
      BY <1>8, <1>9, <2>0, <2>a, <3>1, <3>2
  <2> QED
    BY <2>1, <2>2, <2>3, <2>4, <2>5
<1> QED
  BY <1>11, <1>12, <1>13, <1>14

(* The places that some chunk shows. *)
Covered(u) == UNION {Positions(u[i].head) \cup Positions(u[i].rows) : i \in DOMAIN u}

(* What a place with ink is. *)
LEMMA InkPlaces ==
    ASSUME NEW W, White \subseteq W, NEW A, NEW t \in Seq(A)
    PROVE  \A p \in Inked(t, W) : p \in 1 .. Len(t) /\ p - 1 \in 0 .. Len(t) - 1
                               /\ p - 1 + 1 = p /\ t[p] \notin White
<1>1. PICK L \in Nat : L = Len(t)
  OBVIOUS
<1>2. DOMAIN t = 1 .. L
  BY <1>1
<1>3. \A p \in 1 .. L : p - 1 \in 0 .. L - 1 /\ p - 1 + 1 = p
  OBVIOUS
<1> QED
  BY <1>1, <1>2, <1>3 DEF Inked

(* Positions count from 1, spans from 0. *)
LEMMA InPositions ==
    ASSUME NEW s \in Spans, NEW p \in Nat
    PROVE  p \in Positions(s) <=> s.start <= p - 1 /\ p - 1 < s.end
<1>1. PICK a \in Nat : a = s.start
  BY DEF Spans
<1>2. PICK b \in Nat : b = s.end
  BY DEF Spans
<1>3. Positions(s) = a + 1 .. b
  BY <1>1, <1>2 DEF Positions
<1>4. p \in a + 1 .. b <=> a <= p - 1 /\ p - 1 < b
  BY ONLY a \in Nat, b \in Nat, p \in Nat
<1> QED
  BY <1>1, <1>2, <1>3, <1>4

(* Chunks without a head cover the ink of what was split. *)
LEMMA SplitsCover ==
    ASSUME NEW W, White \subseteq W, NEW A, NEW t \in Seq(A), NEW a \in 0 .. Len(t), NEW r, Splits(t, r, Span(a, Len(t)))
    PROVE  Covered(Bare(r)) \cap Inked(t, W) = {p \in Inked(t, W) : p > a}
<1> DEFINE s == Span(a, Len(t))
           u == Bare(r)
<1>1. PICK L \in Nat : L = Len(t)
  OBVIOUS
<1>2. a \in Nat /\ s.start = a /\ s.end = L
  BY <1>1, SpanIs
<1>3. r \in Seq(Spans)
  BY DEF Splits
<1>4. /\ Len(r) \in Nat /\ DOMAIN u = 1 .. Len(r)
      /\ \A k \in 1 .. Len(r) : r[k] \in Spans /\ u[k].head = NoHead /\ u[k].rows = r[k]
  BY <1>3, BareIs
<1>5. Positions(NoHead) = {}
  <2>1. NoHead.start = 0 /\ NoHead.end = 0
    BY SpanIs DEF NoHead
  <2> QED
    BY <2>1 DEF Positions
<1>6. \A k \in 1 .. Len(r) : Inside(r[k], s)
  BY DEF Splits
<1>7. Holds(t, r, s)
  BY DEF Splits
<1> HIDE DEF s, u
<1>8. ASSUME NEW p \in Inked(t, W), p \in Covered(u) PROVE p > a
  <2>1. PICK k \in 1 .. Len(r) : p \in Positions(r[k])
    BY <1>4, <1>5, <1>8 DEF Covered
  <2>2. PICK x \in Spans : x = r[k]
    BY <1>4
  <2>3. p \in Nat
    BY <1>1, InkPlaces
  <2>4. x.start <= p - 1
    BY <2>1, <2>2, <2>3, InPositions
  <2>5. PICK b \in Nat : b = x.start
    BY DEF Spans
  <2>6. a <= b
    BY <1>2, <1>6, <2>2, <2>5 DEF Inside
  <2>7. b <= p - 1
    BY <2>4, <2>5
  <2> QED
    BY ONLY <2>3, <2>6, <2>7, <1>2, b \in Nat
<1>9. ASSUME NEW p \in Inked(t, W), p > a PROVE p \in Covered(u)
  <2>1. p \in 1 .. L /\ t[p] \notin White
    BY <1>1, InkPlaces
  <2>2. PICK x \in Nat : x = p - 1
    BY <2>1
  <2>3. x \in a .. L - 1 /\ p = x + 1 /\ p \in Nat
    BY <1>2, <1>9, <2>1, <2>2
  <2>4. \E m \in DOMAIN r : r[m].start <= x /\ x < r[m].end
    BY <1>2, <1>7, <2>1, <2>3 DEF Holds
  <2>5. PICK m \in 1 .. Len(r) : r[m].start <= x /\ x < r[m].end
    BY <1>3, <2>4
  <2>6. p \in Positions(r[m])
    BY <1>4, <2>2, <2>3, <2>5, InPositions
  <2> QED
    BY <1>4, <2>6 DEF Covered
<1> QED
  BY <1>8, <1>9 DEF u

(* So do the chunks of a workbook. *)
LEMMA WorkbookCovers ==
    ASSUME NEW W, White \subseteq W, NEW A, NEW t \in Seq(A), NEW u, WorkbookSplit(t, u)
    PROVE  Covered(u) \cap Inked(t, W) = {p \in Inked(t, W) : p > 0}
<1>1. PICK L \in Nat : L = Len(t)
  OBVIOUS
<1>2. DOMAIN u = 1 .. Len(u) /\ \A i \in 1 .. Len(u) : u[i].head \in Spans /\ u[i].rows \in Spans
  BY RowsInOrder
<1>3. ASSUME NEW p \in Inked(t, W) PROVE p > 0 /\ p \in Covered(u)
  <2>1. p \in 1 .. L /\ t[p] \notin White
    BY <1>1, InkPlaces
  <2>2. PICK x \in Nat : x = p - 1
    BY <2>1
  <2>3. x \in 0 .. L - 1 /\ p = x + 1 /\ p \in Nat
    BY <2>1, <2>2
  <2>4. PICK k \in 1 .. Len(u) : Shows(u[k], x)
    BY <1>1, <2>1, <2>3 DEF WorkbookSplit
  <2>5. p \in Positions(u[k].head) \/ p \in Positions(u[k].rows)
    BY <1>2, <2>2, <2>3, <2>4, InPositions DEF Shows
  <2> QED
    BY <1>2, <2>1, <2>5 DEF Covered
<1> QED
  BY <1>3

(* The invariant implies NothingLost. *)
LEMMA NoneIsLost ==
    ASSUME TextInv, \A f \in File : f.name.extension = "xls" => Untitled(f.world.sheets)
    PROVE  NothingLost
<1> SUFFICES ASSUME Done
             PROVE  Only(text, Covered(chunks) \cap Inked(text, Mute)) = Ink(SourceInk, Mute)
  BY DEF NothingLost, Covered
<1> DEFINE marked == category = "readme" \/ file.name.extension = "md"
           n == StartOf(file, category, text)
<1>1. /\ file \in File /\ category \in {"include", "readme"} /\ status \in TextStatuses
      /\ Readable(file, category, status) /\ text = TextOf(file, category, status)
      /\ text \in Seq(Alphabet)
      /\ \/ HasInk(text, Span(0, Len(text))) /\ SplitInto(file, category, text, chunks)
         \/ ~HasInk(text, Span(0, Len(text))) /\ chunks = <<>>
  <2>1. file \in File
    BY DEF TextInv
  <2> QED
    BY <2>1, DoneIs
<1>a. White \subseteq Mute
  BY MuteIs
<1>2. InkAfter(text, n, Mute) = Ink(SourceInk, Mute)
  BY <1>1, TextInk, SourceIs, MuteIs
<1>3. n \in 0 .. Len(text) /\ Len(text) \in Nat
  <2>1. BodyStart(text) \in 0 .. Len(text) /\ Len(text) \in Nat
    BY <1>1, BodyStartIs
  <2> QED
    BY <2>1 DEF StartOf
<1>4. Covered(chunks) \cap Inked(text, Mute) = {p \in Inked(text, Mute) : p > n}
  <2>1. CASE ~HasInk(text, Span(0, Len(text)))
    <3>1. Inked(text, Mute) = {}
      <4>1. Span(0, Len(text)).start = 0 /\ Span(0, Len(text)).end = Len(text)
        BY <1>3, SpanIs
      <4>2. \A i \in 0 + 1 .. Len(text) : text[i] \in White
        BY <2>1, <4>1 DEF HasInk, Positions
      <4>3. \A i \in 1 .. Len(text) : text[i] \in White
        BY <4>2
      <4>4. DOMAIN text = 1 .. Len(text)
        BY <1>1
      <4> QED
        BY <1>a, <4>3, <4>4 DEF Inked
    <3> QED
      BY <3>1
  <2>2. CASE SplitInto(file, category, text, chunks) /\ ~marked /\ file.name.extension = "xlsx"
    <3>1. WorkbookSplit(text, chunks)
      BY <2>2 DEF SplitInto
    <3>2. n = 0
      BY <2>2 DEF StartOf
    <3> QED
      BY <1>1, <1>a, <3>1, <3>2, WorkbookCovers
  <2>3. CASE SplitInto(file, category, text, chunks) /\ ~(~marked /\ file.name.extension = "xlsx")
    <3>1. PICK r : chunks = Bare(r) /\ Splits(text, r, Span(n, Len(text)))
      BY <2>3 DEF SplitInto, StartOf
    <3> HIDE DEF n
    <3> QED
      BY <1>1, <1>3, <1>a, <3>1, SplitsCover
  <2> QED
    BY <1>1, <2>1, <2>2, <2>3
<1> QED
  BY <1>2, <1>4 DEF InkAfter

(* No word is lost between a file and its chunks: whichever way it was      *)
(* extracted, split, packed or merged, what its chunks cover, read in       *)
(* order, is the ink of the source, and all of it; of notes that become     *)
(* Markdown, the words of the title and of the lines that convert_to_md.sh  *)
(* does not drop.  Of an .xls, which is written without titles, it is       *)
(* assumed that no cell looks like one: what comes before such a cell is    *)
(* lost (splitters.py, ingest/extractors, convert_to_md.sh).                *)
THEOREM NothingIsLost ==
    ASSUME \A f \in File : f.name.extension = "xls" => Untitled(f.world.sheets)
    PROVE  Spec => []NothingLost
<1>1. TextInv => NothingLost
  BY NoneIsLost
<1> QED
  BY TextInit, TextStep, <1>1, PTL DEF Spec
=============================================================================
