---------------------------- MODULE PdfReportProofs ----------------------------
(***************************************************************************)
(* Proofs about the pages of a report, for any images, answers and limits. *)
(*                                                                         *)
(*   - Layout: the cursor only moves down or to a later page, and all that *)
(*     is drawn ends above it (Laid).  So what is drawn next is apart from *)
(*     it, and the images of a row are apart because their cells are.      *)
(*   - Headings: a heading at the end of the document still has room for   *)
(*     the beginning of its text (Leads), because ensureSectionSpace asks  *)
(*     for no less than heading and text take (HeadingWithRoom).           *)
(*   - Images: mapImageAliases and generate drop repetitions with Fresh, a *)
(*     recursive function; FreshDistills says what it returns, from a      *)
(*     least-number argument (KeepingExists).  The sections behind the one *)
(*     being rendered show what they ask for and earlier ones do not, and  *)
(*     the gallery holds what this one still has to show (Shown).          *)
(***************************************************************************)
EXTENDS PdfReport, SequenceTheorems, FiniteSetTheorems, TLAPS

-----------------------------------------------------------------------------
(* Arithmetic of the layout.                                               *)

LEMMA MinOfTwo ==
    ASSUME NEW a \in Nat, NEW b \in Nat
    PROVE  Min({a, b}) \in {a, b} /\ Min({a, b}) <= a /\ Min({a, b}) <= b
  <1>1. \E x \in {a, b} : \A y \in {a, b} : x <= y
    OBVIOUS
  <1> QED BY <1>1 DEF Min

LEMMA MinOfThree ==
    ASSUME NEW a \in Nat, NEW b \in Nat, NEW c \in Nat
    PROVE  Min({a, b, c}) \in Nat /\ Min({a, b, c}) <= b
  <1>1. \E x \in {a, b, c} : \A y \in {a, b, c} : x <= y
    OBVIOUS
  <1>2. Min({a, b, c}) \in {a, b, c} /\ \A y \in {a, b, c} : Min({a, b, c}) <= y
    BY <1>1 DEF Min
  <1> QED BY <1>2

LEMMA MaxOfTwo ==
    ASSUME NEW a \in Nat, NEW b \in Nat
    PROVE  Max({a, b}) \in {a, b} /\ Max({a, b}) >= a /\ Max({a, b}) >= b
  <1>1. \E x \in {a, b} : \A y \in {a, b} : x >= y
    OBVIOUS
  <1> QED BY <1>1 DEF Max

LEMMA QuotientIsNatural ==
    ASSUME NEW a \in Nat, NEW b \in Positive
    PROVE  a \div b \in Nat
  BY SMT DEF Positive

LEMMA ProductIsNatural == ASSUME NEW a \in Nat, NEW b \in Nat PROVE a * b \in Nat
  BY SMT

\* An image is scaled into the frame it is given.
LEMMA FittedIntoFrame ==
    ASSUME NEW source, source.width \in Positive, source.height \in Positive,
           NEW mw \in Nat, NEW mh \in Nat
    PROVE  LET fit == fitImageDimensions(source, mw, mh) IN
           /\ fit.width \in Nat /\ fit.width <= mw
           /\ fit.height \in Nat /\ fit.height <= mh
  <1>1. source.width \in Nat /\ source.height \in Nat
    BY DEF Positive
  <1>2. source.width * mh \in Nat /\ source.height * mw \in Nat
    BY <1>1, ProductIsNatural
  <1> DEFINE byHeight == (source.width * mh) \div source.height
             byWidth == (source.height * mw) \div source.width
  <1>3. byHeight \in Nat /\ byWidth \in Nat
    BY <1>2, QuotientIsNatural
  <1>4. fitImageDimensions(source, mw, mh) =
            [width |-> Min({source.width, mw, byHeight}),
             height |-> Min({source.height, mh, byWidth})]
    BY DEF fitImageDimensions
  <1> HIDE DEF byHeight, byWidth
  <1> QED BY <1>1, <1>3, <1>4, MinOfThree

-----------------------------------------------------------------------------
(* The cursor.                                                             *)

Cursors == {at \in [page : Nat, y : Nat] : at.y >= PAGE_MARGIN_TOP}

\* a is on an earlier page than b or not below it.
NotBelow(a, b) == a.page < b.page \/ (a.page = b.page /\ a.y <= b.y)

LEMMA Lengths ==
    /\ contentWidth = 483 /\ contentBottom = 776 /\ PAGE_MARGIN_TOP = 62
    /\ PAGE_MARGIN_X = 56 /\ PAGE_WIDTH - PAGE_MARGIN_X = 539
    /\ BodyLine = 17 /\ HeadingLine = 23 /\ TitleLine = 38
  BY DEF contentWidth, contentBottom, PAGE_MARGIN_TOP, PAGE_MARGIN_X, PAGE_WIDTH, PAGE_HEIGHT,
         PAGE_MARGIN_BOTTOM, BodyLine, HeadingLine, TitleLine

LEMMA NotBelowTransitive ==
    ASSUME NEW a \in Cursors, NEW b \in Cursors, NEW c \in Cursors, NotBelow(a, b), NotBelow(b, c)
    PROVE  NotBelow(a, c)
  BY DEF NotBelow, Cursors

LEMMA Moved ==
    ASSUME NEW at \in Cursors, NEW points \in Nat
    PROVE  /\ Move(at, points) \in Cursors /\ NotBelow(at, Move(at, points))
           /\ Move(at, points).page = at.page /\ Move(at, points).y = at.y + points
  BY Lengths DEF Move, NotBelow, Cursors

LEMMA Ensured ==
    ASSUME NEW at \in Cursors, NEW points \in Nat
    PROVE  LET next == EnsureSpace(at, points) IN
           /\ next \in Cursors /\ NotBelow(at, next)
           /\ points <= contentBottom - PAGE_MARGIN_TOP => next.y + points <= contentBottom
           /\ at.y + points <= contentBottom => next = at
  <1>1. CASE at.y + points <= contentBottom
    <2>1. EnsureSpace(at, points) = at
      BY <1>1, Lengths DEF EnsureSpace, needsPageBreak, Cursors
    <2> QED BY <1>1, <2>1 DEF NotBelow, Cursors
  <1>2. CASE at.y + points > contentBottom
    <2>1. EnsureSpace(at, points) = [page |-> at.page + 1, y |-> PAGE_MARGIN_TOP]
      BY <1>2, Lengths DEF EnsureSpace, needsPageBreak, NewPage, Cursors
    <2>2. at.page \in Nat /\ at.y \in Nat
      BY DEF Cursors
    <2> QED BY <1>2, <2>1, <2>2, Lengths DEF NotBelow, Cursors
  <1> QED BY <1>1, <1>2, Lengths DEF Cursors

\* The last of the lines that go on to other pages is on the last of those.
LEMMA LastPage ==
    ASSUME NEW rest \in Positive, NEW line \in {BodyLine, HeadingLine, TitleLine}
    PROVE  LET each == (contentBottom - PAGE_MARGIN_TOP) \div line
               more == (rest + each - 1) \div each
           IN  /\ more \in Positive
               /\ rest - (more - 1) * each \in Nat
               /\ PAGE_MARGIN_TOP + (rest - (more - 1) * each) * line <= contentBottom
  <1> rest \in Nat /\ rest > 0
    BY DEF Positive
  <1>1. CASE line = 17
    <2>1. (776 - 62) \div line = 42
      BY <1>1
    <2>2. (rest + 42 - 1) \div 42 \in Nat /\ (rest + 42 - 1) \div 42 > 0
      OBVIOUS
    <2>3. /\ rest - (((rest + 42 - 1) \div 42) - 1) * 42 \in Nat
          /\ rest - (((rest + 42 - 1) \div 42) - 1) * 42 <= 42
      OBVIOUS
    <2> QED BY <1>1, <2>1, <2>2, <2>3, Lengths DEF Positive
  <1>2. CASE line = 23
    <2>1. (776 - 62) \div line = 31
      BY <1>2
    <2>2. (rest + 31 - 1) \div 31 \in Nat /\ (rest + 31 - 1) \div 31 > 0
      OBVIOUS
    <2>3. /\ rest - (((rest + 31 - 1) \div 31) - 1) * 31 \in Nat
          /\ rest - (((rest + 31 - 1) \div 31) - 1) * 31 <= 31
      OBVIOUS
    <2> QED BY <1>2, <2>1, <2>2, <2>3, Lengths DEF Positive
  <1>3. CASE line = 38
    <2>1. (776 - 62) \div line = 18
      BY <1>3
    <2>2. (rest + 18 - 1) \div 18 \in Nat /\ (rest + 18 - 1) \div 18 > 0
      OBVIOUS
    <2>3. /\ rest - (((rest + 18 - 1) \div 18) - 1) * 18 \in Nat
          /\ rest - (((rest + 18 - 1) \div 18) - 1) * 18 <= 18
      OBVIOUS
    <2> QED BY <1>3, <2>1, <2>2, <2>3, Lengths DEF Positive
  <1> QED BY <1>1, <1>2, <1>3, Lengths

\* A text begins where its first line fits, goes on below and ends on a page.
LEMMA TextOnPages ==
    ASSUME NEW kind, NEW of, NEW at \in Cursors, NEW lines \in Positive,
           NEW line \in {BodyLine, HeadingLine, TitleLine}
    PROVE  LET text == Text(kind, of, at, lines, line) IN
           /\ text.from \in Cursors /\ text.to \in Cursors
           /\ NotBelow(at, text.from) /\ NotBelow(text.from, text.to)
           /\ text.to.y <= contentBottom
           /\ at.y + line <= contentBottom => text.from = at
           /\ at.y + lines * line <= contentBottom => text.to = Move(at, lines * line)
  <1> DEFINE text == Text(kind, of, at, lines, line)
             from == EnsureSpace(at, line)
             fit == (contentBottom - from.y) \div line
             rest == lines - fit
             each == (contentBottom - PAGE_MARGIN_TOP) \div line
             more == (rest + each - 1) \div each
             over == [page |-> from.page + more,
                      y |-> PAGE_MARGIN_TOP + (rest - (more - 1) * each) * line]
  <1>1. line \in {17, 23, 38} /\ lines \in Nat /\ lines > 0
    BY Lengths DEF Positive
  <1>2. /\ from \in Cursors /\ NotBelow(at, from) /\ from.y + line <= contentBottom
        /\ at.y + line <= contentBottom => from = at
    <2>1. line \in Nat /\ line <= contentBottom - PAGE_MARGIN_TOP
      BY <1>1, Lengths
    <2> QED BY ONLY <2>1, at \in Cursors, Ensured DEF from
  <1>3. /\ text.from = from
        /\ text.to = IF lines <= fit THEN Move(from, lines * line) ELSE over
    BY DEF Text
  <1>4. from.y \in Nat /\ from.page \in Nat /\ from.y <= 776
    BY <1>1, <1>2, Lengths DEF Cursors
  <1> HIDE DEF from
  <1>5. ASSUME NEW y \in Nat, y <= 776
        PROVE  /\ (776 - y) \div line \in Nat /\ ((776 - y) \div line) * line <= 776 - y
               /\ lines * line <= 776 - y => lines <= (776 - y) \div line
               /\ lines <= (776 - y) \div line => lines * line <= 776 - y
    <2>1. CASE line = 17
      BY <1>1, <1>5, <2>1
    <2>2. CASE line = 23
      BY <1>1, <1>5, <2>2
    <2>3. CASE line = 38
      BY <1>1, <1>5, <2>3
    <2> QED BY <1>1, <2>1, <2>2, <2>3
  <1>6. /\ fit \in Nat
        /\ lines * line <= 776 - from.y <=> lines <= fit
    BY <1>4, <1>5, Lengths
  <1>7. CASE lines <= fit
    <2>1. lines * line \in Nat
      BY <1>1, ProductIsNatural
    <2>2. /\ text.to = Move(from, lines * line) /\ text.to \in Cursors /\ NotBelow(from, text.to)
          /\ text.to.y = from.y + lines * line
      BY <1>2, <1>3, <1>7, <2>1, Moved
    <2>3. from.y + lines * line <= 776
      BY <1>4, <1>6, <1>7, <2>1
    <2>4. ASSUME at.y + lines * line <= contentBottom
          PROVE  from = at
      <3>1. line <= lines * line
        BY <1>1
      <3> QED BY <1>1, <1>2, <2>1, <2>4, <3>1, Lengths DEF Cursors
    <2> HIDE DEF fit, text
    <2> QED BY <1>2, <1>3, <2>2, <2>3, <2>4, Lengths DEF text
  <1>8. CASE ~(lines <= fit)
    <2>1. rest \in Positive
      BY <1>1, <1>6, <1>8 DEF Positive
    <2> HIDE DEF rest
    <2>2. /\ more \in Positive /\ rest - (more - 1) * each \in Nat
          /\ PAGE_MARGIN_TOP + (rest - (more - 1) * each) * line <= contentBottom
      BY <2>1, LastPage
    <2> DEFINE last == rest - (more - 1) * each
    <2>3. last * line \in Nat
      <3> HIDE DEF last
      <3> QED BY <1>1, <2>2, ProductIsNatural DEF last
    <2>4. text.to = [page |-> from.page + more, y |-> 62 + last * line]
      BY <1>3, <1>8, Lengths
    <2>5. 62 + last * line <= 776
      BY <2>2, Lengths
    <2> HIDE DEF more, last, fit
    <2>6. text.to \in Cursors /\ text.to.page > from.page /\ text.to.y <= 776
      BY <1>4, <2>2, <2>3, <2>4, <2>5, Lengths DEF Cursors, Positive
    <2>7. ~(at.y + lines * line <= contentBottom)
      <3>1. SUFFICES ASSUME at.y + lines * line <= contentBottom PROVE FALSE
        OBVIOUS
      <3>2. line <= lines * line /\ lines * line \in Nat
        BY <1>1, ProductIsNatural
      <3>3. from = at
        BY <1>1, <1>2, <3>1, <3>2, Lengths DEF Cursors
      <3> QED BY <1>4, <1>6, <1>8, <3>1, <3>2, <3>3, Lengths
    <2> QED BY <1>2, <1>3, <2>6, <2>7, Lengths DEF NotBelow
  <1> QED BY <1>7, <1>8

-----------------------------------------------------------------------------
(* What is drawn.                                                          *)

PartKinds == {"cover", "section"} \cup Kinds
Parts == [part : PartKinds, number : Nat]
Texts == [kind : {"title", "heading", "text"}, of : Parts, lines : Positive, from : Cursors, to : Cursors,
          left : {PAGE_MARGIN_X}, right : {PAGE_WIDTH - PAGE_MARGIN_X}]
Photographs == [kind : {"image"}, of : Parts, asset : Range(Images), lines : {0}, from : Cursors, to : Cursors,
                left : Nat, right : Nat]
Boxes == Texts \cup Photographs

OnPage(box) ==
    /\ box.from \in Cursors /\ box.to \in Cursors /\ NotBelow(box.from, box.to)
    /\ box.to.y <= contentBottom
    /\ box.left >= PAGE_MARGIN_X /\ box.right <= PAGE_WIDTH - PAGE_MARGIN_X

Apart(a, b) ==
    \/ Before(a, b)
    \/ a.kind = "image" /\ b.kind = "image" /\ a.right <= b.left

\* What is on the pages does not overlap, and ends above the cursor.
Laid ==
    /\ \A i \in DOMAIN drawn : OnPage(drawn[i]) /\ NotBelow(drawn[i].to, cursor)
    /\ \A i, j \in DOMAIN drawn : i < j => Apart(drawn[i], drawn[j])

LEMMA LaidDoNotOverlap == ASSUME Laid PROVE NothingOverlaps
  BY DEF Laid, NothingOverlaps, OnPage, Apart, Cursors

\* A text as an element of the document.
LEMMA TextIsBox ==
    ASSUME NEW kind \in {"title", "heading", "text"}, NEW of \in Parts, NEW at \in Cursors,
           NEW lines \in Positive, NEW line \in {BodyLine, HeadingLine, TitleLine}
    PROVE  LET text == Text(kind, of, at, lines, line) IN
           /\ text \in Texts /\ OnPage(text) /\ NotBelow(at, text.from)
           /\ text.kind = kind /\ text.of = of /\ text.lines = lines
  <1> DEFINE text == Text(kind, of, at, lines, line)
  <1>1. /\ text.kind = kind /\ text.of = of /\ text.lines = lines
        /\ text.left = PAGE_MARGIN_X /\ text.right = PAGE_WIDTH - PAGE_MARGIN_X
        /\ text = [kind |-> text.kind, of |-> text.of, lines |-> text.lines, from |-> text.from,
                   to |-> text.to, left |-> text.left, right |-> text.right]
    BY DEF Text
  <1>2. /\ text.from \in Cursors /\ text.to \in Cursors /\ text.to.y <= contentBottom
        /\ NotBelow(at, text.from) /\ NotBelow(text.from, text.to)
    BY TextOnPages
  <1> HIDE DEF text
  <1>3. text \in Texts
    BY <1>1, <1>2 DEF Texts
  <1> QED BY <1>1, <1>2, <1>3, Lengths DEF OnPage, text

\* More is drawn, at the cursor or below it.
Draws(more) ==
    /\ drawn' = drawn \o more
    /\ \A k \in DOMAIN more : /\ OnPage(more[k])
                              /\ NotBelow(cursor, more[k].from) /\ NotBelow(more[k].to, cursor')
    /\ \A k, m \in DOMAIN more : k < m => Apart(more[k], more[m])

LEMMA Concatenated ==
    ASSUME NEW S, NEW s \in Seq(S), NEW t \in Seq(S)
    PROVE  /\ s \o t \in Seq(S) /\ Len(s \o t) = Len(s) + Len(t)
           /\ DOMAIN s = 1 .. Len(s) /\ DOMAIN t = 1 .. Len(t) /\ DOMAIN (s \o t) = 1 .. (Len(s) + Len(t))
           /\ Len(s) \in Nat /\ Len(t) \in Nat
           /\ \A i \in DOMAIN s : (s \o t)[i] = s[i]
           /\ \A k \in DOMAIN t : Len(s) + k \in DOMAIN (s \o t) /\ (s \o t)[Len(s) + k] = t[k]
           /\ \A i \in DOMAIN (s \o t) : i \in DOMAIN s \/ \E k \in DOMAIN t : i = Len(s) + k
  <1>1. /\ s \o t \in Seq(S) /\ Len(s \o t) = Len(s) + Len(t) /\ Len(s) \in Nat /\ Len(t) \in Nat
        /\ DOMAIN s = 1 .. Len(s) /\ DOMAIN t = 1 .. Len(t) /\ DOMAIN (s \o t) = 1 .. (Len(s) + Len(t))
    BY ConcatProperties
  <1>2. \A i \in 1 .. (Len(s) + Len(t)) : (s \o t)[i] = IF i <= Len(s) THEN s[i] ELSE t[i - Len(s)]
    BY ConcatProperties
  <1>3. \A k \in 1 .. Len(t) : Len(s) + k \in 1 .. (Len(s) + Len(t)) /\ (s \o t)[Len(s) + k] = t[k]
    <2> TAKE k \in 1 .. Len(t)
    <2>1. Len(s) + k \in 1 .. (Len(s) + Len(t)) /\ ~(Len(s) + k <= Len(s)) /\ (Len(s) + k) - Len(s) = k
      BY <1>1
    <2> QED BY <1>2, <2>1
  <1>4. \A i \in 1 .. (Len(s) + Len(t)) : i \in 1 .. Len(s) \/ \E k \in 1 .. Len(t) : i = Len(s) + k
    <2> TAKE i \in 1 .. (Len(s) + Len(t))
    <2>1. CASE i <= Len(s)
      BY <1>1, <2>1
    <2>2. CASE ~(i <= Len(s))
      <3>1. i - Len(s) \in 1 .. Len(t) /\ i = Len(s) + (i - Len(s))
        BY <1>1, <2>2
      <3> QED BY <3>1
    <2> QED BY <2>1, <2>2
  <1>5. \A i \in 1 .. Len(s) : (s \o t)[i] = s[i]
    BY <1>1, <1>2
  <1> QED BY <1>1, <1>3, <1>4, <1>5

LEMMA LaidMore ==
    ASSUME drawn \in Seq(Boxes), cursor \in Cursors, cursor' \in Cursors, NotBelow(cursor, cursor'),
           Laid, NEW more \in Seq(Boxes), Draws(more)
    PROVE  Laid'
  <1> DEFINE n == Len(drawn)
  <1>1. /\ drawn' = drawn \o more
        /\ \A i \in DOMAIN drawn : drawn'[i] = drawn[i]
        /\ \A k \in DOMAIN more : drawn'[n + k] = more[k]
        /\ \A i \in DOMAIN drawn' : i \in DOMAIN drawn \/ \E k \in DOMAIN more : i = n + k
        /\ n \in Nat /\ DOMAIN drawn = 1 .. n /\ DOMAIN more = 1 .. Len(more) /\ Len(more) \in Nat
    BY Concatenated DEF Draws
  <1> HIDE DEF n
  <1>2. \A i \in DOMAIN drawn : OnPage(drawn[i]) /\ NotBelow(drawn[i].to, cursor')
    BY NotBelowTransitive DEF Laid, OnPage
  <1>3. \A i \in DOMAIN drawn' : OnPage(drawn'[i]) /\ NotBelow(drawn'[i].to, cursor')
    BY <1>1, <1>2 DEF Draws
  <1>4. ASSUME NEW i \in DOMAIN drawn, NEW k \in DOMAIN more
        PROVE  Before(drawn[i], more[k])
    <2>1. NotBelow(drawn[i].to, more[k].from)
      BY NotBelowTransitive DEF Laid, OnPage, Draws
    <2> QED BY <2>1 DEF NotBelow, Before
  <1>5. ASSUME NEW i \in DOMAIN drawn', NEW j \in DOMAIN drawn', i < j
        PROVE  Apart(drawn'[i], drawn'[j])
    <2>1. CASE i \in DOMAIN drawn /\ j \in DOMAIN drawn
      BY <1>1, <1>5, <2>1 DEF Laid
    <2>2. ASSUME i \in DOMAIN drawn, NEW k \in DOMAIN more, j = n + k
          PROVE  Apart(drawn'[i], drawn'[j])
      BY <1>1, <1>4, <2>2 DEF Apart
    <2>3. ASSUME NEW k \in DOMAIN more, i = n + k, NEW m \in DOMAIN more, j = n + m
          PROVE  Apart(drawn'[i], drawn'[j])
      <3>1. k < m
        BY <1>1, <1>5, <2>3
      <3> QED BY <1>1, <2>3, <3>1 DEF Draws
    <2>4. ~(\E k \in DOMAIN more : i = n + k /\ j \in DOMAIN drawn)
      BY <1>1, <1>5
    <2> QED BY <1>1, <2>1, <2>2, <2>3, <2>4
  <1>6. (\A i \in DOMAIN drawn' : OnPage(drawn'[i]) /\ NotBelow(drawn'[i].to, cursor'))
        /\ (\A i, j \in DOMAIN drawn' : i < j => Apart(drawn'[i], drawn'[j]))
    BY <1>3, <1>5
  <1> QED BY <1>6 DEF Laid, OnPage, Apart, Before, NotBelow

-----------------------------------------------------------------------------
(* Lists without repetition.                                               *)

\* A set of numbers up to a bound has a least element, as the sets of the
\* numbers below its elements have a smallest one.
LEMMA LeastNumber ==
    ASSUME NEW top \in Nat, NEW S \in SUBSET (0 .. top), S # {}
    PROVE  \E m \in S : \A k \in S : m <= k
  <1> DEFINE T == {0 .. m : m \in S}
  <1>1. IsFiniteSet(0 .. top)
    BY FS_Interval
  <1>2. IsWellFoundedOn(StrictSubsetOrdering(0 .. top), SUBSET (0 .. top))
    BY <1>1, FS_StrictSubsetOrderingWellFounded, FS_FiniteSubsetsOfFinite
  <1>3. T \subseteq SUBSET (0 .. top) /\ T # {}
    <2>1. \A m \in 0 .. top : 0 .. m \subseteq 0 .. top
      OBVIOUS
    <2> QED BY <2>1
  <1> HIDE DEF T
  <1>4. PICK t \in T : \A s \in T : <<s, t>> \notin StrictSubsetOrdering(0 .. top)
    BY <1>2, <1>3, WFMin
  <1>5. PICK m \in S : t = 0 .. m
    BY DEF T
  <1>6. ASSUME NEW k \in S, k < m PROVE FALSE
    <2>1. 0 .. k \in T /\ 0 .. k \subseteq 0 .. m /\ m \in 0 .. m /\ m \notin 0 .. k
      BY <1>6 DEF T
    <2>2. <<0 .. k, 0 .. m>> \in StrictSubsetOrdering(0 .. top)
      BY <1>3, <1>5, <2>1 DEF StrictSubsetOrdering
    <2> QED BY <1>4, <1>5, <2>1, <2>2
  <1> QED BY <1>6

\* f gives for each n what Fresh keeps of the first n members.
Keeps(f, ids, set) ==
    f = [n \in 0 .. Len(ids) |->
            IF n = 0 THEN << >>
            ELSE IF ids[n] \in set \ Range(f[n - 1]) THEN Append(f[n - 1], ids[n])
            ELSE f[n - 1]]

LEMMA FreshOfKept == \A ids, set : Fresh(ids, set) = (CHOOSE f : Keeps(f, ids, set))[Len(ids)]
  BY DEF Fresh, Keeps

\* A list of members of set without repetition, of just those among the first n of ids.
Distills(list, ids, n, set, T) ==
    /\ list \in Seq(T)
    /\ Range(list) = {ids[k] : k \in 1 .. n} \cap set
    /\ IsInjective(list)

LEMMA RangeOfAppend ==
    ASSUME NEW T, NEW list \in Seq(T), NEW x \in T
    PROVE  /\ Append(list, x) \in Seq(T) /\ Range(Append(list, x)) = Range(list) \cup {x}
           /\ IsInjective(list) /\ x \notin Range(list) => IsInjective(Append(list, x))
  <1>1. /\ Append(list, x) \in Seq(T) /\ Len(list) \in Nat
        /\ DOMAIN list = 1 .. Len(list) /\ DOMAIN Append(list, x) = 1 .. (Len(list) + 1)
        /\ \A i \in 1 .. Len(list) : Append(list, x)[i] = list[i]
        /\ Append(list, x)[Len(list) + 1] = x
    BY AppendProperties
  <1>2. \A i \in 1 .. (Len(list) + 1) : i \in 1 .. Len(list) \/ i = Len(list) + 1
    BY <1>1
  <1>3. 1 .. Len(list) \subseteq 1 .. (Len(list) + 1) /\ Len(list) + 1 \in 1 .. (Len(list) + 1)
    BY <1>1
  <1>4. Range(Append(list, x)) = Range(list) \cup {x}
    BY <1>1, <1>2, <1>3 DEF Range
  <1>5. ASSUME IsInjective(list), x \notin Range(list)
        PROVE  IsInjective(Append(list, x))
    BY <1>1, <1>2, <1>5 DEF IsInjective, Range
  <1> QED BY <1>1, <1>4, <1>5

LEMMA Distilled ==
    ASSUME NEW T, NEW ids \in Seq(T), NEW set, NEW n \in 1 .. Len(ids), NEW list,
           Distills(list, ids, n - 1, set, T)
    PROVE  Distills(IF ids[n] \in set \ Range(list) THEN Append(list, ids[n]) ELSE list, ids, n, set, T)
  <1>1. {ids[k] : k \in 1 .. n} = {ids[k] : k \in 1 .. (n - 1)} \cup {ids[n]}
    <2>1. \A k : k \in 1 .. n <=> k \in 1 .. (n - 1) \/ k = n
      OBVIOUS
    <2> QED BY <2>1
  <1>2. ids[n] \in T
    OBVIOUS
  <1>3. CASE ids[n] \in set \ Range(list)
    BY <1>1, <1>2, <1>3, RangeOfAppend DEF Distills
  <1>4. CASE ids[n] \notin set \ Range(list)
    BY <1>1, <1>4 DEF Distills
  <1> QED BY <1>3, <1>4

LEMMA DistilledNothing ==
    ASSUME NEW T, NEW ids, NEW set
    PROVE  Distills(<< >>, ids, 0, set, T)
  <1>1. 1 .. 0 = {} /\ << >> \in Seq(T) /\ DOMAIN << >> = {}
    OBVIOUS
  <1> QED BY <1>1 DEF Distills, Range, IsInjective

\* f distills every beginning of ids, up to the first m.
KeepsTo(f, m, ids, set, T) ==
    /\ f[0] = << >>
    /\ \A n \in 1 .. m :
          f[n] = IF ids[n] \in set \ Range(f[n - 1]) THEN Append(f[n - 1], ids[n]) ELSE f[n - 1]
    /\ \A n \in 0 .. m : Distills(f[n], ids, n, set, T)

\* Such a function exists for every m: for the least m for which it did not,
\* the function for m - 1 can be continued.
LEMMA KeepingExists ==
    ASSUME NEW T, NEW ids \in Seq(T), NEW set
    PROVE  \E f : KeepsTo(f, Len(ids), ids, set, T)
  <1> DEFINE Bad == {m \in 0 .. Len(ids) : ~\E f : KeepsTo(f, m, ids, set, T)}
  <1> SUFFICES ASSUME Bad # {} PROVE FALSE
    <2>1. Len(ids) \in 0 .. Len(ids)
      OBVIOUS
    <2> QED BY <2>1
  <1>1. Bad \in SUBSET (0 .. Len(ids)) /\ Len(ids) \in Nat
    OBVIOUS
  <1>2. PICK m \in Bad : \A k \in Bad : m <= k
    <2> HIDE DEF Bad
    <2> QED BY <1>1, LeastNumber
  <1>3. m # 0
    <2> SUFFICES ASSUME m = 0 PROVE FALSE
      OBVIOUS
    <2> DEFINE f == [n \in {0} |-> << >>]
    <2>1. 1 .. 0 = {} /\ 0 .. 0 = {0} /\ f[0] = << >>
      OBVIOUS
    <2> HIDE DEF f
    <2>2. KeepsTo(f, 0, ids, set, T)
      BY <2>1, DistilledNothing DEF KeepsTo
    <2> QED BY <2>2
  <1>4. m \in 1 .. Len(ids) /\ m - 1 \in 0 .. Len(ids) /\ m - 1 < m
    BY <1>3
  <1>5. PICK f : KeepsTo(f, m - 1, ids, set, T)
    BY <1>2, <1>4
  <1> DEFINE next == IF ids[m] \in set \ Range(f[m - 1]) THEN Append(f[m - 1], ids[m]) ELSE f[m - 1]
             g == [n \in 0 .. m |-> IF n = m THEN next ELSE f[n]]
  <1>6. Distills(next, ids, m, set, T)
    <2>1. Distills(f[m - 1], ids, m - 1, set, T)
      BY <1>4, <1>5 DEF KeepsTo
    <2> QED BY <1>4, <2>1, Distilled
  <1>7. g[m] = next /\ \A n \in 0 .. (m - 1) : g[n] = f[n]
    BY <1>4
  <1> HIDE DEF g
  <1>8. \A n \in 1 .. m :
            g[n] = IF ids[n] \in set \ Range(g[n - 1]) THEN Append(g[n - 1], ids[n]) ELSE g[n - 1]
    <2> TAKE n \in 1 .. m
    <2>1. n - 1 \in 0 .. (m - 1)
      BY <1>4
    <2>2. CASE n = m
      BY <1>7, <2>1, <2>2
    <2>3. CASE n # m
      <3>1. n \in 1 .. (m - 1) /\ n \in 0 .. (m - 1)
        BY <1>4, <2>3
      <3> QED BY <1>5, <1>7, <2>1, <3>1 DEF KeepsTo
    <2> QED BY <2>2, <2>3
  <1>9. \A n \in 0 .. m : Distills(g[n], ids, n, set, T)
    <2> TAKE n \in 0 .. m
    <2>1. CASE n = m
      BY <1>6, <1>7, <2>1
    <2>2. CASE n # m
      <3>1. n \in 0 .. (m - 1)
        BY <1>4, <2>2
      <3> QED BY <1>5, <1>7, <3>1 DEF KeepsTo
    <2> QED BY <2>1, <2>2
  <1>10. g[0] = << >>
    <2>1. 0 \in 0 .. (m - 1)
      BY <1>4
    <2> QED BY <1>5, <1>7, <2>1 DEF KeepsTo
  <1>11. KeepsTo(g, m, ids, set, T)
    BY <1>8, <1>9, <1>10 DEF KeepsTo
  <1> QED BY <1>11

\* Two functions that keep the same can only differ from a least n on.
LEMMA FreshDistills ==
    ASSUME NEW T, NEW ids \in Seq(T), NEW set
    PROVE  /\ Fresh(ids, set) \in Seq(T)
           /\ Range(Fresh(ids, set)) = Range(ids) \cap set
           /\ IsInjective(Fresh(ids, set))
  <1>1. PICK g : KeepsTo(g, Len(ids), ids, set, T)
    BY KeepingExists
  <1> DEFINE h == [n \in 0 .. Len(ids) |-> g[n]]
             f == CHOOSE k : Keeps(k, ids, set)
  <1>2. Len(ids) \in Nat /\ \A n \in 0 .. Len(ids) : n # 0 => n \in 1 .. Len(ids) /\ n - 1 \in 0 .. Len(ids)
    OBVIOUS
  <1>3. Keeps(h, ids, set)
    <2>1. \A n \in 0 .. Len(ids) :
            g[n] = IF n = 0 THEN << >>
                   ELSE IF ids[n] \in set \ Range(h[n - 1]) THEN Append(h[n - 1], ids[n])
                   ELSE h[n - 1]
      BY <1>1, <1>2 DEF KeepsTo
    <2> QED BY <2>1 DEF Keeps
  <1>4. Keeps(f, ids, set)
    BY <1>3
  <1> HIDE DEF f, h
  <1>5. \A n \in 0 .. Len(ids) : Distills(f[n], ids, n, set, T)
    <2> DEFINE Bad == {n \in 0 .. Len(ids) : ~Distills(f[n], ids, n, set, T)}
    <2> SUFFICES ASSUME Bad # {} PROVE FALSE
      OBVIOUS
    <2>1. Bad \in SUBSET (0 .. Len(ids)) /\ Len(ids) \in Nat
      OBVIOUS
    <2>2. PICK n \in Bad : \A k \in Bad : n <= k
      <3> HIDE DEF Bad
      <3> QED BY <2>1, LeastNumber
    <2>3. f[n] = IF n = 0 THEN << >>
                 ELSE IF ids[n] \in set \ Range(f[n - 1]) THEN Append(f[n - 1], ids[n])
                 ELSE f[n - 1]
      BY <1>4 DEF Keeps
    <2>4. n # 0
      BY <2>3, DistilledNothing
    <2>5. n \in 1 .. Len(ids) /\ n - 1 \in 0 .. Len(ids) /\ n - 1 < n
      BY <2>4
    <2>6. Distills(f[n - 1], ids, n - 1, set, T)
      BY <2>2, <2>5
    <2> QED BY <2>3, <2>4, <2>5, <2>6, Distilled
  <1>6. Distills(Fresh(ids, set), ids, Len(ids), set, T)
    <2>1. Fresh(ids, set) = f[Len(ids)]
      BY FreshOfKept DEF f
    <2>2. Distills(f[Len(ids)], ids, Len(ids), set, T)
      BY <1>2, <1>5
    <2> QED BY <2>1, <2>2
  <1>7. {ids[k] : k \in 1 .. Len(ids)} = Range(ids)
    BY DEF Range
  <1> QED BY <1>6, <1>7 DEF Distills

-----------------------------------------------------------------------------
(* The invariant.                                                          *)

Lines == [first : Positive, lines : Positive]

Types ==
    /\ answer \in [sections : Seq(Sections), closing : Closings]
    /\ section \in Positive /\ blocks \in Seq(Lines)
    /\ gallery \in Seq(Range(Images)) /\ columns \in {1, 2}
    /\ cursor \in Cursors /\ drawn \in Seq(Boxes)

\* What the steps before the document have left.
Prepared ==
    /\ phase \in {"map", "load", "cover"} => drawn = << >>
    /\ phase \notin {"map", "failed"} => ~UnknownAlias /\ result = mapImageAliases
    /\ phase \notin {"map", "load", "failed"} => loaded = Range(Images) \cap Referenced
    /\ phase \in {"blocks", "rows"} => section \in Rendered

\* A heading that is still without its text has room for it.
OneLine(box) == box.kind = "heading" /\ box.lines = 1
Room(at, first) == at.y + TextGap + BodyLine * Min({first, 4}) <= contentBottom
Leads ==
    drawn # << >> /\ OneLine(drawn[Len(drawn)]) =>
        /\ phase = "blocks" /\ blocks = answer.sections[section].blocks
        /\ cursor.page = drawn[Len(drawn)].from.page
        /\ Room(cursor, blocks[1].first)

\* What a text has under its heading.
Follows(text, heading) ==
    LET first == CASE text.of.part = "section" -> answer.sections[text.of.number].blocks[1].first
                   [] text.of.part = "recommendations" -> 1
                   [] OTHER -> text.lines
    IN  /\ text.from.page = heading.from.page
        /\ text.from.y + BodyLine * Min({first, 4}) <= contentBottom

\* The images that the first k - 1 sections show.
Earlier(k) == UNION {Asked(j) : j \in Rendered \cap 1 .. (k - 1)}
AssetsOf(i) == {drawn[n].asset : n \in Pictures(i)}
DrawnOnce(i) == \A n, m \in Pictures(i) : drawn[n].asset = drawn[m].asset => n = m

Begun == phase \notin {"map", "load", "failed"}
Early == {"map", "load", "cover", "summary"}
Late == {"conclusion", "recommendations", "finish", "done"}
\* The sections whose images have been given to a gallery.
Behind == Rendered \cap 1 .. (IF phase = "rows" THEN section ELSE section - 1)

Shown ==
    /\ phase \in Early => section = 1 /\ rendered = {}
    /\ Begun =>
        /\ section \in 1 .. (Len(answer.sections) + 1)
        /\ rendered = UNION {Asked(j) : j \in Behind}
        /\ \A n \in DOMAIN drawn : drawn[n].kind = "image" =>
              drawn[n].of.number < section \/ (phase = "rows" /\ drawn[n].of.number = section)
        /\ \A i \in Rendered : i < section => AssetsOf(i) = Asked(i) \ Earlier(i) /\ DrawnOnce(i)
        /\ \A i \in Rendered : i = section /\ phase = "rows" =>
              /\ AssetsOf(i) \cup Range(gallery) = Asked(i) \ Earlier(i)
              /\ AssetsOf(i) \cap Range(gallery) = {}
              /\ DrawnOnce(i) /\ IsInjective(gallery)
    /\ phase \in Late => section = Len(answer.sections) + 1

IInv == Types /\ Prepared /\ Laid /\ HeadingsKeepTheirText /\ Leads /\ Shown

LEMMA SectionsTyped ==
    ASSUME Types, NEW i \in DOMAIN answer.sections
    PROVE  LET s == answer.sections[i] IN
           /\ s \in Sections /\ s.titleLines \in Positive
           /\ s.blocks \in Seq(Lines) /\ s.blocks # << >> /\ s.blocks[1] \in Lines
           /\ s.refs \in Seq(Positive)
           /\ i \in Positive
  <1>1. answer.sections \in Seq(Sections)
    BY DEF Types
  <1>2. answer.sections[i] \in Sections /\ i \in Positive
    BY <1>1 DEF Positive
  <1>3. /\ answer.sections[i].titleLines \in Positive
        /\ answer.sections[i].blocks \in Seq(Lines) /\ answer.sections[i].blocks # << >>
        /\ answer.sections[i].refs \in Seq(Positive)
    BY <1>2, RenderingConstants DEF Lines
  <1>4. answer.sections[i].blocks[1] \in Lines
    <2>1. \A blks \in Seq(Lines) : blks # << >> => blks[1] \in Lines
      OBVIOUS
    <2> QED BY <1>3, <2>1
  <1> QED BY <1>2, <1>3, <1>4

LEMMA ClosingTyped ==
    ASSUME Types
    PROVE  /\ answer.closing.summary \in Positive /\ answer.closing.conclusion \in Nat
           /\ answer.closing.recommendations \in Nat
  BY RenderingConstants DEF Types

LEMMA PartsTyped ==
    /\ \A kind \in PartKinds : Part(kind) \in Parts
    /\ Types => ThisSection \in Parts
  <1>1. \A kind \in PartKinds : Part(kind) \in Parts
    BY DEF Part, Parts
  <1>2. ASSUME Types PROVE ThisSection \in Parts
    <2>1. section \in Nat
      BY <1>2 DEF Types, Positive
    <2> QED BY <2>1 DEF ThisSection, Parts, PartKinds
  <1> QED BY <1>1, <1>2

-----------------------------------------------------------------------------
(* Headings.                                                               *)

\* A heading is drawn below the cursor, and if it has one line it leaves room
\* for what ensureSectionSpace has asked for.
LEMMA HeadingWithRoom ==
    ASSUME NEW at \in Cursors, NEW first \in Positive, NEW of \in Parts, NEW lines \in Positive
    PROVE  LET heading == Heading(of, ensureSectionSpace(at, first), lines)
               below == Below(heading)
           IN  /\ heading \in Texts /\ heading.kind = "heading" /\ heading.of = of /\ heading.lines = lines
               /\ OnPage(heading) /\ NotBelow(at, heading.from)
               /\ below \in Cursors /\ NotBelow(heading.to, below)
               /\ lines = 1 => below.page = heading.from.page /\ Room(below, first)
  <1> DEFINE m == Min({first * BodyLine, 68})
             from == ensureSectionSpace(at, first)
             above == Move(from, HeadingGap)
             heading == Heading(of, from, lines)
             below == Below(heading)
  <1>1. first \in Nat /\ first > 0 /\ first * BodyLine \in Nat /\ first * BodyLine = first * 17
    BY Lengths DEF Positive
  <1>2. m \in Nat /\ m <= 68 /\ m <= first * 17 /\ m \in {first * 17, 68}
    BY <1>1, MinOfTwo
  <1>3. from = EnsureSpace(at, 66 + m)
    BY DEF ensureSectionSpace
  <1> HIDE DEF m
  <1>4. from \in Cursors /\ NotBelow(at, from) /\ from.y + 66 + m <= 776
    <2>1. 66 + m \in Nat /\ 66 + m <= contentBottom - PAGE_MARGIN_TOP
      BY <1>2, Lengths
    <2>2. from \in Cursors /\ NotBelow(at, from) /\ from.y + (66 + m) <= contentBottom
      BY <1>3, <2>1, Ensured
    <2> HIDE DEF from
    <2>3. from.y \in Nat
      BY <2>2 DEF Cursors
    <2> QED BY <1>2, <2>2, <2>3, Lengths
  <1> HIDE DEF from
  <1>5. /\ above \in Cursors /\ NotBelow(from, above) /\ above.page = from.page
        /\ above.y = from.y + 16 /\ from.y \in Nat
    BY <1>4, Moved DEF HeadingGap, Cursors
  <1>6. NotBelow(at, above)
    BY <1>4, <1>5, NotBelowTransitive
  <1> HIDE DEF above
  <1>7. heading = Text("heading", of, above, lines, HeadingLine)
    BY DEF Heading, above
  <1>8. /\ heading \in Texts /\ heading.kind = "heading" /\ heading.of = of /\ heading.lines = lines
        /\ OnPage(heading) /\ NotBelow(above, heading.from)
    BY <1>5, <1>7, TextIsBox
  <1>9. /\ above.y + 23 <= contentBottom => heading.from = above
        /\ above.y + lines * 23 <= contentBottom => heading.to = Move(above, lines * 23)
    BY <1>5, <1>7, TextOnPages, Lengths
  <1> HIDE DEF heading
  <1>10. NotBelow(at, heading.from)
    BY <1>5, <1>6, <1>8, NotBelowTransitive DEF OnPage
  <1>11. below \in Cursors /\ NotBelow(heading.to, below) /\ below.page = heading.to.page /\ below.y = heading.to.y + 9
    BY <1>8, Moved DEF Below, OnPage
  <1> HIDE DEF below
  <1>12. ASSUME lines = 1
         PROVE  below.page = heading.from.page /\ Room(below, first)
    <2>1. above.y + 23 <= 776 /\ lines * 23 = 23
      BY <1>2, <1>4, <1>5, <1>12
    <2>2. heading.from = above /\ heading.to = Move(above, 23)
      BY <1>9, <2>1, Lengths
    <2>3. heading.to.page = above.page /\ heading.to.y = above.y + 23
      <3>1. Move(above, 23).page = above.page /\ Move(above, 23).y = above.y + 23
        BY <1>5, Moved
      <3> QED BY <2>2, <3>1
    <2>4. below.y + TextGap = from.y + 59
      BY <1>5, <1>11, <2>3 DEF TextGap
    <2> DEFINE four == Min({first, 4})
    <2>5. four \in Nat /\ four <= first /\ four <= 4
      BY <1>1, MinOfTwo
    <2> HIDE DEF four
    <2>6. 17 * four <= m
      BY <1>1, <1>2, <2>5
    <2>7. from.y + 59 + 17 * four <= 776
      BY <1>2, <1>4, <1>5, <2>5, <2>6
    <2>8. below.y + TextGap + BodyLine * four <= contentBottom
      BY <2>4, <2>7, Lengths
    <2> QED BY <1>11, <2>2, <2>3, <2>8 DEF Room, four
  <1> QED BY <1>8, <1>10, <1>11, <1>12 DEF below, heading, from

\* A text for which there is room stays on the page.
LEMMA TextWithRoom ==
    ASSUME NEW at \in Cursors, NEW first \in Positive, NEW of \in Parts, NEW lines \in Positive
    PROVE  LET text == Text("text", of, Move(at, TextGap), lines, BodyLine) IN
           /\ text \in Texts /\ text.kind = "text" /\ text.of = of /\ text.lines = lines
           /\ OnPage(text) /\ NotBelow(at, text.from)
           /\ Room(at, first) => /\ text.from.page = at.page
                                 /\ text.from.y + BodyLine * Min({first, 4}) <= contentBottom
  <1> DEFINE above == Move(at, TextGap)
             text == Text("text", of, above, lines, BodyLine)
             four == Min({first, 4})
  <1>1. above \in Cursors /\ NotBelow(at, above) /\ above.page = at.page /\ above.y = at.y + TextGap
    BY Moved DEF TextGap
  <1>2. four \in Nat /\ four >= 1
    BY MinOfTwo DEF Positive
  <1> HIDE DEF above, four
  <1>3. /\ text \in Texts /\ text.kind = "text" /\ text.of = of /\ text.lines = lines
        /\ OnPage(text) /\ NotBelow(above, text.from)
    BY <1>1, TextIsBox
  <1>4. above.y + BodyLine <= contentBottom => text.from = above
    BY <1>1, TextOnPages
  <1> HIDE DEF text
  <1>5. NotBelow(at, text.from)
    BY <1>1, <1>3, NotBelowTransitive DEF OnPage
  <1>6. ASSUME Room(at, first)
        PROVE  text.from.page = at.page /\ text.from.y + BodyLine * four <= contentBottom
    <2>1. at.y + TextGap + BodyLine * four <= contentBottom
      BY <1>6 DEF Room, four
    <2>2. above.y + 17 * four <= 776 /\ above.y + 17 <= 776
      BY <1>1, <1>2, <2>1, Lengths DEF TextGap, Cursors
    <2> QED BY <1>1, <1>4, <2>2, Lengths
  <1> QED BY <1>3, <1>5, <1>6 DEF text, above, four

\* Where no heading waits for its text, or the text follows now.
LEMMA HeadingsKept ==
    ASSUME drawn \in Seq(Boxes), HeadingsKeepTheirText, answer' = answer,
           NEW more \in Seq(Boxes), drawn' = drawn \o more,
           drawn # << >> /\ OneLine(drawn[Len(drawn)]) /\ more # << >> => Follows(more[1], drawn[Len(drawn)]),
           \A k \in DOMAIN more : OneLine(more[k]) /\ k < Len(more) => Follows(more[k + 1], more[k])
    PROVE  HeadingsKeepTheirText'
  <1> DEFINE n == Len(drawn)
  <1>1. /\ drawn' = drawn \o more
        /\ \A i \in DOMAIN drawn : drawn'[i] = drawn[i]
        /\ \A k \in DOMAIN more : drawn'[n + k] = more[k]
        /\ \A i \in DOMAIN drawn' : i \in DOMAIN drawn \/ \E k \in DOMAIN more : i = n + k
        /\ n \in Nat /\ DOMAIN drawn = 1 .. n /\ DOMAIN more = 1 .. Len(more) /\ Len(more) \in Nat
        /\ Len(drawn') = n + Len(more)
    BY Concatenated
  <1>2. \A i \in DOMAIN drawn : OneLine(drawn[i]) /\ i < n => Follows(drawn[i + 1], drawn[i])
    BY DEF HeadingsKeepTheirText, Follows, OneLine
  <1>3. drawn = << >> <=> n = 0
    OBVIOUS
  <1>4. more = << >> <=> Len(more) = 0
    OBVIOUS
  <1>5. ASSUME NEW i \in DOMAIN drawn', OneLine(drawn'[i]), i < Len(drawn')
        PROVE  Follows(drawn'[i + 1], drawn'[i])
    <2>1. CASE i \in DOMAIN drawn /\ i < n
      <3>1. i + 1 \in DOMAIN drawn
        BY <1>1, <2>1
      <3> HIDE DEF n
      <3> QED BY <1>1, <1>2, <1>5, <2>1, <3>1
    <2>2. CASE i \in DOMAIN drawn /\ ~(i < n)
      <3>1. i = n /\ n # 0 /\ 1 \in DOMAIN more /\ more # << >> /\ drawn # << >>
        BY <1>1, <1>3, <1>4, <1>5, <2>2
      <3>2. drawn'[n + 1] = more[1] /\ drawn'[i] = drawn[n]
        BY <1>1, <2>2, <3>1
      <3> QED BY <1>5, <3>1, <3>2
    <2>3. ASSUME NEW k \in DOMAIN more, i = n + k
          PROVE  Follows(drawn'[i + 1], drawn'[i])
      <3>1. k < Len(more) /\ k + 1 \in DOMAIN more /\ i + 1 = n + (k + 1)
        <4>1. /\ n \in Nat /\ Len(more) \in Nat /\ k \in 1 .. Len(more) /\ n + k < n + Len(more)
              /\ DOMAIN more = 1 .. Len(more) /\ i = n + k
          BY <1>1, <1>5, <2>3
        <4> HIDE DEF n
        <4>2. k < Len(more) /\ k + 1 \in 1 .. Len(more) /\ i + 1 = n + (k + 1)
          BY <4>1
        <4> QED BY <4>1, <4>2
      <3>2. drawn'[i] = more[k] /\ drawn'[i + 1] = more[k + 1]
        <4> HIDE DEF n
        <4> QED BY <1>1, <2>3, <3>1
      <3> QED BY <1>5, <3>1, <3>2
    <2> QED BY <1>1, <2>1, <2>2, <2>3
  <1> QED BY <1>5 DEF HeadingsKeepTheirText, Follows, OneLine

-----------------------------------------------------------------------------
(* Drawing texts.                                                          *)

Advances(more) == more \in Seq(Boxes) /\ cursor' \in Cursors /\ NotBelow(cursor, cursor') /\ Draws(more)

\* No image is drawn.
SamePictures ==
    \A n : /\ n \in DOMAIN drawn' /\ drawn'[n].kind = "image" <=> n \in DOMAIN drawn /\ drawn[n].kind = "image"
           /\ n \in DOMAIN drawn => n \in DOMAIN drawn' /\ drawn'[n] = drawn[n]

\* No heading waits for its text.
Settled == ~(drawn # << >> /\ OneLine(drawn[Len(drawn)]))

LEMMA AdvancesTyped ==
    ASSUME Types, Laid, NEW more, Advances(more)
    PROVE  Laid' /\ drawn' \in Seq(Boxes)
  <1>1. drawn' \in Seq(Boxes)
    BY Concatenated DEF Types, Advances, Draws
  <1> QED BY <1>1, LaidMore DEF Types, Advances

LEMMA OneText ==
    ASSUME NEW text \in Texts, OnPage(text), NotBelow(cursor, text.from), NotBelow(text.to, cursor'),
           cursor \in Cursors, cursor' \in Cursors, drawn' = drawn \o <<text>>
    PROVE  Advances(<<text>>)
  <1>1. <<text>> \in Seq(Boxes) /\ DOMAIN <<text>> = {1} /\ <<text>>[1] = text
    BY DEF Boxes
  <1>2. NotBelow(cursor, cursor')
    BY NotBelowTransitive DEF OnPage
  <1>3. Draws(<<text>>)
    BY <1>1 DEF Draws
  <1> QED BY <1>1, <1>2, <1>3 DEF Advances

LEMMA TwoTexts ==
    ASSUME NEW above \in Texts, OnPage(above), NotBelow(cursor, above.from),
           NEW below \in Texts, OnPage(below), NotBelow(above.to, below.from), NotBelow(below.to, cursor'),
           cursor \in Cursors, cursor' \in Cursors, drawn' = drawn \o <<above, below>>
    PROVE  Advances(<<above, below>>)
  <1> DEFINE more == <<above, below>>
  <1>1. more \in Seq(Boxes) /\ DOMAIN more = {1, 2} /\ more[1] = above /\ more[2] = below
    BY DEF Boxes
  <1>2. /\ NotBelow(cursor, below.from) /\ NotBelow(above.to, cursor') /\ NotBelow(cursor, cursor')
    BY NotBelowTransitive DEF OnPage
  <1>3. Before(above, below)
    BY DEF NotBelow, Before
  <1> HIDE DEF more
  <1>4. Draws(more)
    <2>1. \A k \in DOMAIN more : /\ OnPage(more[k])
                                 /\ NotBelow(cursor, more[k].from) /\ NotBelow(more[k].to, cursor')
      BY <1>1, <1>2
    <2>2. \A k, m \in DOMAIN more : k < m => Apart(more[k], more[m])
      <3>1. \A k, m \in {1, 2} : k < m => k = 1 /\ m = 2
        OBVIOUS
      <3> QED BY <1>1, <1>3, <3>1 DEF Apart
    <2> QED BY <2>1, <2>2 DEF Draws, more
  <1> QED BY <1>1, <1>2, <1>4 DEF Advances, more

\* What a step does that draws texts, the last of which is one under a heading.
LEMMA TextsDrawn ==
    ASSUME Types, Laid, HeadingsKeepTheirText, answer' = answer,
           NEW more \in Seq(Texts), more # << >>, Advances(more),
           Settled \/ Follows(more[1], drawn[Len(drawn)]),
           \A k \in DOMAIN more : OneLine(more[k]) /\ k < Len(more) => Follows(more[k + 1], more[k])
    PROVE  /\ drawn' \in Seq(Boxes) /\ Laid' /\ HeadingsKeepTheirText' /\ SamePictures
           /\ drawn' # << >> /\ drawn'[Len(drawn')] = more[Len(more)]
  <1>1. drawn \in Seq(Boxes) /\ more \in Seq(Boxes) /\ drawn' = drawn \o more
    BY DEF Types, Advances, Draws
  <1>2. HeadingsKeepTheirText'
    BY <1>1, HeadingsKept DEF Settled
  <1> DEFINE n == Len(drawn)
  <1>3. /\ \A i \in DOMAIN drawn : i \in DOMAIN drawn' /\ drawn'[i] = drawn[i]
        /\ \A k \in DOMAIN more : drawn'[n + k] = more[k]
        /\ \A i \in DOMAIN drawn' : i \in DOMAIN drawn \/ \E k \in DOMAIN more : i = n + k
        /\ n \in Nat /\ DOMAIN drawn = 1 .. n /\ DOMAIN more = 1 .. Len(more) /\ Len(more) \in Nat
        /\ Len(drawn') = n + Len(more) /\ DOMAIN drawn' = 1 .. Len(drawn')
    <2>1. DOMAIN drawn \subseteq DOMAIN (drawn \o more)
      <3>1. DOMAIN drawn = 1 .. Len(drawn) /\ DOMAIN (drawn \o more) = 1 .. (Len(drawn) + Len(more))
            /\ Len(drawn) \in Nat /\ Len(more) \in Nat
        BY <1>1, Concatenated
      <3> QED BY <3>1
    <2> QED BY <1>1, <2>1, Concatenated
  <1>4. \A k \in DOMAIN more : more[k].kind # "image"
    <2>1. \A text \in Texts : text.kind # "image"
      BY DEF Texts
    <2> QED BY <2>1
  <1>5. SamePictures
    <2> HIDE DEF n
    <2> QED BY <1>3, <1>4 DEF SamePictures
  <1>6. Len(more) \in DOMAIN more /\ Len(more) > 0
    OBVIOUS
  <1>7. drawn'[Len(drawn')] = more[Len(more)]
    <2> HIDE DEF n
    <2> QED BY <1>3, <1>6
  <1>8. drawn' # << >>
    <2>1. Len(drawn') > 0
      <3> HIDE DEF n
      <3> QED BY <1>3, <1>6
    <2> QED BY <2>1
  <1> QED BY <1>2, <1>5, <1>7, <1>8, AdvancesTyped

LEMMA NamedSectionDrawn ==
    ASSUME Types, Laid, HeadingsKeepTheirText, Settled, answer' = answer,
           NEW of \in Kinds, NEW at \in Cursors, NotBelow(cursor, at),
           NEW firstLines \in Positive, NEW lines \in Positive,
           IF of = "recommendations" THEN firstLines = 1 ELSE firstLines = lines,
           NamedSection(of, at, firstLines, lines)
    PROVE  /\ drawn' \in Seq(Boxes) /\ cursor' \in Cursors
           /\ Laid' /\ HeadingsKeepTheirText' /\ SamePictures /\ Settled'
  <1> DEFINE heading == Heading(Part(of), ensureSectionSpace(at, firstLines), 1)
             below == Below(heading)
             text == Text("text", Part(of), Move(below, TextGap), lines, BodyLine)
             more == <<heading, text>>
  <1>1. Part(of) \in Parts /\ 1 \in Positive
    <2>1. of \in PartKinds
      BY DEF PartKinds
    <2>2. 1 \in Positive
      BY DEF Positive
    <2> QED BY <2>1, <2>2, PartsTyped
  <1>2. /\ heading \in Texts /\ heading.kind = "heading" /\ heading.lines = 1
        /\ OnPage(heading) /\ NotBelow(at, heading.from)
        /\ below \in Cursors /\ NotBelow(heading.to, below)
        /\ below.page = heading.from.page /\ Room(below, firstLines)
    BY <1>1, HeadingWithRoom
  <1>3. drawn' = drawn \o more /\ cursor' = text.to
    BY DEF NamedSection
  <1> HIDE DEF heading, below
  <1>4. /\ text \in Texts /\ text.kind = "text" /\ text.of = Part(of) /\ text.lines = lines
        /\ OnPage(text) /\ NotBelow(below, text.from)
        /\ text.from.page = below.page
        /\ text.from.y + BodyLine * Min({firstLines, 4}) <= contentBottom
    <2>1. ASSUME NEW from \in Cursors, from = below, NEW part \in Parts, part = Part(of)
          PROVE  LET t == Text("text", part, Move(from, TextGap), lines, BodyLine) IN
                 /\ t \in Texts /\ t.kind = "text" /\ t.of = part /\ t.lines = lines
                 /\ OnPage(t) /\ NotBelow(from, t.from)
                 /\ t.from.page = from.page
                 /\ t.from.y + BodyLine * Min({firstLines, 4}) <= contentBottom
      <3>1. Room(from, firstLines)
        BY <1>2, <2>1
      <3>2. firstLines \in Positive /\ lines \in Positive
        OBVIOUS
      <3> QED BY ONLY <2>1, <3>1, <3>2, TextWithRoom
    <2> QED BY <1>1, <1>2, <2>1
  <1> HIDE DEF text
  <1>5. cursor \in Cursors /\ cursor' \in Cursors /\ NotBelow(text.to, cursor')
    BY <1>3, <1>4 DEF Types, OnPage, NotBelow, Cursors
  <1>6. NotBelow(cursor, heading.from) /\ NotBelow(heading.to, text.from)
    BY <1>2, <1>4, <1>5, NotBelowTransitive DEF OnPage
  <1>7. Advances(more)
    BY <1>2, <1>3, <1>4, <1>5, <1>6, TwoTexts
  <1>8. Follows(text, heading)
    <2>1. /\ text.of.part = of /\ of # "section"
          /\ of = "recommendations" => firstLines = 1
          /\ of # "recommendations" => firstLines = text.lines
      BY <1>4 DEF Part, Kinds
    <2> QED BY <1>2, <1>4, <2>1 DEF Follows
  <1>9. more \in Seq(Texts) /\ DOMAIN more = {1, 2} /\ Len(more) = 2 /\ more[1] = heading /\ more[2] = text
    BY <1>2, <1>4
  <1>10. \A k \in DOMAIN more : OneLine(more[k]) /\ k < Len(more) => Follows(more[k + 1], more[k])
    BY <1>8, <1>9
  <1>11. more # << >>
    BY <1>9
  <1> HIDE DEF more
  <1>12. /\ drawn' \in Seq(Boxes) /\ Laid' /\ HeadingsKeepTheirText' /\ SamePictures
         /\ drawn' # << >> /\ drawn'[Len(drawn')] = text
    BY <1>7, <1>9, <1>10, <1>11, TextsDrawn
  <1>13. Settled'
    BY <1>4, <1>12 DEF Settled, OneLine
  <1> QED BY <1>5, <1>12, <1>13

-----------------------------------------------------------------------------
(* Drawing images.                                                         *)

LEMMA Cells ==
    ASSUME columns \in {1, 2}
    PROVE  /\ columns = 1 => cellWidth = 360 /\ maximumHeight = 300
           /\ columns = 2 => cellWidth = 235 /\ maximumHeight = 210
           /\ GALLERY_GAP = 12
  <1>1. Min({483, 360}) = 360
    <2>1. Min({483, 360}) \in {483, 360} /\ Min({483, 360}) <= 360
      BY MinOfTwo
    <2> QED BY <2>1
  <1>2. (483 - 12) \div 2 = 235
    OBVIOUS
  <1> QED BY <1>1, <1>2, Lengths DEF cellWidth, maximumHeight, twoColumnCellWidth, GALLERY_GAP,
             SINGLE_IMAGE_MAX_WIDTH, SINGLE_IMAGE_MAX_HEIGHT, GRID_IMAGE_MAX_HEIGHT

LEMMA FittedIntoCell ==
    ASSUME columns \in {1, 2}, NEW a \in Range(Images)
    PROVE  /\ Fitted(a).width \in Nat /\ Fitted(a).width <= cellWidth
           /\ Fitted(a).height \in Nat /\ Fitted(a).height <= maximumHeight
  <1>1. Source[a].width \in Positive /\ Source[a].height \in Positive
    BY RenderingConstants
  <1> DEFINE source == orientedImageDimensions(a)
  <1>2. source.width \in Positive /\ source.height \in Positive
    BY <1>1 DEF orientedImageDimensions
  <1>3. cellWidth \in Nat /\ maximumHeight \in Nat
    BY Cells
  <1> HIDE DEF source
  <1>4. Fitted(a) = fitImageDimensions(source, cellWidth, maximumHeight)
    BY DEF Fitted, source
  <1> QED BY <1>2, <1>3, <1>4, FittedIntoFrame

\* An image lies in its cell of the row, and the cells side by side on the page.
LEMMA PlacedInRow ==
    ASSUME Types, NEW a \in Range(Images), NEW n \in {1, 2}, columns = 1 => n = 1, NEW column \in 1 .. n,
           NEW rowTop \in Cursors, NEW rowHeight \in Nat, Fitted(a).height <= rowHeight,
           rowTop.y + rowHeight + GALLERY_GAP <= contentBottom
    PROVE  LET box == Placed(a, column, n, rowTop, rowHeight) IN
           /\ box \in Photographs /\ OnPage(box)
           /\ box.kind = "image" /\ box.of = ThisSection /\ box.asset = a
           /\ NotBelow(rowTop, box.from) /\ NotBelow(box.to, Move(rowTop, rowHeight + GALLERY_GAP))
           /\ n = 2 /\ column = 1 => box.right <= 291
           /\ n = 2 /\ column = 2 => box.left >= 303
  <1> DEFINE w == Fitted(a).width
             h == Fitted(a).height
             rowLeft == PAGE_MARGIN_X + (contentWidth - (n * cellWidth + (n - 1) * GALLERY_GAP)) \div 2
             left == rowLeft + (column - 1) * (cellWidth + GALLERY_GAP) + (cellWidth - w) \div 2
             gap == (rowHeight - h) \div 2
             top == Move(rowTop, gap)
             bottom == Move(top, h)
             box == Placed(a, column, n, rowTop, rowHeight)
  <1>1. columns \in {1, 2}
    BY DEF Types
  <1>2. w \in Nat /\ w <= cellWidth /\ h \in Nat
    BY <1>1, FittedIntoCell
  <1>3. box = [kind |-> "image", of |-> ThisSection, asset |-> a, lines |-> 0,
               from |-> top, to |-> bottom, left |-> left, right |-> left + w]
    BY DEF Placed
  <1> HIDE DEF w, h, box
  <1>4. /\ columns = 1 => n = 1 /\ column = 1 /\ cellWidth = 360
        /\ columns = 2 => cellWidth = 235
        /\ GALLERY_GAP = 12
    BY <1>1, Cells
  <1>5. left \in Nat /\ left >= 56 /\ left + w <= 539
    <2>1. CASE n = 1 /\ cellWidth = 360
      <3>1. column = 1
        BY <2>1
      <3>2. rowLeft = 56 + (483 - (1 * 360 + 0 * 12)) \div 2 /\ left = rowLeft + 0 + (360 - w) \div 2
        BY <1>4, <2>1, <3>1, Lengths
      <3> HIDE DEF rowLeft, left
      <3>3. rowLeft = 117
        BY <3>2
      <3> QED BY <1>2, <2>1, <3>2, <3>3
    <2>2. CASE n = 1 /\ cellWidth = 235
      <3>1. column = 1
        BY <2>2
      <3>2. rowLeft = 56 + (483 - (1 * 235 + 0 * 12)) \div 2 /\ left = rowLeft + 0 + (235 - w) \div 2
        BY <1>4, <2>2, <3>1, Lengths
      <3> HIDE DEF rowLeft, left
      <3>3. rowLeft = 180
        BY <3>2
      <3> QED BY <1>2, <2>2, <3>2, <3>3
    <2>3. CASE n = 2 /\ cellWidth = 235
      <3>1. rowLeft = 56 + (483 - (2 * 235 + 1 * 12)) \div 2
        BY <1>4, <2>3, Lengths
      <3>2. column \in {1, 2} /\ left = rowLeft + (column - 1) * 247 + (235 - w) \div 2
        BY <1>4, <2>3
      <3> HIDE DEF rowLeft, left
      <3>3. rowLeft = 56
        BY <3>1
      <3> QED BY <1>2, <2>3, <3>2, <3>3
    <2> QED BY <1>1, <1>4, <2>1, <2>2, <2>3
  <1>6. /\ n = 2 /\ column = 1 => left + w <= 291
        /\ n = 2 /\ column = 2 => left >= 303
    <2> SUFFICES ASSUME n = 2
                 PROVE  (column = 1 => left + w <= 291) /\ (column = 2 => left >= 303)
      OBVIOUS
    <2>1. cellWidth = 235
      BY <1>1, <1>4
    <2>2. rowLeft = 56 + (483 - (2 * 235 + 1 * 12)) \div 2
      BY <1>4, <2>1, Lengths
    <2>3. left = rowLeft + (column - 1) * 247 + (235 - w) \div 2
      BY <1>4, <2>1
    <2> HIDE DEF rowLeft, left
    <2>4. rowLeft = 56
      BY <2>2
    <2> QED BY <1>2, <2>1, <2>3, <2>4
  <1> HIDE DEF left, rowLeft
  <1>7. gap \in Nat /\ gap + h <= rowHeight
    BY <1>2 DEF h
  <1> HIDE DEF gap
  <1>8. /\ top \in Cursors /\ NotBelow(rowTop, top) /\ top.page = rowTop.page /\ top.y = rowTop.y + gap
        /\ bottom \in Cursors /\ NotBelow(top, bottom) /\ bottom.page = rowTop.page /\ bottom.y = rowTop.y + gap + h
        /\ rowTop.y \in Nat
    <2>1. top \in Cursors /\ NotBelow(rowTop, top) /\ top.page = rowTop.page /\ top.y = rowTop.y + gap
      BY <1>7, Moved
    <2> HIDE DEF top
    <2>2. bottom \in Cursors /\ NotBelow(top, bottom) /\ bottom.page = top.page /\ bottom.y = top.y + h
      BY <1>2, <2>1, Moved
    <2> QED BY <2>1, <2>2 DEF Cursors
  <1> HIDE DEF top, bottom
  <1>9. /\ Move(rowTop, rowHeight + GALLERY_GAP).page = rowTop.page
        /\ Move(rowTop, rowHeight + GALLERY_GAP).y = rowTop.y + (rowHeight + 12)
    <2>1. rowHeight + GALLERY_GAP \in Nat /\ GALLERY_GAP = 12
      BY <1>4
    <2> QED BY <2>1, Moved
  <1>10. NotBelow(bottom, Move(rowTop, rowHeight + GALLERY_GAP)) /\ bottom.y <= 776
    BY <1>2, <1>4, <1>7, <1>8, <1>9, Lengths DEF NotBelow
  <1>11. ThisSection \in Parts
    BY PartsTyped
  <1>12. box \in Photographs
    BY <1>2, <1>3, <1>5, <1>8, <1>11 DEF Photographs
  <1> QED BY <1>3, <1>5, <1>6, <1>8, <1>10, <1>12, Lengths DEF OnPage, box

\* The images of the next row.
Row == SubSeq(gallery, 1, Min({columns, Len(gallery)}))
RowHeight == Max({Fitted(a).height : a \in Range(Row)})
RowImages ==
    [k \in DOMAIN Row |-> Placed(Row[k], k, Len(Row), RowSpace(RowHeight), RowHeight)]

LEMMA RowTyped ==
    ASSUME Types, gallery # << >>
    PROVE  /\ Len(Row) \in {1, 2} /\ Len(Row) <= Len(gallery) /\ DOMAIN Row = 1 .. Len(Row)
           /\ columns = 1 => Len(Row) = 1
           /\ \A k \in DOMAIN Row : k \in DOMAIN gallery /\ Row[k] = gallery[k] /\ Row[k] \in Range(Images)
           /\ RowHeight \in Nat /\ RowHeight <= 300
           /\ \A k \in DOMAIN Row : Fitted(Row[k]).height <= RowHeight
  <1> DEFINE n == Min({columns, Len(gallery)})
             T == Range(Images)
  <1>1. gallery \in Seq(T) /\ columns \in {1, 2} /\ Len(gallery) \in Nat /\ Len(gallery) > 0
    BY DEF Types
  <1>2. n \in {1, 2} /\ n <= Len(gallery) /\ (columns = 1 => n = 1)
    <2>1. n \in {columns, Len(gallery)} /\ n <= columns /\ n <= Len(gallery)
      BY <1>1, MinOfTwo
    <2> HIDE DEF n
    <2> QED BY <1>1, <2>1
  <1> HIDE DEF n, T
  <1>3. /\ Len(Row) = n /\ DOMAIN Row = 1 .. n
        /\ \A k \in 1 .. n : Row[k] = gallery[k]
    <2>1. Row = SubSeq(gallery, 1, n)
      BY DEF Row, n
    <2>2. \A k \in 1 .. n : k \in 1 .. Len(gallery)
      BY <1>1, <1>2
    <2>3. /\ SubSeq(gallery, 1, n) \in Seq(T) /\ Len(SubSeq(gallery, 1, n)) = n
          /\ \A k \in 1 .. n : SubSeq(gallery, 1, n)[k] = gallery[k]
      BY <1>1, <1>2, <2>2
    <2> QED BY <2>1, <2>3
  <1>4. \A k \in 1 .. n : k \in DOMAIN gallery /\ gallery[k] \in Range(Images)
    BY <1>1, <1>2 DEF T
  <1>5. \A a \in Range(Images) : Fitted(a).height \in Nat /\ Fitted(a).height <= 300
    <2>1. maximumHeight \in Nat /\ maximumHeight <= 300
      BY <1>1, Cells
    <2> QED BY <1>1, <2>1, FittedIntoCell
  <1>6. RowHeight \in Nat /\ RowHeight <= 300 /\ \A k \in 1 .. n : Fitted(Row[k]).height <= RowHeight
    <2> DEFINE h1 == Fitted(Row[1]).height
               h2 == Fitted(Row[n]).height
    <2>1. h1 \in Nat /\ h2 \in Nat /\ h1 <= 300 /\ h2 <= 300
      BY <1>2, <1>3, <1>4, <1>5
    <2>2. \A k \in 1 .. n : k = 1 \/ k = n
      BY <1>2
    <2>3. Range(Row) = {Row[1], Row[n]}
      BY <1>2, <1>3, <2>2 DEF Range
    <2>4. {Fitted(a).height : a \in Range(Row)} = {h1, h2}
      BY <2>3
    <2>5. RowHeight = Max({h1, h2})
      BY <2>4 DEF RowHeight
    <2> HIDE DEF h1, h2
    <2>6. RowHeight \in {h1, h2} /\ RowHeight >= h1 /\ RowHeight >= h2
      BY <2>1, <2>5, MaxOfTwo
    <2> QED BY <2>1, <2>2, <2>6 DEF h1, h2
  <1> QED BY <1>2, <1>3, <1>4, <1>6

LEMMA RowDrawn ==
    ASSUME Types, gallery # << >>, drawn' = drawn \o RowImages,
           cursor' = Move(RowSpace(RowHeight), RowHeight + GALLERY_GAP)
    PROVE  /\ Advances(RowImages) /\ DOMAIN RowImages = 1 .. Len(Row)
           /\ \A k \in 1 .. Len(Row) : RowImages[k].kind = "image" /\ RowImages[k].of = ThisSection
                                       /\ RowImages[k].asset = gallery[k]
  <1> DEFINE n == Len(Row)
             height == RowHeight
             top == RowSpace(height)
  <1>1. /\ n \in {1, 2} /\ (columns = 1 => n = 1) /\ DOMAIN Row = 1 .. n
        /\ \A k \in 1 .. n : Row[k] = gallery[k] /\ Row[k] \in Range(Images) /\ Fitted(Row[k]).height <= height
        /\ height \in Nat /\ height <= 300
    BY RowTyped
  <1>2. cursor \in Cursors /\ GALLERY_GAP = 12
    BY Cells DEF Types
  <1> HIDE DEF height
  <1>3. top \in Cursors /\ NotBelow(cursor, top) /\ top.y + height + GALLERY_GAP <= contentBottom
    <2>1. height + GALLERY_GAP \in Nat /\ height + GALLERY_GAP <= contentBottom - PAGE_MARGIN_TOP
      BY <1>1, <1>2, Lengths
    <2>2. top = EnsureSpace(cursor, height + GALLERY_GAP)
      BY DEF RowSpace
    <2> HIDE DEF top
    <2>3. top \in Cursors /\ NotBelow(cursor, top) /\ top.y + (height + GALLERY_GAP) <= contentBottom
      BY <1>2, <2>1, <2>2, Ensured
    <2> QED BY <1>1, <1>2, <2>3 DEF Cursors
  <1> HIDE DEF n, top
  <1>4. cursor' = Move(top, height + GALLERY_GAP) /\ cursor' \in Cursors /\ NotBelow(top, cursor')
    <2>1. height + GALLERY_GAP \in Nat
      BY <1>1, <1>2
    <2>2. cursor' = Move(top, height + GALLERY_GAP)
      BY DEF top, height
    <2> QED BY <1>3, <2>1, <2>2, Moved
  <1>5. DOMAIN RowImages = 1 .. n /\ \A k \in 1 .. n : RowImages[k] = Placed(Row[k], k, n, top, height)
    BY <1>1 DEF RowImages, n, top, height
  <1>6. ASSUME NEW k \in 1 .. n
        PROVE  /\ RowImages[k] \in Photographs /\ OnPage(RowImages[k])
               /\ RowImages[k].kind = "image" /\ RowImages[k].of = ThisSection /\ RowImages[k].asset = gallery[k]
               /\ NotBelow(top, RowImages[k].from) /\ NotBelow(RowImages[k].to, cursor')
               /\ n = 2 /\ k = 1 => RowImages[k].right <= 291
               /\ n = 2 /\ k = 2 => RowImages[k].left >= 303
    BY <1>1, <1>3, <1>4, <1>5, PlacedInRow
  <1>7. RowImages \in Seq(Boxes)
    <2>1. RowImages = [k \in 1 .. n |-> RowImages[k]] /\ n \in Nat
      BY <1>1, <1>5 DEF RowImages
    <2>2. \A k \in 1 .. n : RowImages[k] \in Boxes
      BY <1>6 DEF Boxes
    <2> QED BY <2>1, <2>2
  <1>8. \A k \in 1 .. n : NotBelow(cursor, RowImages[k].from)
    BY <1>2, <1>3, <1>6, NotBelowTransitive DEF OnPage
  <1>9. NotBelow(cursor, cursor')
    BY <1>2, <1>3, <1>4, NotBelowTransitive
  <1>10. ASSUME NEW k \in 1 .. n, NEW m \in 1 .. n, k < m
         PROVE  Apart(RowImages[k], RowImages[m])
    <2>1. n = 2 /\ k = 1 /\ m = 2
      BY <1>1, <1>10
    <2>2. RowImages[k].right <= 291 /\ RowImages[m].left >= 303
      BY <1>6, <2>1
    <2>3. RowImages[k].right \in Nat /\ RowImages[m].left \in Nat
      BY <1>6 DEF Photographs
    <2> QED BY <1>6, <2>2, <2>3 DEF Apart
  <1>11. Draws(RowImages)
    BY <1>5, <1>6, <1>8, <1>10 DEF Draws
  <1>12. Advances(RowImages)
    BY <1>4, <1>7, <1>9, <1>11 DEF Advances
  <1> QED BY <1>5, <1>6, <1>12 DEF n

-----------------------------------------------------------------------------
(* Pages: every step keeps the layout and the headings.                    *)

\* The images of a section, once the aliases are mapped.
LEMMA AliasesMapped ==
    ASSUME Types, ~UnknownAlias, NEW i \in DOMAIN answer.sections
    PROVE  /\ mapImageAliases[i] \in Seq(Range(Images))
           /\ Range(mapImageAliases[i]) = Asked(i)
           /\ IsInjective(mapImageAliases[i])
           /\ Asked(i) \subseteq Range(Images)
  <1> DEFINE refs == answer.sections[i].refs
             ids == [k \in DOMAIN refs |-> Asset(refs[k])]
  <1>1. refs \in Seq(Positive) /\ Range(refs) \subseteq DOMAIN Images
    BY SectionsTyped DEF UnknownAlias
  <1>2. mapImageAliases[i] = Fresh(ids, Range(Images))
    BY DEF mapImageAliases
  <1>3. Asked(i) = {Images[alias] : alias \in Range(refs)}
    BY DEF Asked
  <1> HIDE DEF refs
  <1>4. \A k \in DOMAIN refs : Asset(refs[k]) \in Range(Images)
    BY <1>1 DEF Range, Asset
  <1>5. ids \in Seq(Range(Images))
    <2>1. DOMAIN refs = 1 .. Len(refs) /\ Len(refs) \in Nat
      BY <1>1
    <2> QED BY <1>4, <2>1
  <1>6. Range(ids) = Asked(i) /\ Asked(i) \subseteq Range(Images)
    <2>1. Range(ids) = {Asset(refs[k]) : k \in DOMAIN refs}
      BY DEF Range
    <2>2. {Images[alias] : alias \in Range(refs)} = {Asset(refs[k]) : k \in DOMAIN refs}
      BY DEF Range, Asset
    <2> QED BY <1>3, <1>4, <2>1, <2>2
  <1> HIDE DEF ids
  <1>7. /\ Fresh(ids, Range(Images)) \in Seq(Range(Images)) /\ IsInjective(Fresh(ids, Range(Images)))
        /\ Range(Fresh(ids, Range(Images))) = Range(ids) \cap Range(Images)
    BY <1>5, FreshDistills
  <1> QED BY <1>2, <1>6, <1>7

\* Where the text of a heading has been drawn, none waits.
LEMMA SettledElsewhere ==
    ASSUME Types, Prepared, Leads, phase # "blocks" \/ blocks = << >>
    PROVE  Settled
  <1> SUFFICES ASSUME ~Settled PROVE FALSE
    OBVIOUS
  <1>1. phase = "blocks" /\ blocks = answer.sections[section].blocks
    BY DEF Leads, Settled
  <1>2. section \in DOMAIN answer.sections
    BY <1>1 DEF Prepared, Rendered
  <1> QED BY <1>1, <1>2, SectionsTyped

LEMMA SettledLeads == Settled => Leads
  BY DEF Settled, Leads

\* Nothing is drawn, and the cursor goes on.
LEMMA NothingDrawn ==
    ASSUME Types, Laid, HeadingsKeepTheirText, Settled,
           answer' = answer, drawn' = drawn, cursor' \in Cursors, NotBelow(cursor, cursor')
    PROVE  Laid' /\ HeadingsKeepTheirText' /\ Settled' /\ SamePictures
  <1>1. Laid'
    <2>1. \A i \in DOMAIN drawn : NotBelow(drawn[i].to, cursor')
      BY NotBelowTransitive DEF Laid, OnPage, Types
    <2> QED BY <2>1 DEF Laid, OnPage, Apart, Before, NotBelow
  <1>2. HeadingsKeepTheirText'
    BY DEF HeadingsKeepTheirText
  <1>3. Settled' /\ SamePictures
    BY DEF Settled, OneLine, SamePictures
  <1> QED BY <1>1, <1>2, <1>3

LEMMA CursorStays == Types /\ cursor' = cursor => cursor' \in Cursors /\ NotBelow(cursor, cursor')
  BY DEF Types, NotBelow, Cursors

\* What every step keeps of the pages.
Pages == Types /\ Laid /\ HeadingsKeepTheirText /\ Leads

\* Steps that draw nothing.
LEMMA PagesIdle ==
    ASSUME Pages, Prepared,
           MapAliases \/ LoadReferencedImages \/ SkipSection \/ CloseGallery \/ EndSections \/ Finish
    PROVE  Pages' /\ SamePictures /\ Settled'
  <1>1. /\ UNCHANGED <<answer, blocks, gallery, columns, cursor, drawn>>
        /\ phase # "blocks"
        /\ section' \in {section, section + 1}
    BY DEF MapAliases, LoadReferencedImages, SkipSection, CloseGallery, EndSections, Finish, NextSection
  <1>2. Settled
    BY <1>1, SettledElsewhere DEF Pages
  <1>3. Laid' /\ HeadingsKeepTheirText' /\ Settled' /\ SamePictures
    BY <1>1, <1>2, NothingDrawn, CursorStays DEF Pages
  <1>4. Leads'
    BY <1>3, SettledLeads DEF Settled, Leads, OneLine
  <1>5. Types'
    BY <1>1 DEF Pages, Types, Positive
  <1> QED BY <1>3, <1>4, <1>5 DEF Pages

LEMMA PagesOpenGallery ==
    ASSUME Pages, Prepared, OpenGallery
    PROVE  Pages' /\ SamePictures /\ Settled'
  <1>1. /\ UNCHANGED <<answer, blocks, drawn>> /\ phase = "blocks" /\ blocks = << >>
        /\ gallery' = NewImages(result[section])
        /\ section' \in {section, section + 1}
        /\ cursor' = cursor \/ cursor' = Move(cursor, GalleryGap)
        /\ columns' \in {columns, galleryColumnCount(NewImages(result[section]))}
    BY DEF OpenGallery, NextSection
  <1>2. Types /\ Settled
    BY <1>1, SettledElsewhere DEF Pages
  <1>3. cursor' \in Cursors /\ NotBelow(cursor, cursor')
    BY <1>1, <1>2, CursorStays, Moved DEF Types, GalleryGap
  <1>4. Laid' /\ HeadingsKeepTheirText' /\ Settled' /\ SamePictures
    BY <1>1, <1>2, <1>3, NothingDrawn DEF Pages
  <1>5. Leads'
    BY <1>4 DEF Settled, Leads
  <1>6. gallery' \in Seq(Range(Images))
    <2>1. section \in DOMAIN answer.sections /\ ~UnknownAlias /\ result = mapImageAliases
      BY <1>1 DEF Prepared, Rendered
    <2>2. result[section] \in Seq(Range(Images))
      BY <1>2, <2>1, AliasesMapped
    <2> QED BY <1>1, <2>2, FreshDistills DEF NewImages
  <1>7. columns' \in {1, 2}
    BY <1>1, <1>2 DEF Types, galleryColumnCount
  <1>8. Types'
    BY <1>1, <1>2, <1>3, <1>6, <1>7 DEF Types, Positive
  <1> QED BY <1>4, <1>5, <1>8 DEF Pages

LEMMA PagesCover ==
    ASSUME Pages, Prepared, RenderCover
    PROVE  Pages' /\ SamePictures /\ Settled'
  <1> DEFINE title == Text("title", Part("cover"), cursor, 1, TitleLine)
             more == <<title>>
  <1>1. Part("cover") \in Parts /\ 1 \in Positive
    <2>1. "cover" \in PartKinds /\ 1 \in Positive
      BY DEF PartKinds, Positive
    <2> QED BY <2>1, PartsTyped
  <1>2. /\ UNCHANGED <<answer, section, blocks, gallery, columns>> /\ phase = "cover"
        /\ drawn' = <<title>> /\ cursor' = Move(title.to, CoverGaps)
    BY DEF RenderCover
  <1>3. /\ title \in Texts /\ OnPage(title) /\ NotBelow(cursor, title.from) /\ title.kind = "title"
    <2>1. cursor \in Cursors
      BY DEF Pages, Types
    <2> QED BY <1>1, <2>1, TextIsBox
  <1> HIDE DEF title
  <1>4. /\ drawn = << >> /\ drawn' = drawn \o more /\ Settled /\ more \in Seq(Texts) /\ more # << >>
        /\ DOMAIN more = {1} /\ Len(more) = 1 /\ more[1] = title
    BY <1>2, <1>3 DEF Prepared, Settled
  <1>5. cursor' \in Cursors /\ NotBelow(title.to, cursor') /\ cursor \in Cursors
    BY <1>2, <1>3, Moved DEF OnPage, CoverGaps, Pages, Types
  <1>6. Advances(more)
    BY <1>3, <1>4, <1>5, OneText
  <1>7. \A k \in DOMAIN more : ~(k < Len(more))
    BY <1>4
  <1> HIDE DEF more
  <1>8. /\ drawn' \in Seq(Boxes) /\ Laid' /\ HeadingsKeepTheirText' /\ SamePictures
        /\ drawn' # << >> /\ drawn'[Len(drawn')] = title
    BY <1>2, <1>4, <1>6, <1>7, TextsDrawn DEF Pages
  <1>9. Settled'
    BY <1>3, <1>8 DEF Settled, OneLine
  <1>10. Leads'
    BY <1>9 DEF Settled, Leads
  <1>11. Types'
    BY <1>2, <1>5, <1>8 DEF Pages, Types
  <1> QED BY <1>8, <1>9, <1>10, <1>11 DEF Pages

\* The summary, the conclusion and the recommendations.
LEMMA PagesClosing ==
    ASSUME Pages, Prepared, RenderSummary \/ RenderConclusion \/ RenderRecommendations
    PROVE  Pages' /\ SamePictures /\ Settled'
  <1>1. /\ UNCHANGED <<answer, section, blocks, gallery, columns>> /\ phase # "blocks"
    BY DEF RenderSummary, RenderConclusion, RenderRecommendations
  <1>2. Types /\ Settled /\ cursor \in Cursors /\ NotBelow(cursor, cursor)
    BY <1>1, SettledElsewhere DEF Pages, Types, NotBelow, Cursors
  <1>3. ASSUME NEW of \in Kinds, NEW at \in Cursors, NotBelow(cursor, at),
               NEW firstLines \in Positive, NEW lines \in Positive,
               IF of = "recommendations" THEN firstLines = 1 ELSE firstLines = lines,
               NamedSection(of, at, firstLines, lines)
        PROVE  /\ drawn' \in Seq(Boxes) /\ cursor' \in Cursors
               /\ Laid' /\ HeadingsKeepTheirText' /\ SamePictures /\ Settled'
    BY <1>1, <1>2, <1>3, NamedSectionDrawn DEF Pages
  <1>4. ASSUME UNCHANGED <<cursor, drawn>>
        PROVE  /\ drawn' \in Seq(Boxes) /\ cursor' \in Cursors
               /\ Laid' /\ HeadingsKeepTheirText' /\ SamePictures /\ Settled'
    BY <1>1, <1>2, <1>4, NothingDrawn, CursorStays DEF Pages, Types
  <1>5. \A n \in Nat : n > 0 => n \in Positive
    BY DEF Positive
  <1>6. {"summary", "conclusion", "recommendations"} = Kinds
    BY DEF Kinds
  <1>7. /\ drawn' \in Seq(Boxes) /\ cursor' \in Cursors
        /\ Laid' /\ HeadingsKeepTheirText' /\ SamePictures /\ Settled'
    <2>1. CASE RenderSummary
      <3>1. NamedSection("summary", cursor, answer.closing.summary, answer.closing.summary)
        BY <2>1 DEF RenderSummary
      <3>2. answer.closing.summary \in Positive /\ "summary" \in Kinds
        BY <1>2, <1>6, ClosingTyped
      <3> QED BY <1>2, <1>3, <3>1, <3>2
    <2>2. CASE RenderConclusion
      <3> DEFINE lines == answer.closing.conclusion
                 at == IF answer.closing.recommendations > 0
                       THEN EnsureSpace(cursor, CLOSING_SECTIONS_MIN_HEIGHT) ELSE cursor
      <3>1. at \in Cursors /\ NotBelow(cursor, at)
        BY <1>2, Ensured DEF CLOSING_SECTIONS_MIN_HEIGHT
      <3>2. IF lines > 0 THEN NamedSection("conclusion", at, lines, lines) ELSE UNCHANGED <<cursor, drawn>>
        BY <2>2 DEF RenderConclusion
      <3> HIDE DEF at
      <3>3. lines \in Nat /\ "conclusion" \in Kinds
        BY <1>2, <1>6, ClosingTyped
      <3> QED BY <1>3, <1>4, <1>5, <3>1, <3>2, <3>3
    <2>3. CASE RenderRecommendations
      <3> DEFINE lines == answer.closing.recommendations
      <3>1. IF lines > 0 THEN NamedSection("recommendations", cursor, 1, lines) ELSE UNCHANGED <<cursor, drawn>>
        BY <2>3 DEF RenderRecommendations
      <3>2. lines \in Nat /\ "recommendations" \in Kinds
        BY <1>2, <1>6, ClosingTyped
      <3> QED BY <1>2, <1>3, <1>4, <1>5, <3>1, <3>2
    <2> QED BY <2>1, <2>2, <2>3
  <1>8. Leads'
    BY <1>7 DEF Settled, Leads
  <1>9. Types'
    BY <1>1, <1>2, <1>7 DEF Types
  <1> QED BY <1>7, <1>8, <1>9 DEF Pages

LEMMA PagesSection ==
    ASSUME Pages, Prepared, RenderSection
    PROVE  Pages' /\ SamePictures
  <1> DEFINE s == answer.sections[section]
             heading == Heading(ThisSection, ensureSectionSpace(cursor, s.blocks[1].first), s.titleLines)
             more == <<heading>>
  <1>1. /\ UNCHANGED <<answer, section, gallery, columns>> /\ phase = "section" /\ phase' = "blocks"
        /\ section \in DOMAIN answer.sections
        /\ drawn' = Append(drawn, heading) /\ cursor' = Below(heading) /\ blocks' = s.blocks
    BY DEF RenderSection
  <1>2. Types /\ Settled /\ cursor \in Cursors /\ drawn \in Seq(Boxes) /\ ThisSection \in Parts
    BY <1>1, SettledElsewhere, PartsTyped DEF Pages, Types
  <1>3. /\ s.titleLines \in Positive /\ s.blocks \in Seq(Lines) /\ s.blocks[1].first \in Positive
    BY <1>1, <1>2, SectionsTyped DEF Lines
  <1>4. /\ heading \in Texts /\ heading.kind = "heading" /\ heading.lines = s.titleLines
        /\ OnPage(heading) /\ NotBelow(cursor, heading.from)
        /\ cursor' \in Cursors /\ NotBelow(heading.to, cursor')
        /\ s.titleLines = 1 => cursor'.page = heading.from.page /\ Room(cursor', s.blocks[1].first)
    BY <1>1, <1>2, <1>3, HeadingWithRoom
  <1> HIDE DEF heading, s
  <1>5. /\ drawn' = drawn \o more /\ more \in Seq(Texts) /\ more # << >>
        /\ DOMAIN more = {1} /\ Len(more) = 1 /\ more[1] = heading
    <2>1. Append(drawn, heading) = drawn \o <<heading>>
      <3>1. heading \in Boxes
        BY <1>4 DEF Boxes
      <3> QED BY <1>2, <3>1
    <2> QED BY <1>1, <1>4, <2>1
  <1>6. Advances(more)
    BY <1>2, <1>4, <1>5, OneText
  <1>7. \A k \in DOMAIN more : ~(k < Len(more))
    BY <1>5
  <1> HIDE DEF more
  <1>8. /\ drawn' \in Seq(Boxes) /\ Laid' /\ HeadingsKeepTheirText' /\ SamePictures
        /\ drawn' # << >> /\ drawn'[Len(drawn')] = heading
    BY <1>1, <1>2, <1>5, <1>6, <1>7, TextsDrawn DEF Pages
  <1>9. Leads'
    <2>1. OneLine(heading) => s.titleLines = 1
      BY <1>4 DEF OneLine
    <2>2. blocks' = answer'.sections[section'].blocks
      BY <1>1 DEF s
    <2>3. OneLine(heading) => cursor'.page = heading.from.page /\ Room(cursor', blocks'[1].first)
      BY <1>1, <1>4, <2>1
    <2> QED BY <1>1, <1>8, <2>2, <2>3 DEF Leads, OneLine, Room
  <1>10. Types'
    BY <1>1, <1>2, <1>3, <1>4, <1>8 DEF Types
  <1> QED BY <1>8, <1>9, <1>10 DEF Pages

LEMMA PagesBlock ==
    ASSUME Pages, Prepared, RenderBlock
    PROVE  Pages' /\ SamePictures /\ Settled'
  <1> DEFINE text == Text("text", ThisSection, Move(cursor, TextGap), Head(blocks).lines, BodyLine)
             more == <<text>>
             first == answer.sections[section].blocks[1].first
  <1>1. /\ UNCHANGED <<answer, section, gallery, columns>> /\ phase = "blocks" /\ blocks # << >>
        /\ drawn' = Append(drawn, text) /\ cursor' = text.to /\ blocks' = Tail(blocks)
    BY DEF RenderBlock
  <1>2. /\ Types /\ cursor \in Cursors /\ drawn \in Seq(Boxes) /\ ThisSection \in Parts /\ blocks \in Seq(Lines)
        /\ section \in DOMAIN answer.sections
    BY <1>1, PartsTyped DEF Pages, Types, Prepared, Rendered
  <1>3. /\ first \in Positive /\ Head(blocks).lines \in Positive /\ Tail(blocks) \in Seq(Lines)
    <2>1. answer.sections[section].blocks[1] \in Lines
      BY <1>2, SectionsTyped
    <2>2. Head(blocks) \in Lines /\ Tail(blocks) \in Seq(Lines)
      BY <1>1, <1>2
    <2> QED BY <2>1, <2>2 DEF Lines
  <1> HIDE DEF first
  <1>4. /\ text \in Texts /\ text.kind = "text" /\ text.of = ThisSection
        /\ OnPage(text) /\ NotBelow(cursor, text.from)
        /\ Room(cursor, first) => /\ text.from.page = cursor.page
                                  /\ text.from.y + BodyLine * Min({first, 4}) <= contentBottom
    <2>1. ASSUME NEW lines \in Positive
          PROVE  LET t == Text("text", ThisSection, Move(cursor, TextGap), lines, BodyLine) IN
                 /\ t \in Texts /\ t.kind = "text" /\ t.of = ThisSection
                 /\ OnPage(t) /\ NotBelow(cursor, t.from)
                 /\ Room(cursor, first) => /\ t.from.page = cursor.page
                                           /\ t.from.y + BodyLine * Min({first, 4}) <= contentBottom
      <3>1. cursor \in Cursors /\ ThisSection \in Parts /\ first \in Positive
        BY <1>2, <1>3
      <3> QED BY ONLY <2>1, <3>1, TextWithRoom
    <2> QED BY <1>3, <2>1
  <1> HIDE DEF text
  <1>5. /\ drawn' = drawn \o more /\ more \in Seq(Texts) /\ more # << >>
        /\ DOMAIN more = {1} /\ Len(more) = 1 /\ more[1] = text
    <2>1. Append(drawn, text) = drawn \o <<text>>
      <3>1. text \in Boxes
        BY <1>4 DEF Boxes
      <3> QED BY <1>2, <3>1
    <2> QED BY <1>1, <1>4, <2>1
  <1>6. cursor' \in Cursors /\ NotBelow(text.to, cursor')
    BY <1>1, <1>4 DEF OnPage, NotBelow, Cursors
  <1>7. Advances(more)
    BY <1>2, <1>4, <1>5, <1>6, OneText
  <1>8. Settled \/ Follows(text, drawn[Len(drawn)])
    <2> SUFFICES ASSUME ~Settled PROVE Follows(text, drawn[Len(drawn)])
      OBVIOUS
    <2>1. /\ blocks = answer.sections[section].blocks
          /\ cursor.page = drawn[Len(drawn)].from.page /\ Room(cursor, blocks[1].first)
      BY DEF Pages, Leads, Settled
    <2>2. text.of.part = "section" /\ text.of.number = section
      BY <1>4 DEF ThisSection
    <2>3. Room(cursor, first)
      BY <2>1 DEF first
    <2> QED BY <1>4, <2>1, <2>2, <2>3 DEF Follows, first
  <1>9. \A k \in DOMAIN more : ~(k < Len(more))
    BY <1>5
  <1> HIDE DEF more
  <1>10. /\ drawn' \in Seq(Boxes) /\ Laid' /\ HeadingsKeepTheirText' /\ SamePictures
         /\ drawn' # << >> /\ drawn'[Len(drawn')] = text
    BY <1>1, <1>2, <1>5, <1>7, <1>8, <1>9, TextsDrawn DEF Pages
  <1>11. Settled'
    BY <1>4, <1>10 DEF Settled, OneLine
  <1>12. Leads'
    BY <1>11 DEF Settled, Leads
  <1>13. Types'
    BY <1>1, <1>2, <1>3, <1>6, <1>10 DEF Types
  <1> QED BY <1>10, <1>11, <1>12, <1>13 DEF Pages

\* After a row of a gallery, the document has its images besides what it had.
Pictured ==
    /\ DOMAIN drawn' = 1 .. (Len(drawn) + Len(Row)) /\ Len(drawn) \in Nat /\ DOMAIN drawn = 1 .. Len(drawn)
    /\ \A n \in DOMAIN drawn : drawn'[n] = drawn[n]
    /\ \A k \in 1 .. Len(Row) :
          LET box == drawn'[Len(drawn) + k] IN
          box.kind = "image" /\ box.of = ThisSection /\ box.asset = gallery[k]

LEMMA PagesRow ==
    ASSUME Pages, Prepared, RenderRow
    PROVE  /\ Pages' /\ Pictured
           /\ gallery' = SubSeq(gallery, Len(Row) + 1, Len(gallery)) /\ gallery' \in Seq(Range(Images))
  <1>1. /\ UNCHANGED <<answer, section, blocks, columns>> /\ phase = "rows" /\ gallery # << >>
        /\ drawn' = drawn \o RowImages
        /\ cursor' = Move(RowSpace(RowHeight), RowHeight + GALLERY_GAP)
        /\ gallery' = SubSeq(gallery, Len(Row) + 1, Len(gallery))
    BY DEF RenderRow, RowImages, RowHeight, Row
  <1>2. Types /\ Settled /\ drawn \in Seq(Boxes)
    BY <1>1, SettledElsewhere DEF Pages, Types
  <1>3. /\ Advances(RowImages) /\ DOMAIN RowImages = 1 .. Len(Row)
        /\ \A k \in 1 .. Len(Row) : RowImages[k].kind = "image" /\ RowImages[k].of = ThisSection
                                    /\ RowImages[k].asset = gallery[k]
    BY <1>1, <1>2, RowDrawn
  <1>4. Len(Row) \in {1, 2} /\ Len(Row) <= Len(gallery) /\ Len(gallery) \in Nat
    BY <1>1, <1>2, RowTyped DEF Types
  <1>5. RowImages \in Seq(Boxes) /\ Len(RowImages) = Len(Row)
    <2>1. RowImages \in Seq(Boxes)
      BY <1>3 DEF Advances
    <2>2. DOMAIN RowImages = 1 .. Len(RowImages) /\ Len(RowImages) \in Nat
      BY <2>1
    <2> HIDE DEF RowImages
    <2> QED BY <1>3, <1>4, <2>1, <2>2
  <1>6. Laid' /\ drawn' \in Seq(Boxes) /\ cursor' \in Cursors
    BY <1>2, <1>3, AdvancesTyped DEF Pages, Advances
  <1>7. HeadingsKeepTheirText'
    <2>1. \A k \in DOMAIN RowImages : ~OneLine(RowImages[k])
      BY <1>3 DEF OneLine
    <2> QED BY <1>1, <1>2, <1>5, <2>1, HeadingsKept DEF Settled, Pages
  <1> DEFINE n == Len(drawn)
  <1>8. /\ DOMAIN drawn' = 1 .. (n + Len(Row)) /\ n \in Nat /\ DOMAIN drawn = 1 .. n
        /\ \A i \in DOMAIN drawn : drawn'[i] = drawn[i]
        /\ \A k \in 1 .. Len(Row) : drawn'[n + k] = RowImages[k]
        /\ Len(drawn') = n + Len(Row)
    <2>1. ASSUME NEW more \in Seq(Boxes), drawn' = drawn \o more
          PROVE  /\ DOMAIN drawn' = 1 .. (n + Len(more)) /\ n \in Nat /\ DOMAIN drawn = 1 .. n
                 /\ \A i \in DOMAIN drawn : drawn'[i] = drawn[i]
                 /\ \A k \in DOMAIN more : drawn'[n + k] = more[k]
                 /\ Len(drawn') = n + Len(more)
      <3>1. drawn \in Seq(Boxes)
        BY <1>2
      <3> QED BY ONLY <2>1, <3>1, Concatenated
    <2> HIDE DEF n
    <2> QED BY <1>1, <1>3, <1>5, <2>1
  <1>9. Pictured
    BY <1>3, <1>8 DEF Pictured
  <1> HIDE DEF n
  <1>10. Leads'
    <2>1. drawn'[n + Len(Row)] = RowImages[Len(Row)] /\ Len(Row) \in 1 .. Len(Row)
      <3>1. Len(Row) \in 1 .. Len(Row)
        BY <1>4
      <3> QED BY <1>8, <3>1
    <2>2. ~OneLine(drawn'[Len(drawn')])
      BY <1>3, <1>8, <2>1 DEF OneLine
    <2> QED BY <2>2 DEF Leads, OneLine
  <1>11. gallery' \in Seq(Range(Images))
    <2>1. gallery \in Seq(Range(Images)) /\ Len(Row) + 1 \in Nat
      BY <1>2, <1>4 DEF Types
    <2>2. \A T : \A list \in Seq(T), m \in Nat \ {0} : SubSeq(list, m, Len(list)) \in Seq(T)
      OBVIOUS
    <2>3. Len(Row) + 1 \in Nat \ {0}
      BY <1>4
    <2> QED BY <1>1, <2>1, <2>2, <2>3
  <1>12. Types'
    BY <1>1, <1>2, <1>6, <1>11 DEF Types
  <1> QED BY <1>1, <1>6, <1>7, <1>9, <1>10, <1>11, <1>12 DEF Pages

LEMMA PreparedStep ==
    ASSUME Types, Prepared, Next
    PROVE  Prepared'
  <1>1. CASE MapAliases
    BY <1>1 DEF MapAliases, Prepared, UnknownAlias, mapImageAliases
  <1>2. CASE LoadReferencedImages
    BY <1>2 DEF LoadReferencedImages, Prepared, UnknownAlias, mapImageAliases, Referenced
  <1>3. CASE ~MapAliases /\ ~LoadReferencedImages
    <2>1. UNCHANGED <<answer, result, loaded>>
      BY <1>3 DEF Next, RenderCover, RenderSummary, SkipSection, RenderSection, RenderBlock, OpenGallery,
         RenderRow, CloseGallery, EndSections, RenderConclusion, RenderRecommendations, Finish
    <2>2. /\ phase \notin {"map", "load", "failed"} /\ phase' \notin {"map", "load", "cover"}
      BY <1>3 DEF Next, RenderCover, RenderSummary, SkipSection, RenderSection, RenderBlock, OpenGallery,
         RenderRow, CloseGallery, EndSections, RenderConclusion, RenderRecommendations, Finish, NextSection
    <2>3. phase' \in {"blocks", "rows"} => section' \in Rendered
      BY <1>3 DEF Next, RenderCover, RenderSummary, SkipSection, RenderSection, RenderBlock, OpenGallery,
         RenderRow, CloseGallery, EndSections, RenderConclusion, RenderRecommendations, Finish, NextSection,
         Prepared, Rendered
    <2>4. Rendered' = Rendered /\ UnknownAlias' = UnknownAlias /\ mapImageAliases' = mapImageAliases
          /\ Referenced' = Referenced
      BY <2>1 DEF Rendered, Replaced, UnknownAlias, mapImageAliases, Referenced
    <2> QED BY <2>1, <2>2, <2>3, <2>4 DEF Prepared
  <1> QED BY <1>1, <1>2, <1>3

LEMMA PagesStep ==
    ASSUME Pages, Prepared, Next
    PROVE  Pages'
  <1>1. CASE MapAliases \/ LoadReferencedImages \/ SkipSection \/ CloseGallery \/ EndSections \/ Finish
    BY <1>1, PagesIdle
  <1>2. CASE RenderSummary \/ RenderConclusion \/ RenderRecommendations
    BY <1>2, PagesClosing
  <1> QED BY <1>1, <1>2, PagesOpenGallery, PagesCover, PagesSection, PagesBlock, PagesRow DEF Next

-----------------------------------------------------------------------------
(* Images: every step keeps what is shown.                                 *)

LEMMA AskedSame ==
    ASSUME answer' = answer
    PROVE  /\ Rendered' = Rendered
           /\ \A i : Asked(i)' = Asked(i)
           /\ \A i : Earlier(i)' = Earlier(i)
  <1>1. Rendered' = Rendered
    BY DEF Rendered, Replaced
  <1>2. \A i : Asked(i)' = Asked(i)
    BY DEF Asked
  <1>3. \A i : Earlier(i)' = Earlier(i)
    BY <1>1, <1>2 DEF Earlier
  <1> QED BY <1>1, <1>2, <1>3

LEMMA PicturesSame ==
    ASSUME SamePictures
    PROVE  /\ \A i : AssetsOf(i)' = AssetsOf(i)
           /\ \A i : DrawnOnce(i)' <=> DrawnOnce(i)
           /\ \A n \in DOMAIN drawn' : drawn'[n].kind = "image" => n \in DOMAIN drawn /\ drawn'[n] = drawn[n]
  <1>1. \A i : Pictures(i)' = Pictures(i)
    BY DEF Pictures, SamePictures
  <1>2. \A i : \A n \in Pictures(i) : drawn'[n] = drawn[n]
    BY DEF Pictures, SamePictures
  <1>3. \A i : AssetsOf(i)' = AssetsOf(i)
    BY <1>1, <1>2 DEF AssetsOf
  <1>4. \A i : DrawnOnce(i)' <=> DrawnOnce(i)
    BY <1>1, <1>2 DEF DrawnOnce
  <1>5. \A n \in DOMAIN drawn' : drawn'[n].kind = "image" => n \in DOMAIN drawn /\ drawn'[n] = drawn[n]
    BY DEF SamePictures
  <1> QED BY <1>3, <1>4, <1>5

\* Steps that neither change the section nor draw an image.
LEMMA ShownSame ==
    ASSUME Shown, SamePictures, UNCHANGED <<answer, section, rendered>>,
           phase # "rows", phase' # "rows", Begun' => Begun,
           phase' \in Early => phase \in Early,
           phase' \in Late => phase \in Late \/ section = Len(answer.sections) + 1
    PROVE  Shown'
  <1>1. Behind' = Behind
    BY AskedSame DEF Behind
  <1>2. phase' \in Early => section' = 1 /\ rendered' = {}
    BY DEF Shown
  <1>3. phase' \in Late => section' = Len(answer'.sections) + 1
    BY DEF Shown
  <1>4. ASSUME Begun'
        PROVE  /\ section' \in 1 .. (Len(answer'.sections) + 1)
               /\ rendered' = UNION {Asked(j)' : j \in Behind'}
               /\ \A n \in DOMAIN drawn' : drawn'[n].kind = "image" => drawn'[n].of.number < section'
               /\ \A i \in Rendered' : i < section' => AssetsOf(i)' = Asked(i)' \ Earlier(i)' /\ DrawnOnce(i)'
    <2>1. Begun
      BY <1>4
    <2>2. /\ section \in 1 .. (Len(answer.sections) + 1)
          /\ rendered = UNION {Asked(j) : j \in Behind}
          /\ \A n \in DOMAIN drawn : drawn[n].kind = "image" => drawn[n].of.number < section
          /\ \A i \in Rendered : i < section => AssetsOf(i) = Asked(i) \ Earlier(i) /\ DrawnOnce(i)
      BY <2>1 DEF Shown
    <2> QED BY <1>1, <2>2, AskedSame, PicturesSame
  <1> QED BY <1>2, <1>3, <1>4 DEF Shown, Early, Late

\* Steps to the next section that draw nothing.
LEMMA ShownNext ==
    ASSUME Types, Shown, SamePictures, answer' = answer, section' = section + 1, phase' = "section", Begun,
           section \in DOMAIN answer.sections,
           rendered' = UNION {Asked(j) : j \in Rendered \cap 1 .. section},
           phase # "rows" \/ section \in Rendered,
           section \in Rendered => AssetsOf(section) = Asked(section) \ Earlier(section) /\ DrawnOnce(section)
    PROVE  Shown'
  <1>1. section \in Nat /\ section >= 1 /\ section + 1 - 1 = section
    BY DEF Types, Positive
  <1>2. Behind' = Rendered \cap 1 .. section
    <2>1. Behind' = Rendered' \cap 1 .. (section' - 1)
      BY DEF Behind
    <2> QED BY <1>1, <2>1, AskedSame
  <1>3. section' \in 1 .. (Len(answer'.sections) + 1)
    <2>1. section \in 1 .. Len(answer.sections) /\ Len(answer.sections) \in Nat
      BY DEF Types
    <2> QED BY <2>1
  <1>4. rendered' = UNION {Asked(j)' : j \in Behind'}
    BY <1>2, AskedSame
  <1>5. \A n \in DOMAIN drawn' : drawn'[n].kind = "image" => drawn'[n].of.number < section'
    <2>1. \A n \in DOMAIN drawn : drawn[n].kind = "image" => drawn[n].of.number < section \/ drawn[n].of.number = section
      BY DEF Shown
    <2>2. \A n \in DOMAIN drawn : drawn[n].kind = "image" => drawn[n].of.number \in Nat
      <3>1. drawn \in Seq(Boxes)
        BY DEF Types
      <3>2. \A box \in Boxes : box.of.number \in Nat
        BY DEF Boxes, Texts, Photographs, Parts
      <3> QED BY <3>1, <3>2
    <2> QED BY <1>1, <2>1, <2>2, PicturesSame
  <1>6. ASSUME NEW i \in Rendered', i < section'
        PROVE  AssetsOf(i)' = Asked(i)' \ Earlier(i)' /\ DrawnOnce(i)'
    <2>1. i \in Rendered /\ i \in Nat
      <3>1. Rendered \subseteq DOMAIN answer.sections /\ answer.sections \in Seq(Sections)
        BY DEF Rendered, Types
      <3>2. DOMAIN answer.sections \subseteq Nat
        BY <3>1
      <3> QED BY <1>6, <3>1, <3>2, AskedSame
    <2>2. i < section \/ i = section
      BY <1>1, <1>6, <2>1
    <2>3. AssetsOf(i) = Asked(i) \ Earlier(i) /\ DrawnOnce(i)
      BY <2>1, <2>2 DEF Shown
    <2> QED BY <2>3, AskedSame, PicturesSame
  <1> QED BY <1>3, <1>4, <1>5, <1>6 DEF Shown, Early, Late

\* The images a gallery is opened with: those the section asks for that are not
\* in the document yet.
LEMMA GalleryImages ==
    ASSUME Types, Prepared, Shown, phase = "blocks"
    PROVE  /\ Range(NewImages(result[section])) = Asked(section) \ rendered
           /\ IsInjective(NewImages(result[section]))
           /\ section \in Rendered /\ section \in DOMAIN answer.sections
           /\ rendered = Earlier(section)
           /\ rendered \cup Asked(section) = UNION {Asked(j) : j \in Rendered \cap 1 .. section}
  <1>1. /\ section \in Rendered /\ section \in DOMAIN answer.sections /\ ~UnknownAlias
        /\ result = mapImageAliases /\ loaded = Range(Images) \cap Referenced
    BY DEF Prepared, Rendered
  <1>2. /\ result[section] \in Seq(Range(Images)) /\ Range(result[section]) = Asked(section)
        /\ Asked(section) \subseteq Range(Images)
    BY <1>1, AliasesMapped
  <1>3. Range(result[section]) \subseteq Referenced
    <2>1. section \in DOMAIN result
      BY <1>1 DEF mapImageAliases
    <2> QED BY <2>1 DEF Referenced
  <1>4. /\ Range(NewImages(result[section])) = Range(result[section]) \cap (loaded \ rendered)
        /\ IsInjective(NewImages(result[section]))
    BY <1>2, FreshDistills DEF NewImages
  <1>5. Range(NewImages(result[section])) = Asked(section) \ rendered
    BY <1>1, <1>2, <1>3, <1>4
  <1>6. rendered = Earlier(section)
    BY DEF Shown, Begun, Behind, Earlier
  <1>7. Rendered \cap 1 .. section = (Rendered \cap 1 .. (section - 1)) \cup {section}
    <2>1. section \in Nat /\ section >= 1
      BY DEF Types, Positive
    <2>2. 1 .. section = 1 .. (section - 1) \cup {section}
      BY <2>1
    <2> QED BY <1>1, <2>2
  <1>8. rendered \cup Asked(section) = UNION {Asked(j) : j \in Rendered \cap 1 .. section}
    BY <1>6, <1>7 DEF Earlier
  <1> QED BY <1>1, <1>4, <1>5, <1>6, <1>8

\* No image of a section is drawn before its gallery is opened.
LEMMA NoPicturesYet ==
    ASSUME Types, Shown, phase = "blocks"
    PROVE  AssetsOf(section) = {} /\ DrawnOnce(section)
  <1>1. \A n \in DOMAIN drawn : drawn[n].kind = "image" => drawn[n].of.number < section
    BY DEF Shown, Begun
  <1>2. section \in Nat
    BY DEF Types, Positive
  <1>3. Pictures(section) = {}
    BY <1>1, <1>2 DEF Pictures
  <1> QED BY <1>3 DEF AssetsOf, DrawnOnce

LEMMA ShownOpenGallery ==
    ASSUME Types, Prepared, Shown, SamePictures, OpenGallery
    PROVE  Shown'
  <1> DEFINE images == NewImages(result[section])
  <1>1. /\ phase = "blocks" /\ answer' = answer /\ gallery' = images /\ rendered' = rendered \cup Range(images)
        /\ IF images = << >> THEN phase' = "section" /\ section' = section + 1
           ELSE phase' = "rows" /\ section' = section
    BY DEF OpenGallery, NextSection
  <1>2. /\ Range(images) = Asked(section) \ rendered /\ IsInjective(images)
        /\ section \in Rendered /\ section \in DOMAIN answer.sections
        /\ rendered = Earlier(section)
        /\ rendered \cup Asked(section) = UNION {Asked(j) : j \in Rendered \cap 1 .. section}
    BY <1>1, GalleryImages
  <1> HIDE DEF images
  <1>3. rendered' = UNION {Asked(j) : j \in Rendered \cap 1 .. section}
    BY <1>1, <1>2
  <1>4. AssetsOf(section) = {} /\ DrawnOnce(section)
    BY <1>1, NoPicturesYet
  <1>5. CASE images = << >>
    <2>1. Range(images) = {}
      BY <1>5 DEF Range
    <2>2. AssetsOf(section) = Asked(section) \ Earlier(section)
      BY <1>2, <1>4, <2>1
    <2> QED BY <1>1, <1>2, <1>3, <1>4, <1>5, <2>2, ShownNext DEF Begun
  <1>6. CASE images # << >>
    <2>1. phase' = "rows" /\ section' = section /\ Begun
      BY <1>1, <1>6 DEF Begun
    <2>2. Behind' = Rendered \cap 1 .. section
      BY <1>1, <2>1, AskedSame DEF Behind
    <2>3. rendered' = UNION {Asked(j)' : j \in Behind'}
      BY <1>1, <1>3, <2>2, AskedSame
    <2>4. section' \in 1 .. (Len(answer'.sections) + 1)
      BY <1>1, <2>1 DEF Shown
    <2>5. \A n \in DOMAIN drawn' : drawn'[n].kind = "image" => drawn'[n].of.number < section'
      BY <1>1, <2>1, PicturesSame DEF Shown
    <2>6. \A i \in Rendered' : i < section' => AssetsOf(i)' = Asked(i)' \ Earlier(i)' /\ DrawnOnce(i)'
      BY <1>1, <2>1, AskedSame, PicturesSame DEF Shown
    <2>7. ASSUME NEW i \in Rendered', i = section'
          PROVE  /\ AssetsOf(i)' \cup Range(gallery') = Asked(i)' \ Earlier(i)'
                 /\ AssetsOf(i)' \cap Range(gallery') = {}
                 /\ DrawnOnce(i)' /\ IsInjective(gallery')
      <3>1. /\ AssetsOf(i)' = AssetsOf(i) /\ (DrawnOnce(i)' <=> DrawnOnce(i))
            /\ Asked(i)' = Asked(i) /\ Earlier(i)' = Earlier(i)
        BY <1>1, AskedSame, PicturesSame
      <3>2. i = section
        BY <2>1, <2>7
      <3> QED BY <1>1, <1>2, <1>4, <3>1, <3>2
    <2> QED BY <2>1, <2>3, <2>4, <2>5, <2>6, <2>7 DEF Shown, Early, Late
  <1> QED BY <1>5, <1>6

\* What is left of a list without its first m members.
LEMMA Remainder ==
    ASSUME NEW T, NEW list \in Seq(T), NEW m \in Nat, m <= Len(list)
    PROVE  /\ Len(SubSeq(list, m + 1, Len(list))) = Len(list) - m
           /\ \A k \in 1 .. (Len(list) - m) : SubSeq(list, m + 1, Len(list))[k] = list[m + 1 + k - 1]
           /\ DOMAIN SubSeq(list, m + 1, Len(list)) = 1 .. (Len(list) - m)
  <1>1. \A i \in (m + 1) .. Len(list) : list[i] \in T
    OBVIOUS
  <1>2. m + 1 \in Int /\ Len(list) \in Nat /\ Len(list) - (m + 1) + 1 = Len(list) - m
    OBVIOUS
  <1> DEFINE rest == SubSeq(list, m + 1, Len(list))
  <1>3. /\ rest \in Seq(T)
        /\ Len(rest) = IF m + 1 <= Len(list) THEN Len(list) - (m + 1) + 1 ELSE 0
        /\ \A k \in 1 .. Len(list) - (m + 1) + 1 : rest[k] = list[m + 1 + k - 1]
    BY ONLY <1>1, <1>2, SubSeqProperties
  <1> HIDE DEF rest
  <1>4. Len(rest) = Len(list) - m
    BY <1>2, <1>3
  <1>5. DOMAIN rest = 1 .. (Len(list) - m)
    BY <1>3, <1>4
  <1>6. \A k \in 1 .. (Len(list) - m) : rest[k] = list[m + 1 + k - 1]
    BY <1>2, <1>3
  <1> QED BY ONLY <1>4, <1>5, <1>6 DEF rest

LEMMA ShownRow ==
    ASSUME Types, Shown, RenderRow, Pictured,
           gallery' = SubSeq(gallery, Len(Row) + 1, Len(gallery))
    PROVE  Shown'
  <1> DEFINE n == Len(drawn)
             m == Len(Row)
             new == {n + k : k \in 1 .. m}
  <1>1. /\ UNCHANGED <<answer, section, rendered>> /\ phase = "rows" /\ phase' = "rows" /\ gallery # << >>
    BY DEF RenderRow
  <1>2. /\ m \in {1, 2} /\ m <= Len(gallery) /\ Len(gallery) \in Nat /\ DOMAIN gallery = 1 .. Len(gallery)
    BY <1>1, RowTyped DEF Types
  <1>3. /\ DOMAIN drawn' = 1 .. (n + m) /\ n \in Nat /\ DOMAIN drawn = 1 .. n
        /\ \A i \in DOMAIN drawn : drawn'[i] = drawn[i]
        /\ \A k \in 1 .. m : /\ drawn'[n + k].kind = "image" /\ drawn'[n + k].of.number = section
                             /\ drawn'[n + k].asset = gallery[k]
    BY DEF Pictured, ThisSection
  <1> HIDE DEF n, m
  <1>4. /\ DOMAIN drawn' = DOMAIN drawn \cup new /\ DOMAIN drawn \cap new = {}
    <2>1. \A i : i \in 1 .. (n + m) <=> i \in 1 .. n \/ \E k \in 1 .. m : i = n + k
      <3>1. ASSUME NEW i \in 1 .. (n + m), i \notin 1 .. n
            PROVE  i - n \in 1 .. m /\ i = n + (i - n)
        BY <1>2, <1>3, <3>1
      <3>2. \A i \in 1 .. n : i \in 1 .. (n + m)
        BY <1>2, <1>3
      <3>3. \A k \in 1 .. m : n + k \in 1 .. (n + m)
        BY <1>2, <1>3
      <3> QED BY <3>1, <3>2, <3>3
    <2>2. \A k \in 1 .. m : n + k \notin 1 .. n
      BY <1>2, <1>3
    <2> QED BY <1>3, <2>1, <2>2
  \* The gallery is the row and the images that are left.
  <1>5. /\ DOMAIN gallery' = 1 .. (Len(gallery) - m)
        /\ \A k \in DOMAIN gallery' : m + k \in DOMAIN gallery /\ gallery'[k] = gallery[m + k]
    <2>1. gallery' = SubSeq(gallery, m + 1, Len(gallery)) /\ gallery \in Seq(Range(Images))
      BY DEF m, Types
    <2>2. /\ Len(SubSeq(gallery, m + 1, Len(gallery))) = Len(gallery) - m
          /\ \A k \in 1 .. (Len(gallery) - m) : SubSeq(gallery, m + 1, Len(gallery))[k] = gallery[m + 1 + k - 1]
          /\ DOMAIN SubSeq(gallery, m + 1, Len(gallery)) = 1 .. (Len(gallery) - m)
      <3>1. m \in Nat /\ m <= Len(gallery)
        BY <1>2
      <3> QED BY ONLY <2>1, <3>1, Remainder
    <2>3. \A k \in 1 .. (Len(gallery) - m) : m + 1 + k - 1 = m + k /\ m + k \in 1 .. Len(gallery)
      BY <1>2
    <2> QED BY <1>2, <2>1, <2>2, <2>3
  <1> DEFINE row == {gallery[k] : k \in 1 .. m}
  <1>6. Range(gallery) = row \cup Range(gallery')
    <2>1. \A k \in 1 .. m : k \in DOMAIN gallery
      BY <1>2
    <2>2. \A j \in DOMAIN gallery : j \in 1 .. m \/ \E k \in DOMAIN gallery' : j = m + k
      <3>1. ASSUME NEW j \in 1 .. Len(gallery), j \notin 1 .. m
            PROVE  j - m \in 1 .. (Len(gallery) - m) /\ j = m + (j - m)
        BY <1>2, <3>1
      <3> QED BY <1>2, <1>5, <3>1
    <2> QED BY <1>5, <2>1, <2>2 DEF Range
  <1>7. ASSUME IsInjective(gallery)
        PROVE  row \cap Range(gallery') = {} /\ IsInjective(gallery')
               /\ \A j, k \in 1 .. m : gallery[j] = gallery[k] => j = k
    <2>1. \A k \in 1 .. m : k \in DOMAIN gallery
      BY <1>2
    <2>2. \A j \in 1 .. m, k \in DOMAIN gallery' : j # m + k
      BY <1>2, <1>5
    <2>3. row \cap Range(gallery') = {}
      BY <1>5, <1>7, <2>1, <2>2 DEF Range, IsInjective
    <2>4. \A j, k \in DOMAIN gallery' : m + j = m + k => j = k
      BY <1>2, <1>5
    <2>5. IsInjective(gallery')
      BY <1>5, <1>7, <2>4 DEF IsInjective
    <2>6. \A j, k \in 1 .. m : gallery[j] = gallery[k] => j = k
      BY <1>7, <2>1 DEF IsInjective
    <2> QED BY <2>3, <2>5, <2>6
  <1>8. ASSUME NEW i, i # section
        PROVE  AssetsOf(i)' = AssetsOf(i) /\ (DrawnOnce(i)' <=> DrawnOnce(i))
    <2>1. Pictures(i)' = Pictures(i)
      BY <1>3, <1>4, <1>8 DEF Pictures
    <2>2. \A k \in Pictures(i) : drawn'[k] = drawn[k]
      BY <1>3 DEF Pictures
    <2> QED BY <2>1, <2>2 DEF AssetsOf, DrawnOnce
  <1>9. ASSUME NEW i, i = section
        PROVE  /\ AssetsOf(i)' = AssetsOf(i) \cup row
               /\ DrawnOnce(i) /\ IsInjective(gallery) /\ AssetsOf(i) \cap Range(gallery) = {} => DrawnOnce(i)'
    <2>1. Pictures(i)' = Pictures(i) \cup new
      <3>1. Pictures(i)' = {k \in DOMAIN drawn' : drawn'[k].kind = "image" /\ drawn'[k].of.number = i}
        BY DEF Pictures
      <3>2. \A k \in new : drawn'[k].kind = "image" /\ drawn'[k].of.number = i
        BY <1>3, <1>9 DEF new
      <3>3. \A k \in DOMAIN drawn : drawn'[k] = drawn[k]
        BY <1>3
      <3>4. DOMAIN drawn' = DOMAIN drawn \cup new
        BY <1>4
      <3>5. Pictures(i) = {k \in DOMAIN drawn : drawn[k].kind = "image" /\ drawn[k].of.number = i}
        BY DEF Pictures
      <3> HIDE DEF new
      <3> QED BY ONLY <3>1, <3>2, <3>3, <3>4, <3>5
    <2>2. \A k \in Pictures(i) : drawn'[k].asset = drawn[k].asset
      BY <1>3 DEF Pictures
    <2>3. \A k \in 1 .. m : drawn'[n + k].asset = gallery[k]
      BY <1>3
    <2>4. AssetsOf(i)' = {drawn'[k].asset : k \in Pictures(i)} \cup {drawn'[k].asset : k \in new}
      BY <2>1 DEF AssetsOf
    <2>5. {drawn'[k].asset : k \in Pictures(i)} = AssetsOf(i)
      BY <2>2 DEF AssetsOf
    <2>6. {drawn'[k].asset : k \in new} = row
      BY <2>3
    <2>7. ASSUME DrawnOnce(i), IsInjective(gallery), AssetsOf(i) \cap Range(gallery) = {}
          PROVE  DrawnOnce(i)'
      <3>1. \A j, k \in 1 .. m : gallery[j] = gallery[k] => j = k
        BY <1>7, <2>7
      <3>2. \A j \in Pictures(i), k \in 1 .. m : drawn[j].asset # gallery[k]
        BY <1>6, <2>7 DEF AssetsOf
      <3>3. \A j, k \in Pictures(i) : drawn[j].asset = drawn[k].asset => j = k
        BY <2>7 DEF DrawnOnce
      <3> QED BY <2>1, <2>2, <2>3, <3>1, <3>2, <3>3 DEF DrawnOnce
    <2> QED BY <2>4, <2>5, <2>6, <2>7
  <1> HIDE DEF row, new
  <1>10. Behind' = Behind /\ Begun
    BY <1>1, AskedSame DEF Behind, Begun
  <1>11. /\ section' \in 1 .. (Len(answer'.sections) + 1)
         /\ rendered' = UNION {Asked(j)' : j \in Behind'}
    BY <1>1, <1>10, AskedSame DEF Shown
  <1>12. \A k \in DOMAIN drawn' : drawn'[k].kind = "image" =>
            drawn'[k].of.number < section' \/ drawn'[k].of.number = section'
    <2>1. \A k \in new : drawn'[k].kind = "image" /\ drawn'[k].of.number = section
      BY <1>3 DEF new
    <2>2. \A k \in DOMAIN drawn : drawn'[k] = drawn[k]
      BY <1>3
    <2>3. \A k \in DOMAIN drawn : drawn[k].kind = "image" =>
             drawn[k].of.number < section \/ drawn[k].of.number = section
      BY <1>10 DEF Shown
    <2>4. section' = section /\ DOMAIN drawn' = DOMAIN drawn \cup new
      BY <1>1, <1>4
    <2> QED BY ONLY <2>1, <2>2, <2>3, <2>4
  <1>13. \A i \in Rendered' : i < section' => AssetsOf(i)' = Asked(i)' \ Earlier(i)' /\ DrawnOnce(i)'
    <2>1. section \in Nat
      BY DEF Types, Positive
    <2>2. \A i \in Rendered : i < section => AssetsOf(i) = Asked(i) \ Earlier(i) /\ DrawnOnce(i)
      BY <1>10 DEF Shown
    <2>3. \A i \in Rendered : i < section => i # section
      <3>1. ~(section < section)
        BY <2>1
      <3> QED BY <3>1
    <2> QED BY <1>1, <1>8, <2>2, <2>3, AskedSame
  <1>14. ASSUME NEW i \in Rendered', i = section'
         PROVE  /\ AssetsOf(i)' \cup Range(gallery') = Asked(i)' \ Earlier(i)'
                /\ AssetsOf(i)' \cap Range(gallery') = {}
                /\ DrawnOnce(i)' /\ IsInjective(gallery')
    <2>1. i \in Rendered /\ i = section /\ Asked(i)' = Asked(i) /\ Earlier(i)' = Earlier(i)
      BY <1>1, <1>14, AskedSame
    <2>2. /\ AssetsOf(i) \cup Range(gallery) = Asked(i) \ Earlier(i)
          /\ AssetsOf(i) \cap Range(gallery) = {}
          /\ DrawnOnce(i) /\ IsInjective(gallery)
      BY <1>1, <1>10, <2>1 DEF Shown
    <2> QED BY <1>6, <1>7, <1>9, <2>1, <2>2
  <1> QED BY <1>1, <1>11, <1>12, <1>13, <1>14 DEF Shown, Early, Late

LEMMA ShownStep ==
    ASSUME Pages, Prepared, Shown, Next
    PROVE  Shown'
  <1>1. CASE MapAliases
    BY <1>1 DEF MapAliases, Shown, Begun, Early, Late
  <1>2. CASE LoadReferencedImages
    <2>1. /\ section' = 1 /\ rendered' = {} /\ phase' \in {"cover", "failed"}
          /\ UNCHANGED <<answer, drawn>> /\ drawn' = << >>
      BY <1>2 DEF LoadReferencedImages, Shown, Early, Prepared
    <2>2. Behind' = {}
      <3>1. 1 .. (1 - 1) = {}
        OBVIOUS
      <3> QED BY <2>1, <3>1 DEF Behind
    <2>3. section' \in 1 .. (Len(answer'.sections) + 1)
      <3>1. Len(answer.sections) \in Nat
        BY DEF Pages, Types
      <3> QED BY <2>1, <3>1
    <2>4. \A i \in Rendered' : ~(i < section')
      <3>1. Rendered \subseteq DOMAIN answer.sections /\ answer.sections \in Seq(Sections)
        BY DEF Rendered, Pages, Types
      <3>2. \A i \in DOMAIN answer.sections : ~(i < 1)
        BY <3>1
      <3> QED BY <2>1, <3>1, <3>2, AskedSame
    <2> QED BY <2>1, <2>2, <2>3, <2>4 DEF Shown, Early, Late
  <1>3. CASE RenderCover \/ RenderSummary \/ RenderSection \/ RenderBlock \/ EndSections
             \/ RenderConclusion \/ RenderRecommendations \/ Finish
    <2>1. SamePictures
      BY <1>3, PagesCover, PagesClosing, PagesSection, PagesBlock, PagesIdle
    <2>2. /\ UNCHANGED <<answer, section, rendered>> /\ phase # "rows" /\ phase' # "rows" /\ Begun
          /\ phase' \in Early => phase \in Early
          /\ phase' \in Late => phase \in Late \/ section \notin DOMAIN answer.sections
      BY <1>3 DEF RenderCover, RenderSummary, RenderSection, RenderBlock, EndSections,
                  RenderConclusion, RenderRecommendations, Finish, Begun, Early, Late
    <2>3. section \notin DOMAIN answer.sections => section = Len(answer.sections) + 1
      <3>1. section \in 1 .. (Len(answer.sections) + 1) /\ Len(answer.sections) \in Nat
            /\ DOMAIN answer.sections = 1 .. Len(answer.sections)
        BY <2>2 DEF Shown, Pages, Types
      <3> QED BY <3>1
    <2> QED BY <2>1, <2>2, <2>3, ShownSame
  <1>4. CASE SkipSection
    <2>1. /\ UNCHANGED <<answer, rendered>> /\ section' = section + 1 /\ phase = "section" /\ phase' = "section"
          /\ section \in DOMAIN answer.sections /\ section \notin Rendered
      BY <1>4 DEF SkipSection, Rendered
    <2>2. Types /\ SamePictures
      BY <1>4, PagesIdle DEF Pages
    <2>3. Rendered \cap 1 .. (section - 1) = Rendered \cap 1 .. section
      <3>1. section \in Nat /\ section >= 1
        BY <2>2 DEF Types, Positive
      <3>2. 1 .. section = 1 .. (section - 1) \cup {section}
        BY <3>1
      <3> QED BY <2>1, <3>2
    <2>4. rendered' = UNION {Asked(j) : j \in Rendered \cap 1 .. section}
      BY <2>1, <2>3 DEF Shown, Begun, Behind
    <2> QED BY <2>1, <2>2, <2>4, ShownNext DEF Begun
  <1>5. CASE OpenGallery
    BY <1>5, PagesOpenGallery, ShownOpenGallery DEF Pages
  <1>6. CASE RenderRow
    BY <1>6, PagesRow, ShownRow DEF Pages
  <1>7. CASE CloseGallery
    <2>1. /\ UNCHANGED <<answer, rendered>> /\ section' = section + 1 /\ phase = "rows" /\ phase' = "section"
          /\ gallery = << >>
      BY <1>7 DEF CloseGallery, NextSection
    <2>2. Types /\ SamePictures
      BY <1>7, PagesIdle DEF Pages
    <2>3. section \in Rendered /\ section \in DOMAIN answer.sections
      BY <2>1 DEF Prepared, Rendered
    <2>4. rendered' = UNION {Asked(j) : j \in Rendered \cap 1 .. section}
      BY <2>1 DEF Shown, Begun, Behind
    <2>5. AssetsOf(section) = Asked(section) \ Earlier(section) /\ DrawnOnce(section)
      <3>1. Range(gallery) = {}
        BY <2>1 DEF Range
      <3> QED BY <2>1, <2>3, <3>1 DEF Shown, Begun
    <2> QED BY <2>1, <2>2, <2>3, <2>4, <2>5, ShownNext DEF Begun
  <1> QED BY <1>1, <1>2, <1>3, <1>4, <1>5, <1>6, <1>7 DEF Next

-----------------------------------------------------------------------------
(* The theorems.                                                           *)

LEMMA IInvInit == ASSUME Init PROVE IInv
  <1>1. /\ section = 1 /\ blocks = << >> /\ gallery = << >> /\ columns = 1 /\ rendered = {}
        /\ phase = "map" /\ drawn = << >> /\ cursor = [page |-> 1, y |-> PAGE_MARGIN_TOP]
    BY DEF Init
  <1>2. answer \in [sections : Seq(Sections), closing : Closings]
    <2>1. PICK n \in 1 .. MaxSections, closing \in Closings, sections \in [1 .. MaxSections -> Sections] :
            answer = [sections |-> SubSeq(sections, 1, n), closing |-> closing]
      BY DEF Init
    <2>2. MaxSections \in Nat
      BY RenderingConstants DEF Positive
    <2>3. sections \in Seq(Sections) /\ Len(sections) = MaxSections
      BY <2>2
    <2>4. SubSeq(sections, 1, n) \in Seq(Sections)
      BY <2>2, <2>3
    <2> QED BY <2>1, <2>4
  <1>3. cursor \in Cursors
    BY <1>1, Lengths DEF Cursors
  <1>4. Types
    BY <1>1, <1>2, <1>3 DEF Types, Positive
  <1>5. Laid /\ HeadingsKeepTheirText /\ Leads
    BY <1>1 DEF Laid, HeadingsKeepTheirText, Leads
  <1>6. Prepared
    BY <1>1 DEF Prepared
  <1>7. Shown
    BY <1>1 DEF Shown, Begun, Early, Late
  <1> QED BY <1>4, <1>5, <1>6, <1>7 DEF IInv

LEMMA IInvStep == ASSUME IInv, [Next]_vars PROVE IInv'
  <1>1. CASE Next
    <2>1. Pages /\ Prepared /\ Shown /\ Types
      BY DEF IInv, Pages
    <2>2. Pages' /\ Prepared' /\ Shown'
      BY <1>1, <2>1, PagesStep, PreparedStep, ShownStep
    <2> QED BY <2>2 DEF IInv, Pages
  <1>2. CASE UNCHANGED vars
    <2>1. UNCHANGED <<answer, result, loaded, phase, section, blocks, gallery, columns, rendered, cursor, drawn>>
      BY <1>2 DEF vars
    <2>2. SamePictures
      BY <2>1 DEF SamePictures
    <2>3. Types' /\ Laid' /\ HeadingsKeepTheirText'
      BY <2>1 DEF IInv, Types, Laid, HeadingsKeepTheirText, OnPage, Apart, Before, NotBelow
    <2>4. Leads'
      BY <2>1 DEF IInv, Leads, OneLine, Room
    <2>5. Prepared'
      BY <2>1, AskedSame DEF IInv, Prepared, UnknownAlias, mapImageAliases, Referenced
    <2>6. Behind' = Behind /\ (Begun' <=> Begun)
      BY <2>1, AskedSame DEF Behind, Begun
    <2>7. Shown'
      BY <2>1, <2>2, <2>6, AskedSame, PicturesSame DEF IInv, Shown
    <2> QED BY <2>3, <2>4, <2>5, <2>7 DEF IInv
  <1> QED BY <1>1, <1>2

LEMMA IInvHolds == Spec => []IInv
  BY IInvInit, IInvStep, PTL DEF Spec

\* For any images, answers and limits, what is drawn lies inside the margins and
\* on nothing else: texts and galleries ask for the space they need (ensureSpace,
\* ensureSectionSpace), and renderGallery keeps its images in their cells.
THEOREM PagesDoNotOverlap == Spec => []NothingOverlaps
  <1>1. IInv => NothingOverlaps
    BY LaidDoNotOverlap DEF IInv
  <1> QED BY <1>1, IInvHolds, PTL

\* For any answer, the estimate of ensureSectionSpace keeps a heading of one
\* line on the page on which its text begins.
THEOREM PagesKeepHeadings == Spec => []HeadingsKeepTheirText
  <1>1. IInv => HeadingsKeepTheirText
    BY DEF IInv
  <1> QED BY <1>1, IInvHolds, PTL

\* For any images and answers, a finished document has the images its sections
\* ask for by alias, each once and in the first section that asks for it:
\* mapImageAliases, loadReferencedImages and generate, which each drop
\* duplicates or what they do not know, lose and exchange none.
THEOREM PagesShowImages == Spec => []ImagesWhereAsked
  <1>1. ASSUME IInv, phase = "done", NEW i \in Rendered
        PROVE  /\ AssetsOf(i) = Asked(i) \ Earlier(i)
               /\ DrawnOnce(i)
    <2>1. Begun /\ section = Len(answer.sections) + 1
      BY <1>1 DEF IInv, Shown, Begun, Late
    <2>2. i < section
      <3>1. answer.sections \in Seq(Sections) /\ i \in DOMAIN answer.sections
        BY <1>1 DEF IInv, Types, Rendered
      <3>2. i \in 1 .. Len(answer.sections) /\ Len(answer.sections) \in Nat
        BY <3>1
      <3> QED BY <2>1, <3>2
    <2> QED BY <1>1, <2>1, <2>2 DEF IInv, Shown
  <1>2. IInv => ImagesWhereAsked
    BY <1>1 DEF ImagesWhereAsked, AssetsOf, DrawnOnce, Earlier
  <1> QED BY <1>2, IInvHolds, PTL

=============================================================================
