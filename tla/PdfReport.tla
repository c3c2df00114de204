------------------------------- MODULE PdfReport -------------------------------
(***************************************************************************)
(* From the provider's structured answer to the pages of the report: the   *)
(* aliases under which the images were sent are mapped back to assets      *)
(* (openai-report-provider.service.ts), references are checked and the     *)
(* referenced images loaded (processor), and the document is laid out      *)
(* (pdf-report.service.ts).  Lengths are in points, rounded; texts are     *)
(* their numbers of lines, as PDFKit wraps them.                           *)
(***************************************************************************)
EXTENDS Naturals, Sequences, FiniteSetsExt, Functions

CONSTANTS
    Images,        \* the image assets of the snapshot, in their order
    Source,        \* width, height and EXIF orientation of an image
    Bytes,         \* its verified size
    Sections,      \* sections an answer may have
    MaxSections,   \* bound: sections of an answer
    Closings,      \* lines of summary, conclusion, recommendations; 0 if absent
    MaxPages,      \* REPORT_PDF_MAX_PAGES
    MaxImageBytes  \* REPORT_PDF_MAX_IMAGE_BYTES

\* A4 and the constants of the service.
PAGE_WIDTH == 595
PAGE_HEIGHT == 842
PAGE_MARGIN_X == 56
PAGE_MARGIN_TOP == 62
PAGE_MARGIN_BOTTOM == 66
GALLERY_GAP == 12
SINGLE_IMAGE_MAX_WIDTH == 360
SINGLE_IMAGE_MAX_HEIGHT == 300
GRID_IMAGE_MAX_HEIGHT == 210
MIN_TWO_COLUMN_IMAGE_WIDTH == 84
CLOSING_SECTIONS_MIN_HEIGHT == 175

\* Lines of Noto Sans 10.5, 16 and 26 with their gaps, and the moveDown calls
\* before a heading, before a text and before a gallery.
BodyLine == 17
HeadingLine == 23
TitleLine == 38
HeadingGap == 16
TextGap == 11
GalleryGap == 13
CoverGaps == 70

contentWidth == PAGE_WIDTH - 2 * PAGE_MARGIN_X
contentBottom == PAGE_HEIGHT - PAGE_MARGIN_BOTTOM

Kinds == {"summary", "conclusion", "recommendations"}

Positive == Nat \ {0}

\* A section: the dedicated kind of its title or "other", the lines of its
\* title, its blocks (lines of the first paragraph or item, and of all), and
\* the aliases it refers to, IMAGE_n as n.  No text of an answer is empty.
ASSUME RenderingConstants ==
    /\ Images \in Seq(Range(Images)) /\ IsInjective(Images)
    /\ \A a \in Range(Images) : Source[a] \in [width : Positive, height : Positive, orientation : 0..8]
    /\ \A s \in Sections :
        /\ s.kind \in Kinds \cup {"other"} /\ s.titleLines \in Positive
        /\ s.blocks \in Seq([first : Positive, lines : Positive]) /\ s.blocks # << >>
        /\ s.refs \in Seq(Positive)
    /\ Closings \subseteq [summary : Positive, conclusion : Nat, recommendations : Nat]
    /\ MaxSections \in Positive /\ MaxPages \in Nat /\ MaxImageBytes \in Nat

VARIABLES
    answer,    \* the parsed answer of the provider
    result,    \* imageAssetIds of its sections, once mapped
    loaded,    \* the assets whose bytes are loaded
    phase,     \* what is done next
    section,   \* the section being rendered
    blocks,    \* its blocks still to be rendered
    gallery,   \* its images still to be drawn
    columns,   \* columns of its gallery
    rendered,  \* renderedImageAssetIds
    cursor,    \* page and document.y
    drawn      \* history: what is on the pages, in the order it was drawn

vars == <<answer, result, loaded, phase, section, blocks, gallery, columns, rendered, cursor, drawn>>

Init ==
    /\ \E n \in 1..MaxSections, closing \in Closings, sections \in [1..MaxSections -> Sections] :
        answer = [sections |-> SubSeq(sections, 1, n), closing |-> closing]
    /\ result = << >> /\ loaded = {}
    /\ phase = "map" /\ section = 1 /\ blocks = << >> /\ gallery = << >> /\ columns = 1
    /\ rendered = {}
    /\ cursor = [page |-> 1, y |-> PAGE_MARGIN_TOP]
    /\ drawn = << >>

-----------------------------------------------------------------------------
(* Images.                                                                 *)

\* The members of a list that are in a set, once each.
Fresh(ids, set) ==
    LET kept[n \in 0..Len(ids)] ==
            IF n = 0 THEN << >>
            ELSE IF ids[n] \in set \ Range(kept[n - 1]) THEN Append(kept[n - 1], ids[n])
            ELSE kept[n - 1]
    IN  kept[Len(ids)]

Asset(alias) == Images[alias]

mapImageAliases ==
    [i \in DOMAIN answer.sections |->
        LET refs == answer.sections[i].refs IN
        Fresh([k \in DOMAIN refs |-> Asset(refs[k])], Range(Images))]

\* The response schema, and mapImageAliases after it, refuse an unknown alias.
UnknownAlias ==
    \E i \in DOMAIN answer.sections : ~(Range(answer.sections[i].refs) \subseteq DOMAIN Images)

MapAliases ==
    /\ phase = "map"
    /\ IF UnknownAlias
       THEN phase' = "failed" /\ UNCHANGED result
       ELSE phase' = "load" /\ result' = mapImageAliases
    /\ UNCHANGED <<answer, loaded, section, blocks, gallery, columns, rendered, cursor, drawn>>

Referenced == UNION {Range(result[i]) : i \in DOMAIN result}

TotalBytes(assets) == MapThenSumSet(LAMBDA a : Bytes[a], assets)

LoadReferencedImages ==
    /\ phase = "load"
    /\ loaded' = Range(Images) \cap Referenced
    /\ phase' = IF TotalBytes(loaded') > MaxImageBytes THEN "failed" ELSE "cover"
    /\ UNCHANGED <<answer, result, section, blocks, gallery, columns, rendered, cursor, drawn>>

orientedImageDimensions(a) ==
    LET source == Source[a] IN
    IF source.orientation > 4
    THEN [width |-> source.height, height |-> source.width]
    ELSE [width |-> source.width, height |-> source.height]

\* Scaled by the smaller of both ratios, never up.
fitImageDimensions(source, maximumWidth, maximumHeight) ==
    [width  |-> Min({source.width, maximumWidth, (source.width * maximumHeight) \div source.height}),
     height |-> Min({source.height, maximumHeight, (source.height * maximumWidth) \div source.width})]

-----------------------------------------------------------------------------
(* The cursor.                                                             *)

Move(at, points) == [at EXCEPT !.y = @ + points]
NewPage(at) == [page |-> at.page + 1, y |-> PAGE_MARGIN_TOP]

needsPageBreak(y, points) == y + points > contentBottom
EnsureSpace(at, points) == IF needsPageBreak(at.y, points) THEN NewPage(at) ELSE at
ensureSectionSpaceForgotten(at, firstLines) == at
ensureSectionSpace(at, firstLines) == EnsureSpace(at, 66 + Min({firstLines * BodyLine, 68}))

\* PDFKit's text: line by line, with a new page where a line does not fit.
Text(kind, of, at, lines, line) ==
    LET from == EnsureSpace(at, line)
        fit  == (contentBottom - from.y) \div line
        rest == lines - fit
        each == (contentBottom - PAGE_MARGIN_TOP) \div line
        more == (rest + each - 1) \div each
        to   == IF lines <= fit THEN Move(from, lines * line)
                ELSE [page |-> from.page + more,
                      y |-> PAGE_MARGIN_TOP + (rest - (more - 1) * each) * line]
    IN  [kind |-> kind, of |-> of, lines |-> lines, from |-> from, to |-> to,
         left |-> PAGE_MARGIN_X, right |-> PAGE_WIDTH - PAGE_MARGIN_X]

Heading(of, at, lines) == Text("heading", of, Move(at, HeadingGap), lines, HeadingLine)
\* The divider under a heading.
Below(heading) == Move(heading.to, 9)

\* The part of the document something is drawn for: a section or a part of its own.
Part(kind) == [part |-> kind, number |-> 0]
ThisSection == [part |-> "section", number |-> section]

\* renderNamedSection, and the list of recommendations.
NamedSection(of, at, firstLines, lines) ==
    LET heading == Heading(Part(of), ensureSectionSpace(at, firstLines), 1)
        text == Text("text", Part(of), Move(Below(heading), TextGap), lines, BodyLine)
    IN  /\ drawn' = drawn \o <<heading, text>>
        /\ cursor' = text.to

-----------------------------------------------------------------------------
(* The document.                                                           *)

RenderCover ==
    /\ phase = "cover"
    /\ phase' = "summary"
    /\ LET title == Text("title", Part("cover"), cursor, 1, TitleLine) IN
       /\ drawn' = <<title>>
       /\ cursor' = Move(title.to, CoverGaps)
    /\ UNCHANGED <<answer, result, loaded, section, blocks, gallery, columns, rendered>>

RenderSummary ==
    /\ phase = "summary"
    /\ phase' = "section"
    /\ NamedSection("summary", cursor, answer.closing.summary, answer.closing.summary)
    /\ UNCHANGED <<answer, result, loaded, section, blocks, gallery, columns, rendered>>

\* A section that a dedicated field of the answer replaces.
Replaced(s) == s.kind # "other" /\ answer.closing[s.kind] > 0

SkipSection ==
    /\ phase = "section" /\ section \in DOMAIN answer.sections
    /\ Replaced(answer.sections[section])
    /\ section' = section + 1
    /\ UNCHANGED <<answer, result, loaded, phase, blocks, gallery, columns, rendered, cursor, drawn>>

RenderSection ==
    /\ phase = "section" /\ section \in DOMAIN answer.sections
    /\ LET s == answer.sections[section]
           heading == Heading(ThisSection, ensureSectionSpace(cursor, s.blocks[1].first), s.titleLines)
       IN  /\ ~Replaced(s)
           /\ drawn' = Append(drawn, heading)
           /\ cursor' = Below(heading)
           /\ blocks' = s.blocks
    /\ phase' = "blocks"
    /\ UNCHANGED <<answer, result, loaded, section, gallery, columns, rendered>>

RenderBlock ==
    /\ phase = "blocks" /\ blocks # << >>
    /\ LET text == Text("text", ThisSection, Move(cursor, TextGap), Head(blocks).lines, BodyLine) IN
       /\ drawn' = Append(drawn, text)
       /\ cursor' = text.to
    /\ blocks' = Tail(blocks)
    /\ UNCHANGED <<answer, result, loaded, phase, section, gallery, columns, rendered>>

twoColumnCellWidth == (contentWidth - GALLERY_GAP) \div 2

\* One column for one image, or for two that two columns would make too narrow.
galleryColumnCount(images) ==
    LET narrow(a) == fitImageDimensions(orientedImageDimensions(a), twoColumnCellWidth,
                                        GRID_IMAGE_MAX_HEIGHT).width < MIN_TWO_COLUMN_IMAGE_WIDTH
    IN  IF Len(images) = 1 \/ (Len(images) = 2 /\ \E a \in Range(images) : narrow(a))
        THEN 1 ELSE 2

NextSection == phase' = "section" /\ section' = section + 1

AllImages(ids) == ids
\* Each image is drawn where it is referred to first.
NewImages(ids) == Fresh(ids, loaded \ rendered)

OpenGallery ==
    LET images == NewImages(result[section]) IN
    /\ phase = "blocks" /\ blocks = << >>
    /\ rendered' = rendered \cup Range(images)
    /\ gallery' = images
    /\ IF images = << >>
       THEN NextSection /\ UNCHANGED <<columns, cursor>>
       ELSE /\ phase' = "rows"
            /\ columns' = galleryColumnCount(images)
            /\ cursor' = Move(cursor, GalleryGap)
            /\ UNCHANGED section
    /\ UNCHANGED <<answer, result, loaded, blocks, drawn>>

cellWidth == IF columns = 1 THEN Min({contentWidth, SINGLE_IMAGE_MAX_WIDTH}) ELSE twoColumnCellWidth
maximumHeight == IF columns = 1 THEN SINGLE_IMAGE_MAX_HEIGHT ELSE GRID_IMAGE_MAX_HEIGHT
Fitted(a) == fitImageDimensions(orientedImageDimensions(a), cellWidth, maximumHeight)

\* Image number column of a row of n that starts at rowTop.
Placed(a, column, n, rowTop, rowHeight) ==
    LET rowLeft == PAGE_MARGIN_X + (contentWidth - (n * cellWidth + (n - 1) * GALLERY_GAP)) \div 2
        left == rowLeft + (column - 1) * (cellWidth + GALLERY_GAP)
                        + (cellWidth - Fitted(a).width) \div 2
        top == Move(rowTop, (rowHeight - Fitted(a).height) \div 2)
    IN  [kind |-> "image", of |-> ThisSection, asset |-> a, lines |-> 0,
         from |-> top, to |-> Move(top, Fitted(a).height),
         left |-> left, right |-> left + Fitted(a).width]

RowSpaceWithoutBreak(rowHeight) == cursor
RowSpace(rowHeight) == EnsureSpace(cursor, rowHeight + GALLERY_GAP)

RenderRow ==
    LET row == SubSeq(gallery, 1, Min({columns, Len(gallery)}))
        rowHeight == Max({Fitted(a).height : a \in Range(row)})
        rowTop == RowSpace(rowHeight)
    IN  /\ phase = "rows" /\ gallery # << >>
        /\ drawn' = drawn \o [k \in DOMAIN row |-> Placed(row[k], k, Len(row), rowTop, rowHeight)]
        /\ cursor' = Move(rowTop, rowHeight + GALLERY_GAP)
        /\ gallery' = SubSeq(gallery, Len(row) + 1, Len(gallery))
        /\ UNCHANGED <<answer, result, loaded, phase, section, blocks, columns, rendered>>

CloseGallery ==
    /\ phase = "rows" /\ gallery = << >>
    /\ NextSection
    /\ UNCHANGED <<answer, result, loaded, blocks, gallery, columns, rendered, cursor, drawn>>

EndSections ==
    /\ phase = "section" /\ section \notin DOMAIN answer.sections
    /\ phase' = "conclusion"
    /\ UNCHANGED <<answer, result, loaded, section, blocks, gallery, columns, rendered, cursor, drawn>>

RenderConclusion ==
    LET lines == answer.closing.conclusion
        at == IF answer.closing.recommendations > 0
              THEN EnsureSpace(cursor, CLOSING_SECTIONS_MIN_HEIGHT) ELSE cursor
    IN  /\ phase = "conclusion"
        /\ phase' = "recommendations"
        /\ IF lines > 0 THEN NamedSection("conclusion", at, lines, lines)
           ELSE UNCHANGED <<cursor, drawn>>
        /\ UNCHANGED <<answer, result, loaded, section, blocks, gallery, columns, rendered>>

\* Each recommendation is a line here.
RenderRecommendations ==
    LET lines == answer.closing.recommendations IN
    /\ phase = "recommendations"
    /\ phase' = "finish"
    /\ IF lines > 0 THEN NamedSection("recommendations", cursor, 1, lines)
       ELSE UNCHANGED <<cursor, drawn>>
    /\ UNCHANGED <<answer, result, loaded, section, blocks, gallery, columns, rendered>>

Finish ==
    /\ phase = "finish"
    /\ phase' = IF cursor.page > MaxPages THEN "failed" ELSE "done"
    /\ UNCHANGED <<answer, result, loaded, section, blocks, gallery, columns, rendered, cursor, drawn>>

Next ==
    \/ MapAliases \/ LoadReferencedImages
    \/ RenderCover \/ RenderSummary
    \/ SkipSection \/ RenderSection \/ RenderBlock \/ OpenGallery \/ RenderRow \/ CloseGallery
    \/ EndSections \/ RenderConclusion \/ RenderRecommendations \/ Finish

Spec == Init /\ [][Next]_vars

-----------------------------------------------------------------------------
(* Properties.                                                             *)

\* a ends before b begins.
Before(a, b) ==
    \/ a.to.page < b.from.page
    \/ a.to.page = b.from.page /\ a.to.y <= b.from.y

\* Everything is drawn inside the margins and nothing over anything else: what
\* is drawn later lies below, or beside it in the same row of a gallery.
NothingOverlaps ==
    /\ \A i \in DOMAIN drawn :
        /\ drawn[i].from.y >= PAGE_MARGIN_TOP /\ drawn[i].to.y <= contentBottom
        /\ drawn[i].left >= PAGE_MARGIN_X /\ drawn[i].right <= PAGE_WIDTH - PAGE_MARGIN_X
    /\ \A i, j \in DOMAIN drawn : i < j =>
        \/ Before(drawn[i], drawn[j])
        \/ /\ drawn[i].kind = "image" /\ drawn[j].kind = "image"
           /\ drawn[i].right <= drawn[j].left

\* A heading of one line stays on a page with the beginning of its text, four
\* lines of it or as many as are measured of the first paragraph or item (an
\* item without its bullet and indent).
HeadingsKeepTheirText ==
    \A i \in DOMAIN drawn : drawn[i].kind = "heading" /\ drawn[i].lines = 1 /\ i < Len(drawn) =>
        LET text == drawn[i + 1]
            first == CASE text.of.part = "section" -> answer.sections[text.of.number].blocks[1].first
                       [] text.of.part = "recommendations" -> 1
                       [] OTHER -> text.lines
        IN  /\ text.from.page = drawn[i].from.page
            /\ text.from.y + BodyLine * Min({first, 4}) <= contentBottom

Rendered == {i \in DOMAIN answer.sections : ~Replaced(answer.sections[i])}
Asked(i) == {Images[alias] : alias \in Range(answer.sections[i].refs)}
Pictures(i) == {n \in DOMAIN drawn : drawn[n].kind = "image" /\ drawn[n].of.number = i}

\* The reader sees the images the provider was shown under the aliases it
\* used, each once in the document, in the first section that asks for it.
ImagesWhereAsked ==
    phase = "done" => \A i \in Rendered :
        /\ {drawn[n].asset : n \in Pictures(i)} = Asked(i) \ UNION {Asked(j) : j \in Rendered \cap 1..(i - 1)}
        /\ \A n, m \in Pictures(i) : drawn[n].asset = drawn[m].asset => n = m

=============================================================================
