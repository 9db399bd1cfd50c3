------------------------------- MODULE Chunking --------------------------------
(***************************************************************************)
(* From the pages of a document to chunks that know the page they came     *)
(* from: rag/ingestion/pipeline, DocumentParser._parse_pdf, _stitch_pages, *)
(* Chunker and page_numbers_for_offsets, as functions of the pages.        *)
(*                                                                         *)
(* A character of the stitched text carries the page it really came from,  *)
(* which the code does not have: the reference the spans are held against. *)
(* Offsets count from 0, sequences from 1.                                 *)
(***************************************************************************)
EXTENDS Integers, Sequences, FiniteSets, SequencesExt

CONSTANTS
  MaxPages,      \* BOUND: pages of a document
  MaxPageChars,  \* BOUND: characters of a page
  ChunkSize, Overlap,
  MaxSection     \* MAX_SECTION_CHARS

ASSUME ChunkingAssumption ==
  /\ MaxPages \in Nat /\ MaxPageChars \in Nat /\ MaxSection \in Nat \ {0}
  /\ ChunkSize \in Nat \ {0} /\ Overlap \in Nat /\ Overlap < ChunkSize

VARIABLE pages  \* what extract_text gave of each page

\* A letter, a hyphen, an end of sentence, a blank, the number of a section.
Letters == {"a", "-", ".", " ", "1"}
Blanks == {" ", "newline"}

PagesInit == pages \in BoundedSeq(BoundedSeq(Letters, MaxPageChars), MaxPages)

\* rstrip and lstrip.
RStrip(s) == IF \E i \in DOMAIN s : s[i] \notin Blanks
             THEN SubSeq(s, 1, Max({i \in DOMAIN s : s[i] \notin Blanks})) ELSE <<>>
LStrip(s) == Reverse(RStrip(Reverse(s)))

\* Character c of page p.
OfPage(s, p) == [i \in DOMAIN s |-> [c |-> s[i], page |-> p]]

\* Where a page starts when it is joined to what comes before it.
SpanStart_HyphenKept(out) == Len(out)
SpanStart(out) == IF Last(out).c = "-" THEN Len(out) - 1 ELSE Len(out)

\* The text so far with one more page: a hyphen goes, a sentence goes on, a
\* new one gets a line of its own.
Joined(out, s, p) ==
  CASE Last(out).c = "-" -> Front(out) \o OfPage(LStrip(s), p)
    [] Last(out).c = "." -> Append(out, [c |-> "newline", page |-> p]) \o OfPage(s, p)
    [] OTHER -> out \o OfPage(LStrip(s), p)

\* _stitch_pages_with_spans, one page
AddPage(acc, p) ==
  LET s == RStrip(pages[p])
      out == IF s = <<>> THEN acc.out
             ELSE IF acc.out = <<>> THEN OfPage(s, p) ELSE Joined(acc.out, s, p)
      from == IF s = <<>> THEN Len(out) ELSE IF acc.out = <<>> THEN 0 ELSE SpanStart(acc.out) IN
    [out |-> out, spans |-> Append(acc.spans, [page |-> p, first |-> from, last |-> Len(out)])]

Stitched ==
  LET upTo[p \in 0..Len(pages)] ==
        IF p = 0 THEN [out |-> <<>>, spans |-> <<>>] ELSE AddPage(upTo[p - 1], p)
  IN upTo[Len(pages)]

\* bisect_right over the starts of the spans, which it takes to be sorted.
BisectRight(starts, x) ==
  LET places == 0..Len(starts)
      search[range \in places \X places] ==
        LET lo == range[1]
            hi == range[2]
            mid == (lo + hi) \div 2 IN
          IF lo >= hi THEN lo
          ELSE IF x < starts[mid + 1] THEN search[<<lo, mid>>] ELSE search[<<mid + 1, hi>>]
  IN search[<<0, Len(starts)>>]

\* page_numbers_for_offsets: 0 where the code has None.
PageOfOffset(spans, offset) ==
  LET pos == BisectRight([i \in DOMAIN spans |-> spans[i].first], offset) IN
    IF pos > 0 /\ spans[pos].first <= offset /\ offset < spans[pos].last THEN spans[pos].page ELSE 0

(***************************************************************************)
(* The chunker: chunks as the offsets [first, last) they cover.            *)
(***************************************************************************)

Visible(text, chunk) == \E i \in chunk.first + 1..chunk.last : text[i].c \notin Blanks
Lesser(a, b) == IF a < b THEN a ELSE b

\* Chunker.chunk
FixedChunks(text) ==
  LET step == ChunkSize - Overlap
      starts == {i \in 0..Len(text) - 1 : i % step = 0} IN
    {k \in {[first |-> i, last |-> Lesser(i + ChunkSize, Len(text))] : i \in starts} : Visible(text, k)}

\* _split_oversized: where the piece that starts at s ends.
Cut(text, s, total) ==
  LET full == Lesser(s + MaxSection, total)
      window == s + (MaxSection \div 2) .. full - 1
      newlines == {i \in window : text[i + 1].c = "newline"}
      endings == {i \in window : text[i + 1].c = "."} IN
    IF full = total THEN full
    ELSE IF newlines # {} THEN Max(newlines) + 1
    ELSE IF endings # {} THEN Max(endings) + 1 ELSE full

SplitOversized(text, from, total) ==
  LET pieces[s \in from..total] ==
        IF s = total THEN {}
        ELSE {[first |-> s, last |-> Cut(text, s, total)]} \cup pieces[Cut(text, s, total)]
  IN pieces[from]

\* _chunk_by_section: a section runs from its number to the next; a text
\* without one visible character falls back to fixed chunks.
SectionChunks(text) ==
  LET heads == {i \in 0..Len(text) - 1 : text[i + 1].c = "1"}
      bounds == {0, Len(text)} \cup heads
      sections == {sec \in bounds \X bounds :
                     sec[1] < sec[2] /\ \A k \in bounds : k <= sec[1] \/ k >= sec[2]}
      chunks == {k \in UNION {SplitOversized(text, sec[1], sec[2]) : sec \in sections} : Visible(text, k)} IN
    IF chunks = {} THEN FixedChunks(text) ELSE chunks

ChunkingSpec == PagesInit /\ [][FALSE]_pages
--------------------------------------------------------------------------------

\* A blank page after a hyphen puts the spans out of order, which the search in
\* page_numbers_for_offsets does not expect: see the README.
InOrder(spans) == \A i, j \in DOMAIN spans : i < j => spans[i].first <= spans[j].first

\* "Every chunk can be traced back to the page it came from", and no visible
\* character of the text is in none, for both strategies.
ChunksKnowTheirPage ==
  LET text == Stitched.out
      spans == Stitched.spans IN
    \A chunks \in {FixedChunks(text), SectionChunks(text)} :
      /\ \A k \in chunks : InOrder(spans) => PageOfOffset(spans, k.first) = text[k.first + 1].page
      /\ \A i \in DOMAIN text : text[i].c \notin Blanks =>
           \E k \in chunks : k.first < i /\ i <= k.last
================================================================================
