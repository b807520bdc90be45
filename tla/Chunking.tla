------------------------------ MODULE Chunking ------------------------------
(***************************************************************************)
(* FixedCharacterChunker.split (src/backend/app/rag/chunkers/fixed.py):    *)
(* each page of a document is cut into windows of at most size characters  *)
(* of which neighbours share overlap.  A page is the length of its text.   *)
(***************************************************************************)
EXTENDS Integers, Sequences, SequencesExt, FiniteSetsExt, Selection

\* The constructor rejects every other pair.
WindowSizes(max) == {w \in (1..max) \X (0..max) : w[2] < w[1]}

Window(p, w, len, size) ==
    [page |-> p, start |-> w.start, end |-> Min({w.start + size, len})]

\* Variant: the loop goes on after the window that reaches the end of the page.
TurnWithoutBreak(w, p, len, size, overlap) ==
    LET window == Window(p, w, len, size)
    IN  IF w.start >= len THEN w
        ELSE [chunks |-> Append(w.chunks, window), start |-> window.end - overlap, done |-> FALSE]

\* One turn of the while loop over page p.
Turn(w, p, len, size, overlap) ==
    LET window == Window(p, w, len, size)
    IN  IF w.done \/ w.start >= len THEN w
        ELSE [chunks |-> Append(w.chunks, window), start |-> window.end - overlap,
              done |-> window.end = len]

Start == [chunks |-> <<>>, start |-> 0, done |-> FALSE]

\* The loop.  Every turn gains a character or ends it, so len turns are all it takes.
Windows(p, len, size, overlap) ==
    LET turned[i \in 0..len] ==
            IF i = 0 THEN Start ELSE Turn(turned[i - 1], p, len, size, overlap)
    IN  turned[len].chunks

\* The chunks of a document: those of its pages, one page after the other.
Split(pages, size, overlap) ==
    LET split[p \in 0..Len(pages)] ==
            IF p = 0 THEN <<>> ELSE split[p - 1] \o Windows(p, pages[p], size, overlap)
    IN  split[Len(pages)]

-----------------------------------------------------------------------------
\* The chunks of a page tile it: they begin at its first character, end at its
\* last, share exactly overlap characters with their neighbour, are full except
\* for the last one, and none lies within another.
Tiles(chunks, len, size, overlap) ==
    IF len = 0 THEN chunks = <<>>
    ELSE /\ chunks # <<>>
         /\ chunks[1].start = 0
         /\ Last(chunks).end = len
         /\ \A i \in DOMAIN chunks :
                /\ chunks[i].end - chunks[i].start \in 1..size
                /\ i < Len(chunks) =>
                       /\ chunks[i].end - chunks[i].start = size
                       /\ chunks[i + 1].start = chunks[i].end - overlap
                       /\ chunks[i + 1].end > chunks[i].end

OfPage(p) == [page : {p}, start : Int, end : Int]

\* The chunks of every page tile it, whatever the other pages are.
PagesTile(pages, size, overlap) ==
    \A p \in DOMAIN pages :
        Tiles(Kept(Split(pages, size, overlap), OfPage(p)), pages[p], size, overlap)
=============================================================================
