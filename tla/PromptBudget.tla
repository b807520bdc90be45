---------------------------- MODULE PromptBudget ----------------------------
(***************************************************************************)
(* What fits into a prompt: ShortTermMemory.select, the newest messages of *)
(* a conversation (src/backend/app/memory/short_term/policy.py), and       *)
(* ContextBuilder.build, the retrieved chunks with their citations         *)
(* (src/backend/app/rag/context/builder.py).  Both estimate a token as cpt *)
(* characters and never exceed budget tokens.                              *)
(***************************************************************************)
EXTENDS Integers, Sequences, SequencesExt, FiniteSetsExt, Selection

CeilDiv(a, b) == (a + b - 1) \div b

\* estimate_tokens of a text of len characters.
Tokens(len, cpt) == Max({1, CeilDiv(len, cpt)})

-----------------------------------------------------------------------------
(* Memory: messages are the lengths of their texts, oldest first. *)

\* A message that is kept, cut when it alone is longer than the budget.
Keep(w, len, budget, cpt) ==
    [w EXCEPT !.kept = <<Min({len, budget * cpt})>> \o w.kept,
              !.used = w.used + Min({Tokens(len, cpt), budget})]

\* Variant: the scan skips a message that does not fit and goes on with older ones.
ScanWithGaps(w, len, budget, cpt) ==
    IF w.kept # <<>> /\ w.used + Tokens(len, cpt) > budget THEN w
    ELSE Keep(w, len, budget, cpt)

\* One turn of the loop: the first message that does not fit any more ends it.
Scan(w, len, budget, cpt) ==
    IF w.full THEN w
    ELSE IF w.kept # <<>> /\ w.used + Tokens(len, cpt) > budget THEN [w EXCEPT !.full = TRUE]
    ELSE Keep(w, len, budget, cpt)

NoMessages == [kept |-> <<>>, used |-> 0, full |-> FALSE]

\* From the newest message back.
Select(messages, max, budget, cpt) ==
    LET newest == Newest(messages, max)
        scanned[k \in 0..Len(newest)] ==
            IF k = 0 THEN NoMessages
            ELSE Scan(scanned[k - 1], newest[Len(newest) - k + 1], budget, cpt)
    IN  scanned[Len(newest)]

-----------------------------------------------------------------------------
(* Context: a chunk is the length of its header "[1] file (page 1)", the   *)
(* length of its stripped text, and the blank positions in the text.       *)

\* snippet[:chars].rstrip(): the snippet ends at a character that is not blank.
Cut(chunk, chars) ==
    IF chunk.len <= chars THEN chunk.len ELSE Max({0} \cup ((1..chars) \ chunk.blanks))

\* A chunk to the right of those in r, when budget is left for its header.
Fit(chunk, r, budget, cpt) ==
    LET separator == IF r.entries = <<>> THEN 0 ELSE 1
        available == budget - r.used - Tokens(chunk.header, cpt) - separator
        snippet == Cut(chunk, available * cpt)
    IN  [room    |-> available > 0,
         cut     |-> available > 0 /\ snippet < chunk.len,
         entry   |-> [chunk |-> chunk, snippet |-> snippet],
         tokens  |-> Tokens(chunk.header + 1 + snippet, cpt) + separator]

\* Variant: the entry is not measured again after it was cut.
AddUnmeasured(r, chunk, budget, cpt) ==
    LET f == Fit(chunk, r, budget, cpt)
    IN  IF r.full \/ chunk.len = 0 THEN r
        ELSE IF ~f.room THEN [r EXCEPT !.full = TRUE, !.truncated = TRUE]
        ELSE [r EXCEPT !.entries = Append(@, f.entry),
                       !.used = @ + f.tokens,
                       !.truncated = @ \/ f.cut]

\* Variant: a chunk that does not fit any more is dropped silently.
AddSilently(r, chunk, budget, cpt) ==
    LET f == Fit(chunk, r, budget, cpt)
    IN  IF r.full \/ chunk.len = 0 THEN r
        ELSE IF ~f.room \/ r.used + f.tokens > budget THEN [r EXCEPT !.full = TRUE]
        ELSE [r EXCEPT !.entries = Append(@, f.entry),
                       !.used = @ + f.tokens,
                       !.truncated = @ \/ f.cut]

\* One turn of the loop: blank chunks are skipped, and the first chunk without room
\* for its header, or whose entry is too long even when cut, ends it.
Add(r, chunk, budget, cpt) ==
    LET f == Fit(chunk, r, budget, cpt)
    IN  IF r.full \/ chunk.len = 0 THEN r
        ELSE IF ~f.room \/ r.used + f.tokens > budget
             THEN [r EXCEPT !.full = TRUE, !.truncated = TRUE]
             ELSE [r EXCEPT !.entries = Append(@, f.entry),
                            !.used = @ + f.tokens,
                            !.truncated = @ \/ f.cut]

Nothing == [entries |-> <<>>, used |-> 0, truncated |-> FALSE, full |-> FALSE]

Build(chunks, budget, cpt) ==
    LET built[i \in 0..Len(chunks)] ==
            IF i = 0 THEN Nothing ELSE Add(built[i - 1], chunks[i], budget, cpt)
    IN  built[Len(chunks)]

\* The length of "\n\n".join(entries).
TextLength(entries) ==
    LET length[i \in 0..Len(entries)] ==
            IF i = 0 THEN 0
            ELSE length[i - 1] + entries[i].chunk.header + 1 + entries[i].snippet
                     + IF i = 1 THEN 0 ELSE 2
    IN  length[Len(entries)]

-----------------------------------------------------------------------------
\* The context keeps to its budget, also when the whole text is measured, with its
\* separators.
KeepsToBudget(chunks, budget, cpt) ==
    LET r == Build(chunks, budget, cpt)
    IN  /\ r.used <= budget
        /\ r.entries # <<>> => Tokens(TextLength(r.entries), cpt) <= r.used

\* It is marked as truncated exactly when some text is missing from it.
ReportsTruncation(chunks, budget, cpt) ==
    LET r == Build(chunks, budget, cpt)
        texts == Kept(chunks, {c \in ToSet(chunks) : c.len > 0})
        whole == [i \in DOMAIN texts |-> [chunk |-> texts[i], snippet |-> texts[i].len]]
    IN  r.truncated <=> r.entries # whole

\* The tokens of the newest k messages.
TotalTokens(messages, k, cpt) ==
    LET total[i \in 0..k] ==
            IF i = 0 THEN 0 ELSE total[i - 1] + Tokens(messages[Len(messages) - i + 1], cpt)
    IN  total[k]

\* The window that select is to find: as many of the newest messages as max and
\* the budget allow; when not even the newest fits, its beginning.
LongestFit(messages, max, budget, cpt) ==
    LET fitting == {k \in 0..Min({max, Len(messages)}) : TotalTokens(messages, k, cpt) <= budget}
    IN  IF messages # <<>> /\ Max(fitting) = 0
        THEN <<Min({Last(messages), budget * cpt})>>
        ELSE Newest(messages, Max(fitting))
=============================================================================
