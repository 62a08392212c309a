----------------------------- MODULE ThinkSplit -----------------------------
(***************************************************************************)
(* struct ThinkSplit of src/server/http_server.cpp: an incremental parser  *)
(* that divides the generated text, which comes in chunks cut anywhere,    *)
(* into the reasoning between <think> and </think> and the content after   *)
(* it.  A text is a sequence of characters; the two tags are parameters,   *)
(* so that short ones can stand for the real ones.                         *)
(***************************************************************************)
EXTENDS Integers, Sequences, SequencesExt, FiniteSetsExt

CONSTANTS Char,      \* characters
          Sep,       \* the separators, newline and space
          Open,      \* OPEN, "<think>"
          Close,     \* CLOSE, "</think>"
          MaxChunk,  \* bound on the length of one chunk
          MaxText    \* bound on the length of the whole text

ASSUME ConstAssumption ==
    /\ Sep \subseteq Char
    /\ Open \in Seq(Char) /\ Open # << >>
    /\ Close \in Seq(Char) /\ Close # << >>
    /\ MaxChunk \in Nat /\ MaxText \in Nat

VARIABLES mode,       \* INIT, THINKING or CONTENT
          buf,        \* text that has not been emitted yet
          reasoning,  \* what emit("reasoning", ..) has been given so far
          content,    \* what emit("content", ..) has been given so far
          fed,        \* all the text so far
          flushed     \* flush has been called

vars == <<mode, buf, reasoning, content, fed, flushed>>

\* std::string::find: the first place where t occurs in s, 0 if none.
Find(s, t) ==
    LET at == {i \in 1..(Len(s) - Len(t) + 1) :
                 SubSeq(s, i, i + Len(t) - 1) = t}
    IN IF at = {} THEN 0 ELSE Min(at)

Drop(s, n) == SubSeq(s, n + 1, Len(s))

\* The loop that eats the conventional separator.
EatSeparators(s) ==
    LET text == {i \in 1..Len(s) : s[i] \notin Sep}
    IN IF text = {} THEN << >> ELSE Drop(s, Min(text) - 1)

Init ==
    /\ mode = "INIT" /\ buf = << >>
    /\ reasoning = << >> /\ content = << >>
    /\ fed = << >> /\ flushed = FALSE

\* The three turns of feed's loop, on the buffer b.
InContent(b) ==
    /\ mode' = "CONTENT"
    /\ content' = content \o b
    /\ buf' = << >>

\* A fault: one character too few is held back.
LeakyThinking(b) ==
    LET pos == Find(b, Close)
        safe == Len(b) - (Len(Close) - 2)
    IN IF pos > 0
       THEN /\ reasoning' = reasoning \o SubSeq(b, 1, pos - 1)
            /\ InContent(EatSeparators(Drop(b, pos - 1 + Len(Close))))
       ELSE /\ mode' = "THINKING"
            /\ IF Len(b) > Len(Close)
               THEN /\ reasoning' = reasoning \o SubSeq(b, 1, safe)
                    /\ buf' = Drop(b, safe)
               ELSE buf' = b /\ UNCHANGED reasoning
            /\ UNCHANGED content

\* A fault: everything is held back until the closing tag.
PatientThinking(b) ==
    LET pos == Find(b, Close)
    IN IF pos > 0
       THEN /\ reasoning' = reasoning \o SubSeq(b, 1, pos - 1)
            /\ InContent(EatSeparators(Drop(b, pos - 1 + Len(Close))))
       ELSE mode' = "THINKING" /\ buf' = b /\ UNCHANGED <<reasoning, content>>

InThinking(b) ==
    LET pos == Find(b, Close)
        safe == Len(b) - (Len(Close) - 1)
    IN IF pos > 0
       THEN /\ reasoning' = reasoning \o SubSeq(b, 1, pos - 1)
            /\ InContent(EatSeparators(Drop(b, pos - 1 + Len(Close))))
       ELSE /\ mode' = "THINKING"
            /\ IF Len(b) > Len(Close)
               THEN /\ reasoning' = reasoning \o SubSeq(b, 1, safe)
                    /\ buf' = Drop(b, safe)
               ELSE buf' = b /\ UNCHANGED reasoning
            /\ UNCHANGED content

InInit(b) ==
    IF IsStrictPrefix(b, Open)
    THEN buf' = b /\ UNCHANGED <<mode, reasoning, content>>
    ELSE IF IsPrefix(Open, b) THEN InThinking(Drop(b, Len(Open)))
    ELSE InContent(b) /\ UNCHANGED reasoning

feed(chunk) ==
    /\ ~flushed
    /\ Len(fed) + Len(chunk) <= MaxText
    /\ fed' = fed \o chunk
    /\ LET b == buf \o chunk
       IN CASE mode = "INIT"     -> InInit(b)
            [] mode = "THINKING" -> InThinking(b)
            [] mode = "CONTENT"  -> InContent(b) /\ UNCHANGED reasoning
    /\ UNCHANGED flushed

flush ==
    /\ ~flushed
    /\ flushed' = TRUE
    /\ IF mode = "THINKING"
       THEN reasoning' = reasoning \o buf /\ UNCHANGED content
       ELSE content' = content \o buf /\ UNCHANGED reasoning
    /\ buf' = << >>
    /\ UNCHANGED <<mode, fed>>

Chunks == UNION {[1..n -> Char] : n \in 0..MaxChunk}

Next == flush \/ \E chunk \in Chunks : feed(chunk)

Spec == Init /\ [][Next]_vars

-----------------------------------------------------------------------------
(* The reference: what the division of a whole text is.                    *)

Thinks(s) == IsPrefix(Open, s)
Body(s) == Drop(s, Len(Open))
End(s) == Find(Body(s), Close)

Reasoning(s) ==
    IF ~Thinks(s) THEN << >>
    ELSE IF End(s) = 0 THEN Body(s)
    ELSE SubSeq(Body(s), 1, End(s) - 1)

Content(s) ==
    IF ~Thinks(s) THEN s
    ELSE IF End(s) = 0 THEN << >>
    ELSE Drop(Body(s), End(s) - 1 + Len(Close))

TypeOK ==
    /\ mode \in {"INIT", "THINKING", "CONTENT"}
    /\ buf \in Seq(Char) /\ reasoning \in Seq(Char) /\ content \in Seq(Char)
    /\ fed \in Seq(Char) /\ flushed \in BOOLEAN

\* However the text is cut into chunks, the reasoning is the text between the
\* tags and the content is the text after them up to separators in front of
\* it: no part of a tag leaks into either, nothing is lost or moved from one
\* to the other.
ChunksDoNotMatter ==
    flushed => /\ reasoning = Reasoning(fed)
               /\ IF Thinks(fed)
                  THEN EatSeparators(content) = EatSeparators(Content(fed))
                  ELSE content = fed

\* What has been emitted before the end is never taken back: it is already a
\* part of what the text fed so far divides into, and only the text that may
\* still turn out to be a tag is held back.
EmitsEarly ==
    ~flushed =>
        /\ Reasoning(fed) =
             reasoning \o (IF mode = "THINKING" THEN buf ELSE << >>)
        /\ Len(buf) <= CASE mode = "INIT"     -> Len(Open) - 1
                         [] mode = "THINKING" -> Len(Close)
                         [] mode = "CONTENT"  -> 0

=============================================================================
