--------------------------- MODULE TerminalBuffer ---------------------------
(***************************************************************************)
(* The output of a terminal session on its way to the client               *)
(* (src/src/server/terminal_service.rs): OutputBuffer, which keeps recent  *)
(* lines for a client that comes back, and Utf8ChunkAccumulator, which     *)
(* keeps a read of the PTY from ending inside a character.                 *)
(*                                                                         *)
(* A byte is <<number, kind>>: the number tells one byte from another, the *)
(* kind is what the code asks of its value.                                *)
(***************************************************************************)
EXTENDS Integers, Sequences, FiniteSetsExt

CONSTANTS
    MAX_OUTPUT_BUFFER_SIZE, MAX_BUFFER_LINES,   \* of an OutputBuffer
    DEFAULT_RECONNECT_BUFFER_BYTES              \* of the replay

ASSUME BufferAssumption ==
    /\ MAX_OUTPUT_BUFFER_SIZE \in Nat \ {0} /\ MAX_BUFFER_LINES \in Nat \ {0}
    /\ DEFAULT_RECONNECT_BUFFER_BYTES \in Nat

\* Length of the character that a byte begins; "cont" is a continuation byte.
SeqLen == [ascii |-> 1, newline |-> 1, lead2 |-> 2, lead3 |-> 3, lead4 |-> 4]
Kinds == DOMAIN SeqLen \union {"cont"}

KindAt(s, i) == s[i][2]
Newlines(s) == {i \in DOMAIN s : KindAt(s, i) = "newline"}
Drop(s, n) == SubSeq(s, n + 1, Len(s))

-----------------------------------------------------------------------------
(* OutputBuffer.  Its lines in a row are one sequence of bytes: a line ends *)
(* with its newline, total_size is the length, and last_line_incomplete     *)
(* says that the last byte is no newline.                                   *)

last_line_incomplete(b) == b # <<>> /\ KindAt(b, Len(b)) # "newline"

\* Where lines begin: the number of bytes before them.
LineStarts(b) == ({0} \union Newlines(b)) \ {Len(b)}

\* Whole lines leave at the front until both limits are kept.
Trim(b) ==
    Drop(b, Min({k \in LineStarts(b) \union {Len(b)} :
                    /\ Len(b) - k <= MAX_OUTPUT_BUFFER_SIZE
                    /\ Cardinality({i \in LineStarts(b) : i >= k}) <= MAX_BUFFER_LINES}))

\* Mutant: data without a newline is never a reason to trim.
AppendUntrimmed(b, data) == IF Newlines(data) = {} THEN b \o data ELSE Trim(b \o data)

\* OutputBuffer::append.  Data without a newline that goes on with an incomplete
\* line is added without trimming.
append(b, data) ==
    IF data = <<>> \/ (last_line_incomplete(b) /\ Newlines(data) = {}) THEN b \o data
    ELSE Trim(b \o data)

\* The chunks that try_recv returns one after the other: appended to a buffer, and in
\* a row.
append_all(b, out) ==
    LET after[i \in 0 .. Len(out)] == IF i = 0 THEN b ELSE append(after[i - 1], out[i])
    IN  after[Len(out)]
Concat(out) ==
    LET row[i \in 0 .. Len(out)] == IF i = 0 THEN <<>> ELSE row[i - 1] \o out[i]
    IN  row[Len(out)]

\* Mutant: the tail begins wherever it falls.
TailUnaligned(b, max) == Drop(b, Len(b) - max)

\* get_recent: the end of a line that is too long by itself, from the next
\* character on.  At most three continuation bytes are skipped.
LineTail(b, max) ==
    LET offset == Len(b) - max
    IN  Drop(b, Max({offset + n : n \in {m \in 0 .. 3 : \A i \in 1 .. m :
                        offset + i <= Len(b) /\ KindAt(b, offset + i) = "cont"}}))

\* OutputBuffer::get_recent: as many of the newest lines as fit.
get_recent(b, max) ==
    LET fits == {k \in LineStarts(b) : Len(b) - k <= max}
    IN  IF b = <<>> \/ max = 0 THEN <<>>
        ELSE IF fits = {} THEN LineTail(b, max)
        ELSE Drop(b, Min(fits))

-----------------------------------------------------------------------------
(* Utf8ChunkAccumulator.                                                   *)

\* find_utf8_split_point: how many bytes of s do not belong to a character that
\* the last three bytes leave incomplete.
find_utf8_split_point(s) ==
    LET starts == {i \in DOMAIN s : i > Len(s) - 3 /\ KindAt(s, i) # "cont"}
        i == Max(starts)
    IN  IF starts # {} /\ Len(s) - i + 1 < SeqLen[KindAt(s, i)] THEN i - 1 ELSE Len(s)

\* str::from_utf8 accepts s.
IsUtf8(s) ==
    \A i \in DOMAIN s :
        IF KindAt(s, i) = "cont"
        THEN \E j \in 1 .. i - 1 : /\ KindAt(s, j) # "cont"
                                   /\ i < j + SeqLen[KindAt(s, j)]
                                   /\ \A m \in j + 1 .. i : KindAt(s, m) = "cont"
        ELSE \A m \in i + 1 .. i + SeqLen[KindAt(s, i)] - 1 :
                m \in DOMAIN s /\ KindAt(s, m) = "cont"

\* push_chunk: what is sent on of the data read, and what is held back.
push_chunk(remainder, data) ==
    LET all == remainder \o data
        split == find_utf8_split_point(all)
        keep == \/ split = Len(all)
                \/ remainder = <<>> /\ split > 0 /\ ~IsUtf8(SubSeq(all, 1, split))
    IN  IF keep THEN [data |-> all, remainder |-> <<>>]
        ELSE [data |-> SubSeq(all, 1, split), remainder |-> Drop(all, split)]

-----------------------------------------------------------------------------
(* The numbers of the bytes.                                               *)

\* The bytes of q are numbered in a row and the last of them has number n.
EndsAt(q, n) == \A i \in 1 .. Len(q) : q[i][1] = n - Len(q) + i

\* The chunks of out follow each other: e[i] is the number of the last byte of the
\* i-th, e[0] the number before the first.
Marks(e, out) ==
    /\ e \in [0 .. Len(out) -> Nat]
    /\ \A i \in 1 .. Len(out) : EndsAt(out[i], e[i]) /\ e[i] = e[i - 1] + Len(out[i])
=============================================================================
