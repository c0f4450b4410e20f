--------------------------- MODULE Terminal_output ---------------------------
(***************************************************************************)
(* Proofs about the output of the terminal service, for any number of      *)
(* connections, terminals, sessions and services and any workload: the     *)
(* buffer keeps its limits, no message cuts a character, and a client that *)
(* attached alone is shown each terminal's output in order, with nothing   *)
(* twice and nothing missing.                                              *)
(***************************************************************************)
EXTENDS Terminal_proofs, TerminalBuffer_proofs

-----------------------------------------------------------------------------
(* The buffer keeps its limits and no message cuts a character.            *)

Typed(x) ==
    /\ x.buf \in Seq(Bytes) /\ x.pending \in Seq(Bytes) /\ x.rem \in Seq(Bytes)
    /\ x.out \in Seq(Seq(Bytes)) /\ x.read \in Nat /\ x.sent \in Nat

\* What the shell prints, as bytes.
Text == [i \in DOMAIN load.prints |-> <<i, load.prints[i]>>]

\* While the shell runs and prints text, the messages, the replay and the buffer
\* are text, and what the reader thread holds back begins with a character.
Whole(x) ==
    LET p == x.read - Len(x.rem)
    IN  x.reader = "run" /\ IsUtf8(Text) =>
            /\ IsUtf8(x.buf) /\ IsUtf8(x.pending) /\ \A i \in DOMAIN x.out : IsUtf8(x.out[i])
            /\ p \in 0 .. Len(Text) /\ Boundary(Text, p) /\ Piece(x.rem, Text, p)

OutputInv ==
    /\ load.prints \in Seq(Kinds)
    /\ \A s \in Sessions : Typed(ses[s]) /\ Bounded(ses[s].buf) /\ Whole(ses[s])

\* Data that enter the channel keep their kinds and follow what was sent.
LEMMA NumberedIs ==
    ASSUME NEW n \in Nat, NEW d \in Seq(Bytes)
    PROVE  LET c == [i \in DOMAIN d |-> <<n + i, d[i][2]>>]
           IN  /\ c \in Seq(Bytes) /\ Len(c) = Len(d) /\ EndsAt(c, n + Len(d))
               /\ IsUtf8(d) => IsUtf8(c)
  <1> DEFINE c == [i \in DOMAIN d |-> <<n + i, d[i][2]>>]
  <1>1. \A i \in 1 .. Len(d) : d[i][2] \in Kinds
    BY DEF Bytes
  <1>2. c = [i \in 1 .. Len(d) |-> <<n + i, d[i][2]>>] /\ Len(d) \in Nat
    OBVIOUS
  <1>3. \A i \in 1 .. Len(d) : c[i] \in Bytes /\ c[i][1] = n + i /\ c[i][2] = d[i][2]
    BY <1>1, <1>2 DEF Bytes
  <1>4. c \in Seq(Bytes) /\ Len(c) = Len(d)
    BY <1>2, <1>3
  <1> HIDE DEF c
  <1>5. EndsAt(c, n + Len(d))
    BY <1>2, <1>3, <1>4 DEF EndsAt
  <1>6. \A i \in 1 .. Len(d) : KindAt(d, i) = KindAt(c, i)
    BY <1>3, Zenon DEF KindAt
  <1>7. IsUtf8(d) => IsUtf8(c)
    BY <1>4, <1>6, SameKinds, Zenon
  <1> QED BY <1>4, <1>5, <1>7 DEF c

\* What the reader thread reads is what the shell printed.
LEMMA ChunkIs ==
    ASSUME load.prints \in Seq(Kinds), NEW k \in Nat, NEW n \in Nat, k + n <= Len(load.prints)
    PROVE  /\ Text \in Seq(Bytes) /\ Len(Text) = Len(load.prints)
           /\ Chunk(k, n) \in Seq(Bytes) /\ Len(Chunk(k, n)) = n /\ Piece(Chunk(k, n), Text, k)
  <1> DEFINE c == Chunk(k, n)
  <1>1. \A i \in 1 .. Len(load.prints) : load.prints[i] \in Kinds
    OBVIOUS
  <1>2. Text = [i \in 1 .. Len(load.prints) |-> <<i, load.prints[i]>>] /\ Len(load.prints) \in Nat
    BY DEF Text
  <1>3. Text \in Seq(Bytes) /\ Len(Text) = Len(load.prints)
    <2>1. \A i \in 1 .. Len(load.prints) : <<i, load.prints[i]>> \in Bytes
      BY <1>1 DEF Bytes
    <2> QED BY <1>2, <2>1
  <1>4. c = [i \in 1 .. n |-> <<0, load.prints[k + i]>>]
        /\ \A i \in 1 .. n : k + i \in 1 .. Len(load.prints)
    BY DEF Chunk
  <1>5. c \in Seq(Bytes) /\ Len(c) = n
    <2>1. \A i \in 1 .. n : <<0, load.prints[k + i]>> \in Bytes
      BY <1>1, <1>4 DEF Bytes
    <2> DEFINE f == [i \in 1 .. n |-> <<0, load.prints[k + i]>>]
    <2>2. f \in [1 .. n -> Bytes]
      BY <2>1, Zenon
    <2> HIDE DEF f
    <2>3. f \in Seq(Bytes) /\ Len(f) = n
      BY <2>2
    <2> QED BY <1>4, <2>3, Zenon DEF f
  <1> HIDE DEF c
  <1>6. \A i \in 1 .. n : KindAt(c, i) = KindAt(Text, k + i)
    BY <1>2, <1>4 DEF KindAt
  <1>7. Piece(c, Text, k)
    BY <1>3, <1>5, <1>6 DEF Piece
  <1> QED BY <1>3, <1>5, <1>7 DEF c

\* A message that enters the channel (try_send_output).
LEMMA SendsIs ==
    ASSUME NEW x, Typed(x), NEW y, NEW d \in Seq(Bytes), Sends(x, y, d)
    PROVE  /\ y.out \in Seq(Seq(Bytes)) /\ y.sent \in Nat
           /\ IsUtf8(d) /\ (\A i \in DOMAIN x.out : IsUtf8(x.out[i]))
              => \A i \in DOMAIN y.out : IsUtf8(y.out[i])
  <1>1. CASE y.out = x.out /\ y.sent = x.sent
    BY <1>1, Zenon DEF Typed
  <1>2. CASE /\ y.out = Append(x.out, [i \in DOMAIN d |-> <<x.sent + i, d[i][2]>>])
             /\ y.sent = x.sent + Len(d)
    <2> DEFINE c == [i \in DOMAIN d |-> <<x.sent + i, d[i][2]>>]
    <2>1. x.sent \in Nat /\ x.out \in Seq(Seq(Bytes))
      BY Zenon DEF Typed
    <2>2. c \in Seq(Bytes) /\ (IsUtf8(d) => IsUtf8(c))
      BY <2>1, NumberedIs, Zenon
    <2> HIDE DEF c
    <2>3. y.out = Append(x.out, c) /\ y.sent \in Nat
      BY <1>2, <2>1 DEF c
    <2>4. /\ y.out \in Seq(Seq(Bytes)) /\ DOMAIN y.out = 1 .. Len(x.out) + 1
          /\ DOMAIN x.out = 1 .. Len(x.out)
          /\ y.out[Len(x.out) + 1] = c /\ \A i \in 1 .. Len(x.out) : y.out[i] = x.out[i]
      BY <2>1, <2>2, <2>3
    <2>5. \A i \in 1 .. Len(x.out) + 1 : i \in 1 .. Len(x.out) \/ i = Len(x.out) + 1
      BY <2>1
    <2> QED BY <2>2, <2>3, <2>4, <2>5, Zenon
  <1> QED BY <1>1, <1>2, Zenon DEF Sends

\* A step of the reader thread.
LEMMA ReadsIs ==
    ASSUME load.prints \in Seq(Kinds), NEW x, Typed(x), Whole(x), NEW y,
           NEW n \in 1 .. MaxRead, Reads(x, y, n)
    PROVE  Typed(y) /\ Whole(y)
  <1> DEFINE c == Chunk(x.read, n)
             r == push_chunk(x.rem, c)
             p == x.read - Len(x.rem)
             q == p + Len(r.data)
  <1>0. n \in Nat /\ x.read \in Nat /\ x.rem \in Seq(Bytes) /\ x.read + n <= Len(load.prints)
    BY DEF Typed, Reads
  <1>1. /\ Text \in Seq(Bytes) /\ c \in Seq(Bytes) /\ Len(c) = n /\ Piece(c, Text, x.read)
    BY <1>0, ChunkIs, Zenon
  <1> HIDE DEF c
  <1>2. r.data \in Seq(Bytes) /\ r.remainder \in Seq(Bytes)
    BY <1>0, <1>1, PushIs, Zenon
  <1>3. /\ y.reader = "run" /\ x.reader = "run" /\ y.read = x.read + n /\ y.rem = r.remainder
        /\ Sends(x, y, r.data)
    BY Zenon DEF Reads, c
  <1>4. y.buf = x.buf /\ y.pending = x.pending
    BY <1>3, Zenon DEF Sends
  <1>5. Typed(y)
    <2>1. y.out \in Seq(Seq(Bytes)) /\ y.sent \in Nat
      BY <1>2, <1>3, SendsIs, Zenon
    <2>2. y.read \in Nat
      BY <1>0, <1>3
    <2> QED BY <1>2, <1>3, <1>4, <2>1, <2>2, Zenon DEF Typed
  <1>6. ASSUME IsUtf8(Text) PROVE Whole(y)
    <2>1. /\ IsUtf8(x.buf) /\ IsUtf8(x.pending) /\ \A i \in DOMAIN x.out : IsUtf8(x.out[i])
          /\ p \in 0 .. Len(Text) /\ Boundary(Text, p) /\ Piece(x.rem, Text, p)
      BY <1>3, <1>6, Zenon DEF Whole
    <2>2. Piece(x.rem \o c, Text, p)
      <3>1. p + Len(x.rem) = x.read
        BY <1>0
      <3> QED BY <1>0, <1>1, <2>1, <3>1, PieceJoin, Zenon
    <2>3. /\ IsUtf8(r.data) /\ Len(r.data) + Len(r.remainder) = Len(x.rem) + n
          /\ q \in 0 .. Len(Text) /\ Boundary(Text, q) /\ Piece(r.remainder, Text, q)
      <3> HIDE DEF p
      <3>1. p \in 0 .. Len(Text) /\ Boundary(Text, p) /\ Piece(x.rem \o c, Text, p)
        BY <2>1, <2>2, Zenon DEF p
      <3>2. /\ IsUtf8(r.data) /\ Len(r.data) + Len(r.remainder) = Len(x.rem) + Len(c)
            /\ q \in 0 .. Len(Text) /\ Boundary(Text, q) /\ Piece(r.remainder, Text, q)
        <4>1. Pushable(Text, p, x.rem, c)
          BY <1>0, <1>1, <1>6, <3>1, Zenon DEF Pushable
        <4> QED BY <4>1, PushWhole, Zenon DEF Pushed
      <3> QED BY <1>1, <3>2, Zenon
    <2>4. y.read - Len(y.rem) = q
      <3>1. Len(r.data) \in Nat /\ Len(r.remainder) \in Nat /\ Len(x.rem) \in Nat
        BY <1>0, <1>2
      <3>2. Len(y.rem) = Len(r.remainder) /\ y.read = x.read + n
        BY <1>3, Zenon
      <3>3. Len(r.data) + Len(r.remainder) = Len(x.rem) + n
        BY <2>3, Zenon
      <3> DEFINE a == x.read
                 b == Len(x.rem)
                 i == Len(r.data)
                 j == Len(r.remainder)
      <3>4. a \in Nat /\ b \in Nat /\ i \in Nat /\ j \in Nat /\ n \in Nat /\ i + j = b + n
        BY <1>0, <3>1, <3>3, Zenon
      <3>5. y.read - Len(y.rem) = (a + n) - j /\ q = (a - b) + i
        BY <3>2, Zenon
      <3> HIDE DEF a, b, i, j, q
      <3> QED BY <3>4, <3>5
    <2>5. \A i \in DOMAIN y.out : IsUtf8(y.out[i])
      BY <1>2, <1>3, <2>1, <2>3, SendsIs, Zenon
    <2> HIDE DEF q
    <2> QED BY <1>3, <1>4, <2>1, <2>3, <2>4, <2>5, Zenon DEF Whole
  <1> QED BY <1>5, <1>6, Zenon DEF Whole

\* Nothing is text, and keeps the limits.
LEMMA EmptyOutput ==
    /\ <<>> \in Seq(Bytes) /\ <<>> \in Seq(Seq(Bytes)) /\ IsUtf8(<<>>) /\ Bounded(<<>>)
  <1>1. <<>> \in Seq(Bytes) /\ <<>> \in Seq(Seq(Bytes)) /\ DOMAIN <<>> = {} /\ Len(<<>>) = 0
    OBVIOUS
  <1>2. IsUtf8(<<>>)
    BY <1>1, Zenon DEF IsUtf8
  <1>3. LineStarts(<<>>) = {} /\ ~last_line_incomplete(<<>>)
    BY <1>1 DEF LineStarts, Newlines, last_line_incomplete
  <1>4. Bounded(<<>>)
    BY <1>1, <1>3, NoElements, BufferAssumption DEF Bounded
  <1> QED BY <1>1, <1>2, <1>4

\* A session whose channel is emptied (handle_open, read_outputs).
LEMMA DrainsIs ==
    ASSUME NEW x, Typed(x), Bounded(x.buf), Whole(x), NEW y, Drains(x, y),
           \/ y.pending = x.pending \/ y.pending = <<>>
           \/ y.pending = get_recent(y.buf, DEFAULT_RECONNECT_BUFFER_BYTES)
    PROVE  Typed(y) /\ Bounded(y.buf) /\ Whole(y)
  <1>1. x.buf \in Seq(Bytes) /\ x.out \in Seq(Seq(Bytes)) /\ x.pending \in Seq(Bytes)
    BY Zenon DEF Typed
  <1>2. y.buf \in Seq(Bytes) /\ Bounded(y.buf)
    BY <1>1, FoldBounded, Zenon DEF Drains
  <1>3. DEFAULT_RECONNECT_BUFFER_BYTES \in Nat
    BY BufferAssumption
  <1>4. y.pending \in Seq(Bytes)
    BY <1>1, <1>2, <1>3, EmptyOutput, RecentUtf8, Zenon
  <1>5. Typed(y)
    BY <1>2, <1>4, EmptyOutput, Zenon DEF Typed, Drains
  <1>6. ASSUME IsUtf8(x.buf), IsUtf8(x.pending), \A i \in DOMAIN x.out : IsUtf8(x.out[i])
        PROVE  IsUtf8(y.buf) /\ IsUtf8(y.pending) /\ \A i \in DOMAIN y.out : IsUtf8(y.out[i])
    <2>1. IsUtf8(y.buf)
      BY <1>1, <1>6, FoldUtf8, Zenon DEF Drains
    <2>2. IsUtf8(y.pending)
      BY <1>2, <1>3, <1>6, <2>1, EmptyOutput, RecentUtf8, Zenon
    <2>3. DOMAIN y.out = {}
      BY DEF Drains
    <2> QED BY <2>1, <2>2, <2>3, Zenon
  <1>7. y.rem = x.rem /\ y.read = x.read /\ y.reader = x.reader
    BY Zenon DEF Drains
  <1> QED BY <1>2, <1>5, <1>6, <1>7, Zenon DEF Whole

\* A step of another kind.
LEMMA KeepsIs ==
    ASSUME load.prints \in Seq(Kinds), NEW x, Typed(x), Whole(x), NEW y, Keeps(x, y)
    PROVE  Typed(y) /\ y.buf = x.buf /\ Whole(y)
  <1>1. CASE SameOutput(x, y) \/ Detaches(x, y)
    BY <1>1, EmptyOutput, Zenon DEF SameOutput, Detaches, Typed, Whole
  <1>2. CASE Stops(x, y)
    <2>1. y.reader # "run" /\ y.read \in Nat
      BY <1>2 DEF Stops
    <2> QED BY <1>2, <2>1, EmptyOutput, Zenon DEF Stops, Typed, Whole
  <1>3. CASE Ends(x, y)
    <2>1. y.reader # "run"
      BY <1>3 DEF Ends
    <2>2. x.rem \in Seq(Bytes) /\ Sends(x, y, x.rem)
      BY <1>3, Zenon DEF Ends, Typed
    <2>3. y.out \in Seq(Seq(Bytes)) /\ y.sent \in Nat
      BY <2>2, SendsIs, Zenon
    <2> QED BY <1>3, <2>1, <2>2, <2>3, EmptyOutput, Zenon DEF Ends, Sends, Typed, Whole
  <1>4. ASSUME NEW n \in 1 .. MaxRead, Reads(x, y, n) PROVE Typed(y) /\ y.buf = x.buf /\ Whole(y)
    BY <1>4, ReadsIs, Zenon DEF Reads, Sends
  <1> QED BY <1>1, <1>2, <1>3, <1>4, Zenon DEF Keeps, Goes

\* The invariant on the bytes is inductive.
LEMMA OutputInductive == Spec => []OutputInv
  <1>1. Init => OutputInv
    <2> SUFFICES ASSUME Init PROVE OutputInv
      OBVIOUS
    <2>1. load.prints \in Seq(Kinds)
      BY TerminalAssumption, Zenon DEF Init
    <2>2. /\ NewSession.buf = <<>> /\ NewSession.pending = <<>> /\ NewSession.rem = <<>>
          /\ NewSession.out = <<>> /\ NewSession.read = 0 /\ NewSession.sent = 0
      BY DEF NewSession
    <2>3. Typed(NewSession) /\ Bounded(NewSession.buf)
      <3>1. 0 \in Nat
        OBVIOUS
      <3> QED BY <2>2, <3>1, EmptyOutput, Zenon DEF Typed
    <2>4. Whole(NewSession)
      <3>1. Text \in Seq(Bytes)
        <4>1. Len(load.prints) \in Nat /\ 0 \in Nat /\ 0 + 0 <= Len(load.prints)
          BY <2>1
        <4> QED BY <2>1, <4>1, ChunkIs, Zenon
      <3>2. Len(<<>>) = 0 /\ 0 \in 0 .. Len(Text) /\ 0 - 0 = 0 /\ DOMAIN <<>> = {}
        BY <3>1
      <3>3. Piece(<<>>, Text, 0)
        BY <3>1 DEF Piece
      <3>4. IsUtf8(Text) => Boundary(Text, 0)
        <4>1. Len(Text) # 0 => 1 \in DOMAIN Text /\ \A j \in 1 .. 1 - 1 : FALSE
          BY <3>1
        <4>2. 0 + 1 = 1
          OBVIOUS
        <4> QED BY <4>1, <4>2, Zenon DEF IsUtf8, Boundary
      <3> QED BY <2>2, <3>2, <3>3, <3>4, EmptyOutput, Zenon DEF Whole
    <2>5. \A s \in Sessions : ses[s] = NewSession
      BY DEF Init
    <2> QED BY <2>1, <2>3, <2>4, <2>5, Zenon DEF OutputInv
  <1>2. IInv /\ OutputInv /\ [Next]_vars => OutputInv'
    <2> SUFFICES ASSUME IInv, OutputInv, [Next]_vars PROVE OutputInv'
      OBVIOUS
    <2>1. load' = load
      BY Evolution
    <2>2. ASSUME NEW s \in Sessions
          PROVE  Typed(ses'[s]) /\ Bounded(ses'[s].buf) /\ Whole(ses'[s])
      <3>1. load.prints \in Seq(Kinds) /\ Typed(ses[s]) /\ Bounded(ses[s].buf) /\ Whole(ses[s])
        BY Zenon DEF OutputInv
      <3>2. CASE Keeps(ses[s], ses'[s])
        BY <3>1, <3>2, KeepsIs, Zenon
      <3>3. CASE Reopens(ses[s], ses'[s])
        BY <3>1, <3>3, DrainsIs, Zenon DEF Reopens
      <3>4. CASE Polls(ses[s], ses'[s])
        BY <3>1, <3>4, DrainsIs, Zenon DEF Polls
      <3> QED BY <3>2, <3>3, <3>4, Evolution, Zenon
    <2>3. load'.prints \in Seq(Kinds)
      BY <2>1, Zenon DEF OutputInv
    <2>4. Text' = Text
      BY <2>1 DEF Text
    <2> QED BY <2>2, <2>3, <2>4, Zenon DEF OutputInv, Whole
  <1> QED BY <1>1, <1>2, Inductive, PTL DEF Spec

\* OutputBuffer never outgrows its limits but for the line that is being written,
\* whatever the shells print and whoever drains their channels (append, trim).
THEOREM BuffersBounded == Spec => []BufferBounded
  <1>1. OutputInv => BufferBounded
    BY Zenon DEF OutputInv, Bounded, BufferBounded
  <1> QED BY <1>1, OutputInductive, PTL

\* No message and no replay cuts a character while the shell is there, however its
\* output is split into reads (push_chunk, find_utf8_split_point, get_recent, trim).
THEOREM CharsWhole == Spec => []WholeChars
  <1>1. OutputInv => WholeChars
    BY Zenon DEF OutputInv, Whole, Text, WholeChars
  <1> QED BY <1>1, OutputInductive, PTL

-----------------------------------------------------------------------------
(* A session goes on from where it stands.                                 *)

\* An empty channel.
LEMMA FlowEmpty ==
    ASSUME NEW m \in Nat
    PROVE  /\ \E e : Marks(e, <<>>) /\ e[0] = m /\ e[Len(<<>>)] = m
           /\ EndsAt(<<>>, m)
  <1> DEFINE e == [i \in 0 .. 0 |-> m]
  <1>1. Len(<<>>) = 0 /\ 0 \in 0 .. 0
    OBVIOUS
  <1>2. e \in [0 .. 0 -> Nat] /\ e[0] = m
    BY <1>1
  <1> HIDE DEF e
  <1>3. Marks(e, <<>>)
    BY <1>1, <1>2 DEF Marks
  <1>4. EndsAt(<<>>, m)
    BY <1>1 DEF EndsAt
  <1> QED BY <1>1, <1>2, <1>3, <1>4, Zenon

\* A message follows what was sent before it (try_send_output).
LEMMA FlowSends ==
    ASSUME NEW x, Typed(x), NEW m \in Nat, Flow(x, m), x.reader = "run",
           NEW y, y.reader # "none", NEW d \in Seq(Bytes), Sends(x, y, d)
    PROVE  Flow(y, m)
  <1>1. PICK e : /\ Marks(e, x.out) /\ e[0] = m
                 /\ e[Len(x.out)] = x.sent \/ (x.reader = "none" /\ x.out = <<>>)
                 /\ EndsAt(x.buf, m) /\ EndsAt(x.pending, m) /\ (x.active \/ x.pending = <<>>)
    BY Zenon DEF Flow
  <1>2. e[Len(x.out)] = x.sent
    BY <1>1
  <1>3. y.buf = x.buf /\ y.pending = x.pending /\ y.active = x.active
    BY Zenon DEF Sends
  <1>4. CASE y.out = x.out /\ y.sent = x.sent
    BY <1>1, <1>2, <1>3, <1>4, Zenon DEF Flow
  <1>5. CASE /\ y.out = Append(x.out, [i \in DOMAIN d |-> <<x.sent + i, d[i][2]>>])
             /\ y.sent = x.sent + Len(d)
    <2> DEFINE c == [i \in DOMAIN d |-> <<x.sent + i, d[i][2]>>]
    <2>1. x.sent \in Nat /\ x.out \in Seq(Seq(Bytes))
      BY Zenon DEF Typed
    <2>2. c \in Seq(Bytes) /\ Len(c) = Len(d) /\ EndsAt(c, x.sent + Len(d))
      BY <2>1, NumberedIs, Zenon
    <2> HIDE DEF c
    <2>3. y.out = Append(x.out, c)
      BY <1>5, Zenon DEF c
    <2>4. EndsAt(c, e[Len(x.out)] + Len(c))
      BY <1>2, <2>2, Zenon
    <2>5. PICK f : Marks(f, y.out) /\ f[0] = e[0] /\ f[Len(y.out)] = e[Len(x.out)] + Len(c)
      <3>1. \E f : /\ Marks(f, Append(x.out, c)) /\ f[0] = e[0]
                   /\ f[Len(Append(x.out, c))] = e[Len(x.out)] + Len(c)
        <4>1. Marks(e, x.out) /\ c \in Seq(Bytes) /\ x.out \in Seq(Seq(Bytes))
          BY <1>1, <2>1, <2>2
        <4> QED BY <2>4, <4>1, MarksAppend, Zenon
      <3> QED BY <2>3, <3>1, Zenon
    <2>6. f[0] = m /\ f[Len(y.out)] = y.sent
      BY <1>1, <1>2, <1>5, <2>2, <2>5, Zenon
    <2> QED BY <1>1, <1>3, <2>5, <2>6, Zenon DEF Flow
  <1> QED BY <1>4, <1>5, Zenon DEF Sends

\* A session that no one empties (stop, the reader thread).
LEMMA FlowGoes ==
    ASSUME load.prints \in Seq(Kinds), NEW x, Typed(x), NEW y, Goes(x, y), NEW m \in Nat, Flow(x, m)
    PROVE  Flow(y, m)
  <1>1. CASE SameOutput(x, y)
    BY <1>1, Zenon DEF SameOutput, Flow
  <1>2. CASE Stops(x, y)
    <2>1. EndsAt(x.buf, m)
      BY Zenon DEF Flow
    <2>2. /\ y.active = FALSE /\ y.pending = <<>> /\ y.out = <<>> /\ y.reader = "none"
          /\ y.buf = x.buf
      BY <1>2, Zenon DEF Stops
    <2> QED BY <2>1, <2>2, FlowEmpty, Zenon DEF Flow
  <1>3. CASE Ends(x, y)
    <2>1. x.reader = "run" /\ y.reader # "none" /\ x.rem \in Seq(Bytes) /\ Sends(x, y, x.rem)
      BY <1>3 DEF Ends, Typed
    <2> QED BY <2>1, FlowSends, Zenon
  <1>4. ASSUME NEW n \in 1 .. MaxRead, Reads(x, y, n) PROVE Flow(y, m)
    <2> DEFINE c == Chunk(x.read, n)
               r == push_chunk(x.rem, c)
    <2>1. n \in Nat /\ x.read \in Nat /\ x.rem \in Seq(Bytes) /\ x.read + n <= Len(load.prints)
      BY <1>4 DEF Typed, Reads
    <2>2. c \in Seq(Bytes)
      BY <2>1, ChunkIs, Zenon
    <2>3. x.reader = "run" /\ y.reader = "run" /\ Sends(x, y, r.data)
      BY <1>4, Zenon DEF Reads
    <2> HIDE DEF c
    <2>4. r.data \in Seq(Bytes)
      BY <2>1, <2>2, PushIs, Zenon
    <2> HIDE DEF r
    <2>5. y.reader # "none"
      BY <2>3
    <2> QED BY <2>3, <2>4, <2>5, FlowSends, Zenon
  <1> QED BY <1>1, <1>2, <1>3, <1>4, Zenon DEF Goes

\* Nor does such a step take from the client what it will see.
LEMMA ShownGoes ==
    ASSUME load.prints \in Seq(Kinds), NEW x, Typed(x), NEW y, Goes(x, y), NEW q, Shown(x, q)
    PROVE  Shown(y, q) /\ (y.active => x.active)
  <1>1. PICK m \in Nat : /\ Flow(x, m) /\ q[Len(q)] = m /\ x.pending = <<>>
                         /\ x.active \/ (x.out = <<>> /\ x.reader = "none")
    BY Zenon DEF Shown
  <1>2. Flow(y, m)
    BY <1>1, FlowGoes, Zenon
  <1>3. /\ y.pending = <<>> /\ (y.active \/ (y.out = <<>> /\ y.reader = "none"))
        /\ y.active => x.active
    <2>1. CASE SameOutput(x, y)
      BY <1>1, <2>1, Zenon DEF SameOutput
    <2>2. CASE Stops(x, y)
      BY <2>2, Zenon DEF Stops
    <2>3. CASE Ends(x, y) \/ \E n \in 1 .. MaxRead : Reads(x, y, n)
      <3>1. x.reader = "run" /\ y.pending = x.pending /\ y.active = x.active
        BY <2>3, Zenon DEF Ends, Reads, Sends
      <3>2. "run" # "none"
        OBVIOUS
      <3> QED BY <1>1, <3>1, <3>2, Zenon
    <2> QED BY <2>1, <2>2, <2>3, Zenon DEF Goes
  <1> QED BY <1>1, <1>2, <1>3, Zenon DEF Shown

\* A session that is emptied stands at the last byte of its channel (handle_open,
\* read_outputs).
LEMMA FlowDrains ==
    ASSUME NEW x, Typed(x), NEW y, Drains(x, y), NEW m \in Nat, Flow(x, m)
    PROVE  \E n \in Nat :
              /\ Concat(x.out) \in Seq(Bytes) /\ n = m + Len(Concat(x.out))
              /\ EndsAt(Concat(x.out), n) /\ EndsAt(y.buf, n)
              /\ x.out = <<>> => n = m
              /\ EndsAt(y.pending, n) /\ (y.active \/ y.pending = <<>>) => Flow(y, n)
  <1>1. PICK e : /\ Marks(e, x.out) /\ e[0] = m
                 /\ e[Len(x.out)] = x.sent \/ (x.reader = "none" /\ x.out = <<>>)
                 /\ EndsAt(x.buf, m) /\ EndsAt(x.pending, m) /\ (x.active \/ x.pending = <<>>)
    BY Zenon DEF Flow
  <1> DEFINE n == e[Len(x.out)]
  <1>2. x.buf \in Seq(Bytes) /\ x.out \in Seq(Seq(Bytes))
    BY Zenon DEF Typed
  <1>3. n \in Nat /\ (x.out = <<>> => n = m)
    BY <1>1, <1>2 DEF Marks
  <1>4. /\ Concat(x.out) \in Seq(Bytes) /\ EndsAt(Concat(x.out), n) /\ n = m + Len(Concat(x.out))
    BY <1>1, <1>2, FlatEnds, Zenon
  <1>5. /\ y.buf = append_all(x.buf, x.out) /\ y.out = <<>> /\ y.sent = x.sent
        /\ y.reader = x.reader
    BY Zenon DEF Drains
  <1>6. EndsAt(y.buf, n)
    BY <1>1, <1>2, <1>5, FoldEnds, Zenon
  <1> HIDE DEF n
  <1>7. n = x.sent \/ x.reader = "none"
    BY <1>1, Zenon DEF n
  <1>8. ASSUME EndsAt(y.pending, n), y.active \/ y.pending = <<>> PROVE Flow(y, n)
    BY <1>3, <1>5, <1>6, <1>7, <1>8, FlowEmpty, ZenonT(60) DEF Flow
  <1> QED BY <1>3, <1>4, <1>6, <1>8, Zenon

\* What is in the channel and what was sent fit together in every session.
LEMMA FlowsStep ==
    ASSUME IInv, OutputInv, OutputInv', Flows, [Next]_vars
    PROVE  Flows'
  <1> SUFFICES ASSUME NEW s \in Sessions PROVE \E m \in Nat : Flow(ses'[s], m)
    BY Zenon DEF Flows
  <1> DEFINE x == ses[s]
             y == ses'[s]
  <1>1. load.prints \in Seq(Kinds) /\ Typed(x) /\ Typed(y)
    BY Zenon DEF OutputInv
  <1>2. PICK k \in Nat : Flow(x, k)
    BY Zenon DEF Flows
  <1> SUFFICES \E m \in Nat : Flow(y, m)
    BY Zenon DEF y
  <1>0. Keeps(x, y) \/ Reopens(x, y) \/ Polls(x, y)
    BY Evolution, Zenon
  <1> HIDE DEF x, y
  <1>3. CASE Goes(x, y)
    BY <1>1, <1>2, <1>3, FlowGoes, Zenon
  <1>4. CASE Detaches(x, y)
    BY <1>2, <1>4, FlowEmpty, Zenon DEF Detaches, Flow
  <1>5. ASSUME Drains(x, y), \A n \in Nat : EndsAt(y.buf, n) => EndsAt(y.pending, n),
               y.active \/ y.pending = <<>>
        PROVE  \E n \in Nat : Flow(y, n)
    BY <1>1, <1>2, <1>5, FlowDrains, Zenon
  <1>6. CASE Reopens(x, y)
    <2>1. Drains(x, y) /\ y.active /\ y.pending = get_recent(y.buf, DEFAULT_RECONNECT_BUFFER_BYTES)
      BY <1>6, Zenon DEF Reopens
    <2>2. y.buf \in Seq(Bytes) /\ DEFAULT_RECONNECT_BUFFER_BYTES \in Nat
      BY <1>1, BufferAssumption DEF Typed
    <2>3. PICK d \in 0 .. Len(y.buf) : y.pending = Drop(y.buf, d)
      BY <2>1, <2>2, RecentIs, Zenon
    <2>4. \A n \in Nat : EndsAt(y.buf, n) => EndsAt(y.pending, n)
      BY <2>2, <2>3, EndsDrop, Zenon
    <2> QED BY <1>5, <2>1, <2>4, Zenon
  <1>7. CASE Polls(x, y)
    <2>1. x.active \/ x.pending = <<>>
      BY <1>2, Zenon DEF Flow
    <2>2. Drains(x, y) /\ y.pending = <<>>
      BY <1>7, <2>1, Zenon DEF Polls
    <2> QED BY <1>5, <2>2, FlowEmpty, Zenon
  <1> QED BY <1>0, <1>3, <1>4, <1>6, <1>7, Zenon DEF Keeps

\* The rows of bytes the client has.
GotRows ==
    /\ got = [t \in Terminals |-> got[t]]
    /\ plain => \A t \in Terminals : InRow(got[t])

\* What read_outputs sends goes on from what the client has, and leaves the session
\* where the client is.
LEMMA PollShows ==
    ASSUME IInv, OutputInv, Links, Flows, Calm, GotRows,
           NEW c \in Conns, NEW e \in loop[c].todo, Poll(c, e)
    PROVE  /\ GotRows'
           /\ plain /\ Sending(e) /\ conn[last] = "on" /\ got'[e[1]] # <<>>
                => Shown(ses'[e[2]], got'[e[1]])
  <1> DEFINE t == e[1]
             s == e[2]
             x == ses[s]
             y == ses'[s]
             d == x.pending \o Concat(x.out)
             q == got[t]
             w == q \o [i \in DOMAIN d |-> d[i][1]]
             on == x.active /\ c = last /\ conn[c] = "on" /\ t \in asked
  <1>1. t \in Terminals /\ s \in Sessions
    <2>1. e \in Terminals \X Sessions
      BY Zenon DEF Links, LinkedConns, Threaded
    <2> QED BY <2>1
  <1>2. Polls(x, y) /\ Typed(x)
    BY <1>1, PollOutput, Zenon DEF OutputInv
  <1>3. /\ plain' = plain
        /\ on => got' = [u \in Terminals |-> IF u = t THEN w ELSE got[u]]
        /\ ~on => got' = got
    BY <1>1, PollDelivers, Zenon DEF GotRows
  <1>4. got' = [u \in Terminals |-> got'[u]]
    BY <1>3, Zenon DEF GotRows
  <1>5. plain => c = last /\ Sending(e)
    BY PollSending, Zenon
  <1>6. (Sending(e) => /\ x.active => t \in Settled
                       /\ conn[last] = "on" /\ q # <<>> => Shown(x, q))
        /\ (t \in Settled => t \in asked)
    BY Zenon DEF Sending, Settled
  <1>7. /\ plain => InRow(q)
        /\ plain => \A u \in Terminals : InRow(got[u])
    BY <1>1, Zenon DEF GotRows
  <1>8. \E m \in Nat : Flow(x, m)
    BY <1>1, Zenon DEF Flows
  <1>9. on => got'[t] = w /\ \A u \in Terminals : u # t => got'[u] = got[u]
    BY <1>1, <1>3, Zenon
  <1> SUFFICES ASSUME plain
               PROVE  /\ \A u \in Terminals : InRow(got'[u])
                      /\ conn[last] = "on" /\ got'[t] # <<>> => Shown(y, got'[t])
    BY <1>3, <1>4, Zenon DEF GotRows
  <1>10. /\ Drains(x, y) /\ y.active = x.active /\ (y.pending = <<>> \/ ~x.active)
         /\ (~x.active => y.pending = x.pending) /\ y.out = <<>> /\ y.reader = x.reader
    BY <1>2, Zenon DEF Polls, Drains
  <1>11. Concat(x.out) = Concat(x.out) /\ x.pending \in Seq(Bytes)
    BY <1>2, Zenon DEF Typed
  <1> HIDE DEF x, y, q, t, s
  <1>12. CASE ~on
    <2>1. got'[t] = q /\ \A u \in Terminals : InRow(got'[u])
      BY <1>3, <1>7, <1>12, Zenon DEF q
    <2>2. ASSUME conn[last] = "on", q # <<>> PROVE Shown(y, q)
      <3>1. ~x.active /\ Shown(x, q)
        BY <1>5, <1>6, <1>12, <2>2, Zenon
      <3>2. PICK m \in Nat : Flow(x, m) /\ q[Len(q)] = m /\ x.pending = <<>> /\ x.out = <<>> /\ x.reader = "none"
        BY <3>1, Zenon DEF Shown
      <3>3. y.pending = <<>> /\ EndsAt(y.pending, m)
        BY <1>10, <3>1, <3>2, FlowEmpty, Zenon
      <3>4. Flow(y, m)
        BY <1>2, <1>10, <3>2, <3>3, FlowDrains, Zenon
      <3> QED BY <1>10, <3>2, <3>3, <3>4, Zenon DEF Shown
    <2> QED BY <2>1, <2>2, Zenon
  <1>13. CASE on
    <2>1. PICK m \in Nat : Flow(x, m) /\ (q # <<>> => q[Len(q)] = m /\ x.pending = <<>>)
      BY <1>5, <1>6, <1>8, <1>13, Zenon DEF Shown
    <2>2. y.pending = <<>> /\ y.active
      BY <1>10, <1>13, Zenon
    <2>0. \A n \in Nat : EndsAt(y.pending, n)
      BY <2>2, FlowEmpty, Zenon
    <2>3. PICK n \in Nat : /\ Concat(x.out) \in Seq(Bytes) /\ n = m + Len(Concat(x.out))
                           /\ EndsAt(Concat(x.out), n) /\ Flow(y, n)
      BY <1>2, <1>10, <2>0, <2>1, <2>2, FlowDrains, Zenon
    <2>4. EndsAt(x.pending, m)
      BY <2>1, Zenon DEF Flow
    <2>5. EndsAt(d, n)
      BY <1>11, <2>3, <2>4, EndsJoin, Zenon
    <2>6. d \in Seq(Bytes) /\ (q # <<>> => q[Len(q)] + Len(d) = n)
      <3> DEFINE z == Concat(x.out)
      <3>1. z \in Seq(Bytes) /\ x.pending \in Seq(Bytes) /\ n = m + Len(z)
        BY <1>11, <2>3, Zenon
      <3> HIDE DEF z
      <3>2. x.pending \o z \in Seq(Bytes) /\ (x.pending = <<>> => Len(x.pending \o z) = Len(z))
        BY ONLY <3>1
      <3> QED BY <2>1, <3>1, <3>2, Zenon DEF z
    <2>7. InRow(w) /\ (w # <<>> => w[Len(w)] = n)
      <3> HIDE DEF d
      <3> QED BY <1>7, <2>3, <2>5, <2>6, RowGoesOn, Zenon
    <2>8. got'[t] = w /\ \A u \in Terminals : u # t => got'[u] = got[u]
      BY <1>9, <1>13, Zenon
    <2> HIDE DEF w
    <2>9. \A u \in Terminals : InRow(got'[u])
      BY <1>7, <2>7, <2>8, Zenon
    <2>10. w # <<>> => Shown(y, w)
      BY <2>2, <2>3, <2>7, Zenon DEF Shown
    <2> QED BY <2>8, <2>9, <2>10, Zenon
  <1> QED BY <1>12, <1>13, Zenon

\* Every step keeps the client where its session is, and its bytes in a row.
LEMMA ClientStep ==
    ASSUME IInv, OutputInv, Links, Flows, Calm, GotRows, [Next]_vars
    PROVE  Calm' /\ GotRows'
  <1>1. ASSUME got' = got, plain' => plain PROVE GotRows'
    BY <1>1, Zenon DEF GotRows
  <1>2. ASSUME Quiet PROVE Calm' /\ GotRows'
    <2>1. \A s \in Sessions : Typed(ses[s]) /\ Goes(ses[s], ses'[s])
      BY <1>2, Zenon DEF Quiet, QuietSessions, OutputInv
    <2>2. \A s \in Sessions : \A q : Shown(ses[s], q) => Shown(ses'[s], q)
      BY <2>1, ShownGoes, Zenon DEF OutputInv
    <2>3. Calm'
      BY <1>2, <2>2, CalmQuiet, Zenon
    <2> QED BY <1>1, <1>2, <2>3, Zenon DEF Quiet, QuietClient
  <1>3. ASSUME NEW c \in Conns, AttachRefused(c) \/ \E p \in BOOLEAN : Attach(c, p)
        PROVE  Calm' /\ GotRows'
    <2>1. got' = [t \in Terminals |-> <<>>]
      BY <1>3, Zenon DEF Attach, AttachRefused
    <2>2. InRow(<<>>)
      BY DEF InRow
    <2>3. got' = [t \in Terminals |-> got'[t]] /\ \A t \in Terminals : got'[t] = <<>>
      BY <2>1, Zenon
    <2> QED BY <1>3, <2>2, <2>3, CalmAttach, Zenon DEF GotRows
  <1>4. ASSUME NEW c \in Conns, NEW op \in {"open", "close", "resize"}, NEW t \in Terminals,
               handle_action(c, op, t)
        PROVE  Calm' /\ GotRows'
    <2>1. Calm'
      BY <1>4, CalmAction
    <2> QED BY <1>1, <1>4, <2>1, Zenon DEF handle_action
  <1>5. ASSUME NEW c \in Conns, Reopen(c) PROVE Calm' /\ GotRows'
    BY <1>1, <1>5, CalmReopen, Zenon DEF Reopen
  <1>6. ASSUME NEW c \in Conns, Open(c) PROVE Calm' /\ GotRows'
    BY <1>1, <1>6, CalmOpen, Zenon DEF Open
  <1>7. ASSUME NEW c \in Conns, Collect(c) PROVE Calm' /\ GotRows'
    BY <1>1, <1>7, CalmCollect, Zenon DEF Collect, LoopOnly
  <1>8. ASSUME NEW c \in Conns, NEW e \in loop[c].todo, Poll(c, e) PROVE Calm' /\ GotRows'
    <2>1. /\ GotRows'
          /\ plain /\ Sending(e) /\ conn[last] = "on" /\ got'[e[1]] # <<>>
               => Shown(ses'[e[2]], got'[e[1]])
      BY <1>8, PollShows, Zenon
    <2>2. got = [t \in Terminals |-> got[t]]
      BY Zenon DEF GotRows
    <2> QED BY <1>8, <2>1, <2>2, CalmPoll, Zenon
  <1> QED BY <1>2, <1>3, <1>4, <1>5, <1>6, <1>7, <1>8, StepKinds, Zenon

\* What a client that attached alone is shown under a terminal is a row of the shell's
\* output without a gap or a repetition: what was replayed to it on the reopening, then
\* what read_outputs sent, however attachments, reopenings, closings and polls
\* interleave with the reader (handle_open, read_outputs, append, get_recent).
THEOREM OutputContinuous == Spec => []Continuous
  <1> DEFINE All == Links /\ Flows /\ Calm /\ GotRows
  <1>1. Init => All
    <2> SUFFICES ASSUME Init PROVE All
      OBVIOUS
    <2>1. Links /\ Calm
      BY LinksInit, Zenon
    <2>2. /\ NewSession.buf = <<>> /\ NewSession.pending = <<>> /\ NewSession.out = <<>>
          /\ NewSession.sent = 0
      BY DEF NewSession
    <2>3. 0 \in Nat /\ Flow(NewSession, 0)
      <3>1. 0 \in Nat
        OBVIOUS
      <3> QED BY <2>2, <3>1, FlowEmpty, Zenon DEF Flow
    <2>4. \A s \in Sessions : ses[s] = NewSession
      BY DEF Init
    <2>5. got = [t \in Terminals |-> <<>>]
      BY Zenon DEF Init
    <2>6. InRow(<<>>)
      BY DEF InRow
    <2>7. got = [t \in Terminals |-> got[t]] /\ \A t \in Terminals : got[t] = <<>>
      BY <2>5, Zenon
    <2> QED BY <2>1, <2>3, <2>4, <2>6, <2>7, Zenon DEF Flows, GotRows
  <1>2. IInv /\ OutputInv /\ OutputInv' /\ All /\ [Next]_vars => All'
    <2> SUFFICES ASSUME IInv, OutputInv, OutputInv', All, [Next]_vars PROVE All'
      OBVIOUS
    <2>1. \A D \in SUBSET Nat : D # {} => Min(D) \in D
      BY MinIs, Zenon
    <2>2. Links' /\ Flows' /\ Calm' /\ GotRows'
      BY <2>1, LinksStep, FlowsStep, ClientStep, Zenon
    <2> QED BY <2>2, Zenon
  <1>3. All => Continuous
    BY Zenon DEF GotRows, InRow, Continuous
  <1> HIDE DEF All
  <1> QED BY <1>1, <1>2, <1>3, Inductive, OutputInductive, PTL DEF Spec
=============================================================================
