----------------------- MODULE TerminalBuffer_proofs ------------------------
(***************************************************************************)
(* Facts about OutputBuffer and Utf8ChunkAccumulator, for buffers and data *)
(* of any length: what appending and trimming leave, what is replayed, and *)
(* where a chunk is split.                                                 *)
(*                                                                         *)
(* Induction over numbers is by sets: a set of numbers that holds 0 and    *)
(* the successors of its members holds all of them.                        *)
(***************************************************************************)
EXTENDS TerminalBuffer, FiniteSetTheorems, TLAPS

Bytes == Nat \X Kinds

-----------------------------------------------------------------------------
(* Numbers.                                                                *)

\* Numbers are well-ordered: what Min of the trimming (append) rests on.
LEMMA LeastNat ==
    ASSUME NEW T, T \subseteq Nat, T # {}
    PROVE  \E m \in T : \A k \in T : m <= k
  <1>1. PICK m \in T : \A k \in T : <<k, m>> \notin OpToRel(<, Nat)
    BY NatLessThanWellFounded, WFMin, Zenon
  <1>2. \A k \in T : ~(k < m)
    BY <1>1 DEF OpToRel
  <1> QED BY <1>2

\* Induction over the numbers of chunks that append has taken.
LEMMA SetInduction ==
    ASSUME NEW T, 0 \in T, \A n \in Nat : n \in T => n + 1 \in T
    PROVE  \A n \in Nat : n \in T
  <1> SUFFICES ASSUME NEW n \in Nat, n \notin T PROVE FALSE
    OBVIOUS
  <1> DEFINE U == {k \in Nat : k \notin T}
  <1>1. PICK m \in U : \A k \in U : m <= k
    BY LeastNat, Zenon
  <1>2. m # 0 /\ m - 1 \in Nat /\ m - 1 \notin U
    BY <1>1
  <1> QED BY <1>2

\* The least of a set of positions (append, get_recent).
LEMMA MinIs ==
    ASSUME NEW T, T \subseteq Nat, T # {}
    PROVE  Min(T) \in T /\ \A k \in T : Min(T) <= k
  BY LeastNat DEF Min

\* The greatest of a set of positions (get_recent, find_utf8_split_point).
LEMMA MaxIs ==
    ASSUME NEW T, T \subseteq Nat, T # {}, NEW n \in Nat, \A k \in T : k <= n
    PROVE  Max(T) \in T /\ \A k \in T : k <= Max(T)
  <1> DEFINE U == {k \in Nat : \A i \in T : i <= k}
  <1>1. PICK m \in U : \A k \in U : m <= k
    BY LeastNat, Zenon
  <1>2. m \in T
    <2> SUFFICES ASSUME m \notin T PROVE FALSE
      OBVIOUS
    <2>1. \A i \in T : i < m
      BY <1>1
    <2>2. m > 0
      <3>1. PICK i \in T : TRUE
        OBVIOUS
      <3> QED BY <2>1, <3>1
    <2>3. m - 1 \in U
      BY <2>1, <2>2
    <2> QED BY <1>1, <2>3
  <1> QED BY <1>1, <1>2 DEF Max

-----------------------------------------------------------------------------
(* Taking the chunks of the channel one after the other.                   *)

\* The steps of appending the chunks of out to b (handle_open, read_outputs).
Steps(g, b, out) ==
    g = [i \in 0 .. Len(out) |-> IF i = 0 THEN b ELSE append(g[i - 1], out[i])]

\* What the loop over try_recv leaves: one append after the other.
LEMMA FoldSteps ==
    ASSUME NEW b, NEW S, NEW out \in Seq(S)
    PROVE  \E g : Steps(g, b, out) /\ append_all(b, out) = g[Len(out)]
  <1> DEFINE n == Len(out)
             Is(m, f) == f = [i \in 0 .. m |-> IF i = 0 THEN b ELSE append(f[i - 1], out[i])]
             T == {m \in Nat : \E f : Is(m, f)}
  <1>1. 0 \in T
    <2>1. Is(0, [i \in 0 .. 0 |-> b])
      OBVIOUS
    <2> QED BY <2>1, Zenon
  <1>2. ASSUME NEW m \in Nat, m \in T PROVE m + 1 \in T
    <2>1. PICK f : Is(m, f)
      BY <1>2
    <2> DEFINE g == [i \in 0 .. m + 1 |-> IF i <= m THEN f[i] ELSE append(f[m], out[i])]
    <2>2. ASSUME NEW i \in 0 .. m + 1
          PROVE  g[i] = IF i = 0 THEN b ELSE append(g[i - 1], out[i])
      <3>1. CASE i <= m
        <4>1. f[i] = IF i = 0 THEN b ELSE append(f[i - 1], out[i])
          BY <2>1, <3>1
        <4>2. i # 0 => g[i - 1] = f[i - 1]
          BY <3>1
        <4> QED BY <3>1, <4>1, <4>2
      <3>2. CASE i = m + 1
        <4>1. g[i - 1] = f[m] /\ i # 0
          BY <3>2
        <4> QED BY <3>2, <4>1
      <3> QED BY <3>1, <3>2
    <2>3. Is(m + 1, g)
      BY <2>2
    <2> HIDE DEF Is, g
    <2> QED BY <2>3
  <1>3. n \in T
    <2> HIDE DEF T
    <2> QED BY <1>1, <1>2, SetInduction
  <1> DEFINE g == CHOOSE f : Is(n, f)
  <1>4. Is(n, g)
    BY <1>3, Zenon
  <1>5. append_all(b, out) = g[n]
    BY DEF append_all
  <1>6. Steps(g, b, out)
    BY <1>4 DEF Steps
  <1> HIDE DEF g
  <1> QED BY <1>5, <1>6

\* What every append keeps, appending all chunks keeps (handle_open, read_outputs).
LEMMA FoldKeeps ==
    ASSUME NEW S, NEW out \in Seq(S), NEW G, NEW b \in G,
           \A x \in G : \A i \in 1 .. Len(out) : append(x, out[i]) \in G
    PROVE  append_all(b, out) \in G
  <1>1. PICK g : Steps(g, b, out) /\ append_all(b, out) = g[Len(out)]
    BY FoldSteps, Zenon
  <1> DEFINE T == {k \in Nat : k <= Len(out) => g[k] \in G}
  <1>2. 0 \in T
    BY <1>1 DEF Steps
  <1>3. ASSUME NEW k \in Nat, k \in T PROVE k + 1 \in T
    <2> SUFFICES ASSUME k + 1 <= Len(out) PROVE g[k + 1] \in G
      OBVIOUS
    <2>1. k + 1 \in 1 .. Len(out) /\ g[k] \in G
      BY <1>3
    <2>2. g[k + 1] = append(g[k], out[k + 1])
      BY <1>1, <2>1 DEF Steps
    <2> QED BY <2>1, <2>2
  <1>4. Len(out) \in T
    <2> HIDE DEF T
    <2> QED BY <1>2, <1>3, SetInduction
  <1> QED BY <1>1, <1>4

\* Two chunks in a row.
Join(a, b) == a \o b

\* The first i chunks in a row.
Rows(h, out) ==
    h = [i \in 0 .. Len(out) |-> IF i = 0 THEN <<>> ELSE Join(h[i - 1], out[i])]

\* What is sent to the client is the chunks in a row (read_outputs).
LEMMA ConcatRows ==
    ASSUME NEW S, NEW out \in Seq(Seq(S))
    PROVE  \E h : /\ Rows(h, out) /\ Concat(out) = h[Len(out)]
                  /\ \A i \in 0 .. Len(out) : h[i] \in Seq(S)
  <1> DEFINE n == Len(out)
             Is(m, h) == h = [i \in 0 .. m |-> IF i = 0 THEN <<>> ELSE Join(h[i - 1], out[i])]
             T == {m \in Nat : \E h : Is(m, h)}
  <1>1. 0 \in T
    <2>1. Is(0, [i \in 0 .. 0 |-> <<>>])
      OBVIOUS
    <2> QED BY <2>1, Zenon
  <1>2. ASSUME NEW m \in Nat, m \in T PROVE m + 1 \in T
    <2>1. PICK f : Is(m, f)
      BY <1>2
    <2> DEFINE g == [i \in 0 .. m + 1 |-> IF i <= m THEN f[i] ELSE Join(f[m], out[i])]
    <2>2. ASSUME NEW i \in 0 .. m + 1
          PROVE  g[i] = IF i = 0 THEN <<>> ELSE Join(g[i - 1], out[i])
      <3>1. CASE i <= m
        <4>1. f[i] = IF i = 0 THEN <<>> ELSE Join(f[i - 1], out[i])
          BY <2>1, <3>1
        <4>2. i # 0 => g[i - 1] = f[i - 1]
          BY <3>1
        <4> QED BY <3>1, <4>1, <4>2
      <3>2. CASE i = m + 1
        <4>1. g[i - 1] = f[m] /\ i # 0
          BY <3>2
        <4> QED BY <3>2, <4>1
      <3> QED BY <3>1, <3>2
    <2>3. Is(m + 1, g)
      BY <2>2
    <2> HIDE DEF Is, g
    <2> QED BY <2>3
  <1>3. n \in T
    <2> HIDE DEF T, Is
    <2>1. T \subseteq Nat /\ \A m \in Nat : m \in T => m + 1 \in T
      BY <1>2, Zenon DEF T
    <2>2. n \in Nat
      OBVIOUS
    <2> QED BY <1>1, <2>1, <2>2, SetInduction, Zenon
  <1> DEFINE h == CHOOSE f : Is(n, f)
  <1>4. Is(n, h)
    BY <1>3, Zenon
  <1>5. Concat(out) = h[n]
    BY DEF Concat, Join
  <1> HIDE DEF h
  <1> DEFINE U == {k \in Nat : k \in 0 .. n => h[k] \in Seq(S)}
  <1>6. 0 \in U
    BY <1>4
  <1>7. ASSUME NEW k \in Nat, k \in U PROVE k + 1 \in U
    <2> SUFFICES ASSUME k + 1 \in 0 .. n PROVE h[k + 1] \in Seq(S)
      OBVIOUS
    <2>1. out[k + 1] \in Seq(S) /\ h[k] \in Seq(S)
      BY <1>7
    <2>2. h[k + 1] = Join(h[k], out[k + 1])
      BY <1>4
    <2> QED BY <2>1, <2>2 DEF Join
  <1>8. \A k \in Nat : k \in U
    <2> HIDE DEF U
    <2> QED BY <1>6, <1>7, SetInduction
  <1>9. Rows(h, out)
    BY <1>4 DEF Rows
  <1> QED BY <1>5, <1>8, <1>9

-----------------------------------------------------------------------------
(* OutputBuffer.                                                           *)

\* All of the bytes, from the first to the last (push_chunk).
LEMMA SubSeqAll ==
    ASSUME NEW S, NEW s \in Seq(S)
    PROVE  SubSeq(s, 1, Len(s)) = s
  <1>1. /\ SubSeq(s, 1, Len(s)) \in Seq(S) /\ Len(SubSeq(s, 1, Len(s))) = Len(s)
        /\ \A i \in 1 .. Len(s) : SubSeq(s, 1, Len(s))[i] = s[i]
    OBVIOUS
  <1> QED BY <1>1

\* Bytes leave a buffer at the front (append, get_recent).
LEMMA DropIs ==
    ASSUME NEW S, NEW s \in Seq(S), NEW k \in 0 .. Len(s)
    PROVE  /\ Drop(s, k) \in Seq(S) /\ Len(Drop(s, k)) = Len(s) - k
           /\ \A i \in 1 .. Len(s) - k : Drop(s, k)[i] = s[k + i]
  <1>1. /\ k + 1 \in Int /\ Len(s) \in Int
        /\ \A i \in k + 1 .. Len(s) : s[i] \in S
    OBVIOUS
  <1>2. /\ SubSeq(s, k + 1, Len(s)) \in Seq(S)
        /\ Len(SubSeq(s, k + 1, Len(s))) = IF k + 1 <= Len(s) THEN Len(s) - (k + 1) + 1 ELSE 0
        /\ \A i \in 1 .. Len(s) - (k + 1) + 1 : SubSeq(s, k + 1, Len(s))[i] = s[(k + 1) + i - 1]
    BY <1>1
  <1> QED BY <1>2 DEF Drop

\* Where the lines of a buffer begin and end.
LEMMA LinesIn ==
    ASSUME NEW b \in Seq(Bytes)
    PROVE  /\ Newlines(b) \subseteq 1 .. Len(b)
           /\ LineStarts(b) \subseteq 0 .. Len(b)
           /\ Len(b) \notin LineStarts(b)
           /\ b # <<>> => 0 \in LineStarts(b)
  BY DEF Newlines, LineStarts

\* A buffer that has been trimmed to nothing has no lines (append).
LEMMA NoElements == Cardinality({}) = 0
  BY FS_EmptySet

\* Trimming drops whole lines, and keeps both limits.
LEMMA TrimIs ==
    ASSUME NEW b \in Seq(Bytes)
    PROVE  \E k \in 0 .. Len(b) :
              /\ Trim(b) = Drop(b, k)
              /\ k \in LineStarts(b) \union {Len(b)}
              /\ Len(b) - k <= MAX_OUTPUT_BUFFER_SIZE
              /\ Cardinality({i \in LineStarts(b) : i >= k}) <= MAX_BUFFER_LINES
  <1> DEFINE K == {k \in LineStarts(b) \union {Len(b)} :
                    /\ Len(b) - k <= MAX_OUTPUT_BUFFER_SIZE
                    /\ Cardinality({i \in LineStarts(b) : i >= k}) <= MAX_BUFFER_LINES}
  <1>1. {i \in LineStarts(b) : i >= Len(b)} = {}
    BY LinesIn
  <1>2. Len(b) \in K
    <2>1. Cardinality({i \in LineStarts(b) : i >= Len(b)}) = 0
      BY <1>1, NoElements, Zenon
    <2> HIDE DEF LineStarts
    <2> QED BY <2>1, BufferAssumption
  <1>3. K \subseteq Nat
    BY LinesIn
  <1>4. Min(K) \in K
    BY <1>2, <1>3, MinIs, Zenon
  <1>5. Min(K) \in 0 .. Len(b)
    BY <1>4, LinesIn
  <1>6. Trim(b) = Drop(b, Min(K))
    BY DEF Trim
  <1> QED BY <1>4, <1>5, <1>6, Zenon

\* Appending keeps the end of what there was and what is new, from the beginning
\* of a line on if anything was dropped.
LEMMA AppendIs ==
    ASSUME NEW b \in Seq(Bytes), NEW d \in Seq(Bytes)
    PROVE  \E k \in 0 .. Len(b \o d) :
              /\ append(b, d) = Drop(b \o d, k)
              /\ k \in {0, Len(b \o d)} \union Newlines(b \o d)
  <1> DEFINE c == b \o d
  <1>1. c \in Seq(Bytes)
    OBVIOUS
  <1>0. SUFFICES \E k \in 0 .. Len(c) : /\ append(b, d) = Drop(c, k)
                                         /\ k \in {0, Len(c)} \union Newlines(c)
    OBVIOUS
  <1>5. append(b, d) \in {c, Trim(c)}
    BY DEF append
  <1> HIDE DEF c
  <1>2. Drop(c, 0) = c
    BY <1>1, SubSeqAll DEF Drop
  <1>3. CASE append(b, d) = c
    <2>1. 0 \in 0 .. Len(c) /\ 0 \in {0, Len(c)} \union Newlines(c)
      BY <1>1
    <2> QED BY <1>2, <1>3, <2>1, Zenon
  <1>4. CASE append(b, d) = Trim(c)
    <2>1. PICK k \in 0 .. Len(c) : Trim(c) = Drop(c, k) /\ k \in LineStarts(c) \union {Len(c)}
      BY <1>1, TrimIs
    <2>2. k \in {0, Len(c)} \union Newlines(c)
      BY <2>1 DEF LineStarts
    <2> QED BY <1>4, <2>1, <2>2, Zenon
  <1> QED BY <1>3, <1>4, <1>5, Zenon

-----------------------------------------------------------------------------
(* Characters.                                                             *)

\* A character of s ends after k bytes.
Boundary(s, k) == k = Len(s) \/ KindAt(s, k + 1) # "cont"

\* A character has one to four bytes (find_utf8_split_point).
LEMMA SeqLens ==
    /\ SeqLen["newline"] = 1
    /\ \A k \in Kinds : k # "cont" => SeqLen[k] \in 1 .. 4
  BY DEF Kinds, SeqLen

\* The kind of a byte that is there.
LEMMA KindIn ==
    ASSUME NEW s \in Seq(Bytes), NEW i \in 1 .. Len(s)
    PROVE  KindAt(s, i) \in Kinds
  BY DEF Bytes, KindAt

\* Text from a character on is text.
LEMMA Utf8Drop ==
    ASSUME NEW s \in Seq(Bytes), IsUtf8(s), NEW k \in 0 .. Len(s), Boundary(s, k)
    PROVE  IsUtf8(Drop(s, k))
  <1> DEFINE c == Drop(s, k)
  <1>1. c \in Seq(Bytes) /\ Len(c) = Len(s) - k /\ \A i \in 1 .. Len(s) - k : c[i] = s[k + i]
    BY DropIs
  <1> HIDE DEF c
  <1> SUFFICES IsUtf8(c)
    BY DEF c
  <1>2. DOMAIN c = 1 .. Len(c) /\ DOMAIN s = 1 .. Len(s)
    BY <1>1
  <1>3. \A i \in 1 .. Len(c) : k + i \in 1 .. Len(s) /\ KindAt(c, i) = KindAt(s, k + i)
    BY <1>1 DEF KindAt
  <1>4. ASSUME NEW i \in 1 .. Len(c), KindAt(c, i) = "cont"
        PROVE  \E j \in 1 .. i - 1 : /\ KindAt(c, j) # "cont"
                                     /\ i < j + SeqLen[KindAt(c, j)]
                                     /\ \A m \in j + 1 .. i : KindAt(c, m) = "cont"
    <2>1. k + i \in 1 .. Len(s) /\ KindAt(s, k + i) = "cont"
      BY <1>3, <1>4
    <2>2. PICK j \in 1 .. (k + i) - 1 : /\ KindAt(s, j) # "cont"
                                        /\ k + i < j + SeqLen[KindAt(s, j)]
                                        /\ \A m \in j + 1 .. k + i : KindAt(s, m) = "cont"
      BY <1>2, <2>1 DEF IsUtf8
    <2>3. j > k
      <3> SUFFICES ASSUME j <= k PROVE FALSE
        OBVIOUS
      <3>1. k + 1 \in j + 1 .. k + i /\ k # Len(s)
        BY <2>1
      <3> QED BY <2>2, <3>1 DEF Boundary
    <2>4. j - k \in 1 .. i - 1 /\ j - k \in 1 .. Len(c) /\ k + (j - k) = j
      BY <2>3
    <2>5. KindAt(c, j - k) = KindAt(s, j)
      BY <1>3, <2>4
    <2>6. SeqLen[KindAt(s, j)] \in 1 .. 4
      BY <2>1, <2>2, KindIn, SeqLens
    <2>7. i < (j - k) + SeqLen[KindAt(c, j - k)]
      <3>1. \A z \in 1 .. 4 : k + i < j + z => i < (j - k) + z
        OBVIOUS
      <3> QED BY <2>2, <2>5, <2>6, <3>1, Zenon
    <2>8. ASSUME NEW m \in (j - k) + 1 .. i PROVE KindAt(c, m) = "cont"
      <3>1. k + m \in j + 1 .. k + i /\ m \in 1 .. Len(c)
        BY <2>3
      <3> QED BY <1>3, <2>2, <3>1
    <2> QED BY <2>2, <2>4, <2>5, <2>7, <2>8
  <1>5. ASSUME NEW i \in 1 .. Len(c), KindAt(c, i) # "cont",
               NEW m \in i + 1 .. i + SeqLen[KindAt(c, i)] - 1
        PROVE  m \in 1 .. Len(c) /\ KindAt(c, m) = "cont"
    <2>1. k + i \in 1 .. Len(s) /\ KindAt(c, i) = KindAt(s, k + i)
      BY <1>3
    <2>2. SeqLen[KindAt(s, k + i)] \in 1 .. 4
      BY <1>5, <2>1, KindIn, SeqLens
    <2>3. k + m \in (k + i) + 1 .. (k + i) + SeqLen[KindAt(s, k + i)] - 1
      <3>1. \A z \in 1 .. 4 : m \in i + 1 .. i + z - 1 => k + m \in (k + i) + 1 .. (k + i) + z - 1
        OBVIOUS
      <3> QED BY <2>1, <2>2, <3>1, Zenon
    <2>4. k + m \in 1 .. Len(s) /\ KindAt(s, k + m) = "cont"
      BY <1>2, <1>5, <2>1, <2>3 DEF IsUtf8
    <2>5. m \in 1 .. Len(c)
      BY <1>1, <2>2, <2>1, <2>4
    <2> QED BY <1>3, <2>4, <2>5
  <1> QED BY <1>2, <1>4, <1>5 DEF IsUtf8

\* Text up to the end of a character is text.
LEMMA Utf8Prefix ==
    ASSUME NEW s \in Seq(Bytes), IsUtf8(s), NEW k \in 0 .. Len(s), Boundary(s, k)
    PROVE  SubSeq(s, 1, k) \in Seq(Bytes) /\ IsUtf8(SubSeq(s, 1, k))
  <1> DEFINE c == SubSeq(s, 1, k)
  <1>1. c \in Seq(Bytes) /\ Len(c) = k /\ \A i \in 1 .. k : c[i] = s[i]
    OBVIOUS
  <1> HIDE DEF c
  <1> SUFFICES IsUtf8(c)
    BY <1>1 DEF c
  <1>2. DOMAIN c = 1 .. k /\ DOMAIN s = 1 .. Len(s)
    BY <1>1
  <1>3. \A i \in 1 .. k : i \in 1 .. Len(s) /\ KindAt(c, i) = KindAt(s, i)
    BY <1>1 DEF KindAt
  <1>4. ASSUME NEW i \in 1 .. k, KindAt(c, i) = "cont"
        PROVE  \E j \in 1 .. i - 1 : /\ KindAt(c, j) # "cont"
                                     /\ i < j + SeqLen[KindAt(c, j)]
                                     /\ \A m \in j + 1 .. i : KindAt(c, m) = "cont"
    <2>1. i \in 1 .. Len(s) /\ KindAt(s, i) = "cont"
      BY <1>3, <1>4
    <2>2. PICK j \in 1 .. i - 1 : /\ KindAt(s, j) # "cont"
                                  /\ i < j + SeqLen[KindAt(s, j)]
                                  /\ \A m \in j + 1 .. i : KindAt(s, m) = "cont"
      BY <1>2, <2>1 DEF IsUtf8
    <2>3. j \in 1 .. k /\ \A m \in j + 1 .. i : m \in 1 .. k
      OBVIOUS
    <2> QED BY <1>3, <2>2, <2>3
  <1>5. ASSUME NEW i \in 1 .. k, KindAt(c, i) # "cont",
               NEW m \in i + 1 .. i + SeqLen[KindAt(c, i)] - 1
        PROVE  m \in 1 .. k /\ KindAt(c, m) = "cont"
    <2>1. i \in 1 .. Len(s) /\ KindAt(c, i) = KindAt(s, i)
      BY <1>3
    <2>2. SeqLen[KindAt(s, i)] \in 1 .. 4
      BY <1>5, <2>1, KindIn, SeqLens
    <2>3. \A n \in i + 1 .. i + SeqLen[KindAt(s, i)] - 1 : n \in 1 .. Len(s) /\ KindAt(s, n) = "cont"
      BY <1>2, <1>5, <2>1 DEF IsUtf8
    <2>4. m \in 1 .. Len(s) /\ KindAt(s, m) = "cont" /\ m \in Int /\ m > i
      BY <2>1, <2>2, <2>3
    <2>5. m <= k
      <3> SUFFICES ASSUME m > k PROVE FALSE
        BY <2>4
      <3>1. k + 1 \in i + 1 .. i + SeqLen[KindAt(s, i)] - 1 /\ k # Len(s)
        BY <2>1, <2>2, <2>4
      <3> QED BY <2>3, <3>1 DEF Boundary
    <2>6. m \in 1 .. k
      BY <2>4, <2>5
    <2> QED BY <1>3, <2>4, <2>6
  <1> QED BY <1>2, <1>4, <1>5 DEF IsUtf8

\* Text after text is text.
LEMMA Utf8Join ==
    ASSUME NEW a \in Seq(Bytes), NEW b \in Seq(Bytes), IsUtf8(a), IsUtf8(b)
    PROVE  IsUtf8(a \o b)
  <1> DEFINE c == a \o b
             k == Len(a)
  <1>1. /\ c \in Seq(Bytes) /\ Len(c) = k + Len(b) /\ k \in Nat
        /\ \A i \in 1 .. Len(a) : c[i] = a[i]
        /\ \A i \in 1 .. Len(b) : c[k + i] = b[i]
    OBVIOUS
  <1> HIDE DEF c
  <1> SUFFICES IsUtf8(c)
    BY DEF c
  <1>2. DOMAIN c = 1 .. Len(c) /\ DOMAIN a = 1 .. k /\ DOMAIN b = 1 .. Len(b)
    BY <1>1
  <1>3. \A i \in 1 .. k : i \in 1 .. Len(c) /\ KindAt(c, i) = KindAt(a, i)
    BY <1>1 DEF KindAt
  <1>4. \A i \in 1 .. Len(b) : k + i \in 1 .. Len(c) /\ KindAt(c, k + i) = KindAt(b, i)
    BY <1>1 DEF KindAt
  <1> HIDE DEF k
  <1>5. ASSUME NEW i \in 1 .. k, KindAt(c, i) = "cont"
        PROVE  \E j \in 1 .. i - 1 : /\ KindAt(c, j) # "cont"
                                     /\ i < j + SeqLen[KindAt(c, j)]
                                     /\ \A m \in j + 1 .. i : KindAt(c, m) = "cont"
    <2>1. PICK j \in 1 .. i - 1 : /\ KindAt(a, j) # "cont"
                                  /\ i < j + SeqLen[KindAt(a, j)]
                                  /\ \A m \in j + 1 .. i : KindAt(a, m) = "cont"
      BY <1>2, <1>3, <1>5 DEF IsUtf8
    <2>2. j \in 1 .. k /\ \A m \in j + 1 .. i : m \in 1 .. k
      BY <1>1
    <2> QED BY <1>3, <2>1, <2>2
  <1>6. ASSUME NEW i \in 1 .. k, KindAt(c, i) # "cont",
               NEW m \in i + 1 .. i + SeqLen[KindAt(c, i)] - 1
        PROVE  m \in 1 .. Len(c) /\ KindAt(c, m) = "cont"
    <2>1. m \in 1 .. k /\ KindAt(a, m) = "cont"
      BY <1>2, <1>3, <1>6 DEF IsUtf8
    <2> QED BY <1>3, <2>1
  <1>7. ASSUME NEW i \in 1 .. Len(b), KindAt(c, k + i) = "cont"
        PROVE  \E j \in 1 .. (k + i) - 1 : /\ KindAt(c, j) # "cont"
                                           /\ k + i < j + SeqLen[KindAt(c, j)]
                                           /\ \A m \in j + 1 .. k + i : KindAt(c, m) = "cont"
    <2>1. PICK j \in 1 .. i - 1 : /\ KindAt(b, j) # "cont"
                                  /\ i < j + SeqLen[KindAt(b, j)]
                                  /\ \A m \in j + 1 .. i : KindAt(b, m) = "cont"
      <3>1. KindAt(b, i) = "cont"
        BY <1>4, <1>7, Zenon
      <3> QED BY <1>2, <3>1, Zenon DEF IsUtf8
    <2>2. j \in 1 .. Len(b) /\ k + j \in 1 .. (k + i) - 1
      BY <1>1
    <2>3. KindAt(c, k + j) = KindAt(b, j) /\ SeqLen[KindAt(b, j)] \in 1 .. 4
      BY <1>4, <2>1, <2>2, KindIn, SeqLens
    <2>4. k + i < (k + j) + SeqLen[KindAt(c, k + j)]
      <3>1. i < j + SeqLen[KindAt(b, j)]
        BY <2>1, Zenon
      <3>2. \A z \in 1 .. 4 : i < j + z => k + i < (k + j) + z
        BY <1>1
      <3> QED BY <2>3, <3>1, <3>2, Zenon
    <2>5. ASSUME NEW m \in (k + j) + 1 .. k + i PROVE KindAt(c, m) = "cont"
      <3>1. m - k \in j + 1 .. i /\ m - k \in 1 .. Len(b) /\ k + (m - k) = m
        BY <1>1
      <3> QED BY <1>4, <2>1, <3>1
    <2> QED BY <2>1, <2>2, <2>3, <2>4, <2>5
  <1>8. ASSUME NEW i \in 1 .. Len(b), KindAt(c, k + i) # "cont",
               NEW m \in (k + i) + 1 .. (k + i) + SeqLen[KindAt(c, k + i)] - 1
        PROVE  m \in 1 .. Len(c) /\ KindAt(c, m) = "cont"
    <2>1. KindAt(c, k + i) = KindAt(b, i) /\ SeqLen[KindAt(b, i)] \in 1 .. 4
      BY <1>4, <1>8, KindIn, SeqLens
    <2>2. m - k \in i + 1 .. i + SeqLen[KindAt(b, i)] - 1 /\ k + (m - k) = m
      <3>1. \A z \in 1 .. 4 : \A x \in (k + i) + 1 .. (k + i) + z - 1 :
              x - k \in i + 1 .. i + z - 1 /\ k + (x - k) = x
        BY <1>1
      <3>2. m \in (k + i) + 1 .. (k + i) + SeqLen[KindAt(b, i)] - 1
        BY <2>1, Zenon
      <3> QED BY <2>1, <3>1, <3>2, Zenon
    <2>3. m - k \in 1 .. Len(b) /\ KindAt(b, m - k) = "cont"
      BY <1>2, <1>8, <2>1, <2>2 DEF IsUtf8
    <2> QED BY <1>4, <2>2, <2>3
  <1>9. ASSUME NEW i \in 1 .. Len(c)
        PROVE  i \in 1 .. k \/ \E n \in 1 .. Len(b) : i = k + n
    <2>1. i > k => i - k \in 1 .. Len(b) /\ i = k + (i - k)
      BY <1>1
    <2> QED BY <1>1, <2>1
  <1>10. ASSUME NEW i \in 1 .. Len(c)
         PROVE  IF KindAt(c, i) = "cont"
                THEN \E j \in 1 .. i - 1 : /\ KindAt(c, j) # "cont"
                                           /\ i < j + SeqLen[KindAt(c, j)]
                                           /\ \A m \in j + 1 .. i : KindAt(c, m) = "cont"
                ELSE \A m \in i + 1 .. i + SeqLen[KindAt(c, i)] - 1 :
                        m \in 1 .. Len(c) /\ KindAt(c, m) = "cont"
    <2>1. CASE i \in 1 .. k
      BY <1>5, <1>6, <2>1, Zenon
    <2>2. ASSUME NEW n \in 1 .. Len(b), i = k + n
          PROVE  IF KindAt(c, i) = "cont"
                 THEN \E j \in 1 .. i - 1 : /\ KindAt(c, j) # "cont"
                                            /\ i < j + SeqLen[KindAt(c, j)]
                                            /\ \A m \in j + 1 .. i : KindAt(c, m) = "cont"
                 ELSE \A m \in i + 1 .. i + SeqLen[KindAt(c, i)] - 1 :
                         m \in 1 .. Len(c) /\ KindAt(c, m) = "cont"
      BY <1>7, <1>8, <2>2, Zenon
    <2> QED BY <1>9, <2>1, <2>2, Zenon
  <1> QED BY <1>2, <1>10, Zenon DEF IsUtf8

\* Text begins with a character, and a character follows a newline.
LEMMA LineBoundary ==
    ASSUME NEW s \in Seq(Bytes), IsUtf8(s), NEW k \in 0 .. Len(s),
           k \in {0, Len(s)} \union Newlines(s)
    PROVE  Boundary(s, k)
  <1>1. DOMAIN s = 1 .. Len(s) /\ Len(s) \in Nat
    OBVIOUS
  <1>3. ASSUME k # Len(s), KindAt(s, k + 1) = "cont" PROVE FALSE
    <2>1. PICK j \in 1 .. (k + 1) - 1 : /\ KindAt(s, j) # "cont"
                                        /\ k + 1 < j + SeqLen[KindAt(s, j)]
                                        /\ \A m \in j + 1 .. k + 1 : KindAt(s, m) = "cont"
      <3>0. k \in 0 .. Len(s) /\ k # Len(s)
        BY <1>3
      <3>2. k + 1 \in 1 .. Len(s)
        BY <3>0
      <3>1. k + 1 \in DOMAIN s
        BY <1>1, <3>2, Zenon
      <3> QED BY <1>3, <3>1, Zenon DEF IsUtf8
    <2>2. k # 0 /\ k \in Newlines(s)
      BY <1>3, <2>1
    <2>3. KindAt(s, k) = "newline"
      BY <2>2 DEF Newlines
    <2>4. j = k
      <3> SUFFICES ASSUME j # k PROVE FALSE
        OBVIOUS
      <3>1. k \in j + 1 .. k + 1
        OBVIOUS
      <3> QED BY <2>1, <2>3, <3>1
    <2> QED BY <2>1, <2>3, <2>4, SeqLens
  <1> QED BY <1>3 DEF Boundary

\* append keeps text as text: what it drops is whole lines.
LEMMA AppendUtf8 ==
    ASSUME NEW b \in Seq(Bytes), NEW d \in Seq(Bytes), IsUtf8(b), IsUtf8(d)
    PROVE  append(b, d) \in Seq(Bytes) /\ IsUtf8(append(b, d))
  <1>1. b \o d \in Seq(Bytes)
    OBVIOUS
  <1>2. IsUtf8(b \o d)
    BY Utf8Join, Zenon
  <1>3. PICK k \in 0 .. Len(b \o d) : /\ append(b, d) = Drop(b \o d, k)
                                      /\ k \in {0, Len(b \o d)} \union Newlines(b \o d)
    BY AppendIs, Zenon
  <1>4. Boundary(b \o d, k)
    BY <1>1, <1>2, <1>3, LineBoundary, Zenon
  <1> QED BY <1>1, <1>2, <1>3, <1>4, Utf8Drop, DropIs, Zenon

\* So does taking all that the channel holds (handle_open, read_outputs).
LEMMA FoldUtf8 ==
    ASSUME NEW b \in Seq(Bytes), IsUtf8(b), NEW out \in Seq(Seq(Bytes)),
           \A i \in DOMAIN out : IsUtf8(out[i])
    PROVE  append_all(b, out) \in Seq(Bytes) /\ IsUtf8(append_all(b, out))
  <1> DEFINE G == {x \in Seq(Bytes) : IsUtf8(x)}
  <1>1. b \in G
    OBVIOUS
  <1>2. \A x \in G : \A i \in 1 .. Len(out) : append(x, out[i]) \in G
    <2>1. \A i \in 1 .. Len(out) : out[i] \in Seq(Bytes) /\ IsUtf8(out[i])
      OBVIOUS
    <2> QED BY <2>1, AppendUtf8, Zenon
  <1>3. append_all(b, out) \in G
    <2> HIDE DEF G
    <2> QED BY <1>1, <1>2, FoldKeeps, Zenon
  <1> QED BY <1>3, Zenon

\* Text has at most three continuation bytes in a row.
LEMMA ThreeConts ==
    ASSUME NEW s \in Seq(Bytes), IsUtf8(s), NEW k \in 0 .. Len(s), k + 3 <= Len(s),
           \A i \in 1 .. 3 : KindAt(s, k + i) = "cont"
    PROVE  Boundary(s, k + 3)
  <1> SUFFICES ASSUME k + 3 # Len(s), KindAt(s, (k + 3) + 1) = "cont" PROVE FALSE
    BY DEF Boundary
  <1>1. k + 4 \in DOMAIN s /\ (k + 3) + 1 = k + 4
    OBVIOUS
  <1>2. PICK j \in 1 .. (k + 4) - 1 : /\ KindAt(s, j) # "cont"
                                      /\ k + 4 < j + SeqLen[KindAt(s, j)]
    BY <1>1, Zenon DEF IsUtf8
  <1>3. j \in 1 .. Len(s)
    OBVIOUS
  <1>4. SeqLen[KindAt(s, j)] \in 1 .. 4
    BY <1>2, <1>3, KindIn, SeqLens
  <1>5. j > k
    BY <1>2, <1>4
  <1>6. j - k \in 1 .. 3 /\ k + (j - k) = j
    BY <1>5
  <1> QED BY <1>2, <1>6

\* The end of a line that is too long begins with a character (get_recent).
LEMMA LineTailIs ==
    ASSUME NEW b \in Seq(Bytes), NEW max \in Nat, max <= Len(b)
    PROVE  \E k \in 0 .. Len(b) : LineTail(b, max) = Drop(b, k) /\ (IsUtf8(b) => Boundary(b, k))
  <1> DEFINE offset == Len(b) - max
             M == {m \in 0 .. 3 : \A i \in 1 .. m :
                        offset + i <= Len(b) /\ KindAt(b, offset + i) = "cont"}
             T == {offset + n : n \in M}
  <1>1. offset \in 0 .. Len(b)
    OBVIOUS
  <1>2. 0 \in M /\ M \subseteq 0 .. 3
    OBVIOUS
  <1>3. ASSUME NEW m \in M PROVE offset + m \in 0 .. Len(b)
    <2>1. m \in 0 .. 3 /\ \A i \in 1 .. m : offset + i <= Len(b)
      BY Zenon
    <2> HIDE DEF offset, M, T
    <2>2. m \in 0 .. 3 => m = 0 \/ m \in 1 .. m
      BY ONLY SMT
    <2>3. m = 0 \/ offset + m <= Len(b)
      BY <2>1, <2>2, Zenon
    <2>4. m \in 0 .. 3
      BY <2>1, Zenon
    <2>5. Len(b) \in Nat
      OBVIOUS
    <2> QED BY ONLY <1>1, <2>3, <2>4, <2>5, SMT
  <1>4. LineTail(b, max) = Drop(b, Max(T))
    BY Zenon DEF LineTail
  <1>5. \A m \in M : m + 1 \in 0 .. 3 /\ offset + (m + 1) <= Len(b)
                     /\ KindAt(b, offset + (m + 1)) = "cont" => m + 1 \in M
    <2> SUFFICES ASSUME NEW m \in M, m + 1 \in 0 .. 3, offset + (m + 1) <= Len(b),
                        KindAt(b, offset + (m + 1)) = "cont"
                 PROVE  m + 1 \in M
      BY Zenon
    <2>1. \A i \in 1 .. m + 1 : i = m + 1 \/ i \in 1 .. m
      <3>1. m \in 0 .. 3
        BY <1>2, Zenon
      <3> QED BY ONLY <3>1
    <2>2. \A i \in 1 .. m : offset + i <= Len(b) /\ KindAt(b, offset + i) = "cont"
      BY Zenon
    <2> HIDE DEF offset
    <2> QED BY <2>1, <2>2, Zenon
  <1>6. \A m \in M : \A i \in 1 .. m : KindAt(b, offset + i) = "cont"
    BY Zenon
  <1> HIDE DEF M
  <1>7. T \subseteq Nat /\ Len(b) \in Nat /\ \A k \in T : k <= Len(b)
    BY <1>3
  <1>8. T # {}
    BY <1>2
  <1>9. Max(T) \in T /\ \A k \in T : k <= Max(T)
    BY <1>7, <1>8, MaxIs, Zenon
  <1>10. PICK m \in M : Max(T) = offset + m
    BY <1>9, Zenon
  <1>11. m + 1 \notin M
    <2> SUFFICES ASSUME m + 1 \in M PROVE FALSE
      OBVIOUS
    <2>1. offset + (m + 1) <= offset + m
      BY <1>9, <1>10
    <2> QED BY <1>1, <1>2, <2>1
  <1> HIDE DEF offset
  <1>12. ASSUME IsUtf8(b) PROVE Boundary(b, offset + m)
    <2>1. m \in 0 .. 3 /\ offset + m \in 0 .. Len(b)
      BY <1>2, <1>3
    <2>2. CASE m = 3
      BY <1>1, <1>6, <1>12, <2>1, <2>2, ThreeConts
    <2>3. CASE m # 3
      <3>1. m + 1 \in 0 .. 3 /\ (offset + m) + 1 = offset + (m + 1)
        BY <1>1, <2>1, <2>3
      <3>2. ~(offset + (m + 1) <= Len(b)) \/ KindAt(b, offset + (m + 1)) # "cont"
        BY <1>5, <1>11, <3>1
      <3>3. ~(offset + (m + 1) <= Len(b)) => offset + m = Len(b)
        BY <1>1, <2>1
      <3> QED BY <3>1, <3>2, <3>3 DEF Boundary
    <2> QED BY <2>2, <2>3
  <1>13. offset + m \in 0 .. Len(b)
    BY <1>3
  <1> HIDE DEF T
  <1> QED BY <1>4, <1>10, <1>12, <1>13, Zenon

\* What is replayed is the end of the buffer, from the beginning of a character on.
LEMMA RecentIs ==
    ASSUME NEW b \in Seq(Bytes), NEW max \in Nat
    PROVE  \E k \in 0 .. Len(b) : get_recent(b, max) = Drop(b, k) /\ (IsUtf8(b) => Boundary(b, k))
  <1> DEFINE fits == {k \in LineStarts(b) : Len(b) - k <= max}
  <1>0. Len(b) \in 0 .. Len(b)
    OBVIOUS
  <1>1. CASE b = <<>> \/ max = 0
    <2>1. get_recent(b, max) = <<>>
      BY <1>1 DEF get_recent
    <2>2. Drop(b, Len(b)) \in Seq(Bytes) /\ Len(Drop(b, Len(b))) = Len(b) - Len(b)
      BY <1>0, DropIs
    <2>3. Drop(b, Len(b)) = <<>>
      BY <2>2
    <2>4. Boundary(b, Len(b))
      BY DEF Boundary
    <2> QED BY <1>0, <2>1, <2>3, <2>4, Zenon
  <1>2. CASE ~(b = <<>> \/ max = 0) /\ fits = {}
    <2>1. get_recent(b, max) = LineTail(b, max)
      BY <1>2 DEF get_recent
    <2>2. 0 \in LineStarts(b)
      BY <1>2, LinesIn
    <2>3. max <= Len(b)
      BY <1>2, <2>2
    <2> QED BY <2>1, <2>3, LineTailIs, Zenon
  <1>3. CASE ~(b = <<>> \/ max = 0) /\ fits # {}
    <2>1. get_recent(b, max) = Drop(b, Min(fits))
      BY <1>3 DEF get_recent
    <2>2. fits \subseteq Nat
      BY LinesIn
    <2>3. Min(fits) \in fits
      BY <1>3, <2>2, MinIs, Zenon
    <2>4. Min(fits) \in LineStarts(b)
      BY <2>3, Zenon
    <2>5. Min(fits) \in 0 .. Len(b)
      BY <2>4, LinesIn
    <2>6. Min(fits) \in {0, Len(b)} \union Newlines(b)
      BY <2>4, Zenon DEF LineStarts
    <2>7. IsUtf8(b) => Boundary(b, Min(fits))
      BY <2>5, <2>6, LineBoundary, Zenon
    <2> QED BY <2>1, <2>5, <2>7, Zenon
  <1> QED BY <1>1, <1>2, <1>3, Zenon

\* A replay of text is text.
LEMMA RecentUtf8 ==
    ASSUME NEW b \in Seq(Bytes), NEW max \in Nat
    PROVE  get_recent(b, max) \in Seq(Bytes) /\ (IsUtf8(b) => IsUtf8(get_recent(b, max)))
  BY RecentIs, DropIs, Utf8Drop, Zenon

-----------------------------------------------------------------------------
(* Utf8ChunkAccumulator.                                                   *)

\* Whether bytes are text depends on their kinds only (str::from_utf8).
LEMMA SameKinds ==
    ASSUME NEW a \in Seq(Bytes), NEW b \in Seq(Bytes), Len(a) = Len(b), IsUtf8(a),
           \A i \in 1 .. Len(a) : KindAt(a, i) = KindAt(b, i)
    PROVE  IsUtf8(b)
  <1>1. DOMAIN a = 1 .. Len(a) /\ DOMAIN b = 1 .. Len(a)
    OBVIOUS
  <1>2. ASSUME NEW i \in 1 .. Len(a), KindAt(b, i) = "cont"
        PROVE  \E j \in 1 .. i - 1 : /\ KindAt(b, j) # "cont"
                                     /\ i < j + SeqLen[KindAt(b, j)]
                                     /\ \A m \in j + 1 .. i : KindAt(b, m) = "cont"
    <2>1. PICK j \in 1 .. i - 1 : /\ KindAt(a, j) # "cont"
                                  /\ i < j + SeqLen[KindAt(a, j)]
                                  /\ \A m \in j + 1 .. i : KindAt(a, m) = "cont"
      BY <1>1, <1>2, Zenon DEF IsUtf8
    <2>2. j \in 1 .. Len(a) /\ \A m \in j + 1 .. i : m \in 1 .. Len(a)
      OBVIOUS
    <2> QED BY <2>1, <2>2, Zenon
  <1>3. ASSUME NEW i \in 1 .. Len(a), KindAt(b, i) # "cont"
        PROVE  \A m \in i + 1 .. i + SeqLen[KindAt(b, i)] - 1 :
                   m \in 1 .. Len(a) /\ KindAt(b, m) = "cont"
    BY <1>1, <1>3, Zenon DEF IsUtf8
  <1> QED BY <1>1, <1>2, <1>3, Zenon DEF IsUtf8

\* s is the part of w after p bytes, by the kinds of its bytes.
Piece(s, w, p) ==
    p + Len(s) <= Len(w) /\ \A i \in 1 .. Len(s) : KindAt(s, i) = KindAt(w, p + i)

\* Two parts that follow each other.
LEMMA PieceJoin ==
    ASSUME NEW w \in Seq(Bytes), NEW p \in 0 .. Len(w), NEW a \in Seq(Bytes), NEW b \in Seq(Bytes),
           Piece(a, w, p), Piece(b, w, p + Len(a))
    PROVE  Piece(a \o b, w, p)
  <1> DEFINE c == a \o b
             k == Len(a)
  <1>1. /\ k \in Nat /\ Len(b) \in Nat /\ Len(c) = k + Len(b)
        /\ \A i \in 1 .. k : c[i] = a[i]
        /\ \A i \in 1 .. Len(b) : c[k + i] = b[i]
    OBVIOUS
  <1> HIDE DEF c
  <1>6. /\ \A i \in 1 .. k : KindAt(c, i) = KindAt(a, i)
        /\ \A i \in 1 .. Len(b) : KindAt(c, k + i) = KindAt(b, i)
    BY <1>1 DEF KindAt
  <1>2. \A i \in 1 .. k : KindAt(c, i) = KindAt(w, p + i)
    BY <1>6, Zenon DEF Piece
  <1>3. (p + k) + Len(b) <= Len(w) /\ \A i \in 1 .. Len(b) : KindAt(c, k + i) = KindAt(w, (p + k) + i)
    BY <1>6, Zenon DEF Piece
  <1> HIDE DEF k
  <1>4. ASSUME NEW i \in 1 .. Len(c) PROVE KindAt(c, i) = KindAt(w, p + i)
    <2>1. i > k => i - k \in 1 .. Len(b) /\ k + (i - k) = i /\ (p + k) + (i - k) = p + i
      BY <1>1
    <2>2. i \in 1 .. k \/ i > k
      BY <1>1
    <2> QED BY <1>2, <1>3, <2>1, <2>2, Zenon
  <1>5. p + Len(c) <= Len(w)
    BY <1>1, <1>3
  <1> QED BY <1>4, <1>5, Zenon DEF Piece, c

\* A part of a text from one character's beginning to another's is text.
LEMMA PieceUtf8 ==
    ASSUME NEW w \in Seq(Bytes), IsUtf8(w), NEW p \in 0 .. Len(w), Boundary(w, p),
           NEW s \in Seq(Bytes), Piece(s, w, p), Boundary(w, p + Len(s))
    PROVE  IsUtf8(s)
  <1> DEFINE q == p + Len(s)
             v == SubSeq(w, 1, q)
             t == Drop(v, p)
  <1>1. q \in 0 .. Len(w) /\ q - p = Len(s) /\ p \in 0 .. q
    BY DEF Piece
  <1> HIDE DEF q
  <1>2. v \in Seq(Bytes) /\ IsUtf8(v)
    BY <1>1, Utf8Prefix DEF q
  <1>3. Len(v) = q /\ \A i \in 1 .. q : v[i] = w[i]
    BY <1>1
  <1> HIDE DEF v
  <1>4. Boundary(v, p)
    <2>1. p # q => p + 1 \in 1 .. q /\ p # Len(w)
      BY <1>1
    <2> QED BY <1>3, <2>1 DEF Boundary, KindAt
  <1>0. p \in 0 .. Len(v)
    BY <1>1, <1>3, Zenon
  <1>5. t \in Seq(Bytes) /\ IsUtf8(t)
    BY <1>0, <1>2, <1>4, Utf8Drop, DropIs, Zenon
  <1>6. Len(t) = q - p /\ \A i \in 1 .. q - p : t[i] = v[p + i]
    <2>1. Len(t) = Len(v) - p /\ \A i \in 1 .. Len(v) - p : t[i] = v[p + i]
      BY <1>0, <1>2, DropIs, Zenon
    <2> QED BY <1>3, <2>1, Zenon
  <1> HIDE DEF t
  <1>7. Len(t) = Len(s)
    BY <1>1, <1>6
  <1>8. ASSUME NEW i \in 1 .. Len(t) PROVE KindAt(t, i) = KindAt(s, i)
    <2>1. i \in 1 .. q - p /\ p + i \in 1 .. q /\ i \in 1 .. Len(s)
      BY <1>1, <1>7
    <2>2. t[i] = w[p + i]
      BY <1>3, <1>6, <2>1, Zenon
    <2>3. KindAt(s, i) = KindAt(w, p + i)
      BY <2>1, Zenon DEF Piece
    <2> QED BY <2>2, <2>3, Zenon DEF KindAt
  <1> QED BY <1>5, <1>7, <1>8, SameKinds

\* The split is within the data.
LEMMA SplitIn ==
    ASSUME NEW s \in Seq(Bytes)
    PROVE  LET starts == {i \in DOMAIN s : i > Len(s) - 3 /\ KindAt(s, i) # "cont"}
           IN  /\ starts # {} => Max(starts) \in starts /\ \A i \in starts : i <= Max(starts)
               /\ find_utf8_split_point(s) \in 0 .. Len(s)
  <1> DEFINE starts == {i \in DOMAIN s : i > Len(s) - 3 /\ KindAt(s, i) # "cont"}
  <1>1. starts \subseteq 1 .. Len(s) /\ Len(s) \in Nat
    OBVIOUS
  <1>2. find_utf8_split_point(s) \in {Max(starts) - 1, Len(s)}
        /\ (starts = {} => find_utf8_split_point(s) = Len(s))
    BY Zenon DEF find_utf8_split_point
  <1> HIDE DEF starts
  <1>3. starts \subseteq Nat /\ \A i \in starts : i <= Len(s)
    BY <1>1
  <1>4. starts # {} => Max(starts) \in starts /\ \A i \in starts : i <= Max(starts)
    BY <1>1, <1>3, MaxIs, Zenon
  <1>5. starts # {} => Max(starts) \in 1 .. Len(s)
    BY <1>1, <1>4, Zenon
  <1>6. find_utf8_split_point(s) \in 0 .. Len(s)
    BY <1>1, <1>2, <1>5
  <1> QED BY <1>4, <1>6 DEF starts

\* The split is where a character of the text ends (find_utf8_split_point).
LEMMA SplitBoundary ==
    ASSUME NEW w \in Seq(Bytes), IsUtf8(w), NEW p \in 0 .. Len(w), Boundary(w, p),
           NEW s \in Seq(Bytes), Piece(s, w, p)
    PROVE  Boundary(w, p + find_utf8_split_point(s))
  <1> DEFINE n == Len(s)
             starts == {i \in DOMAIN s : i > Len(s) - 3 /\ KindAt(s, i) # "cont"}
             i0 == Max(starts)
             short == starts # {} /\ Len(s) - i0 + 1 < SeqLen[KindAt(s, i0)]
  <1>1. find_utf8_split_point(s) = IF short THEN i0 - 1 ELSE n
    BY Zenon DEF find_utf8_split_point
  <1>2. starts # {} => i0 \in starts /\ \A i \in starts : i <= i0
    BY SplitIn
  <1>3. \A i \in starts : i \in 1 .. n /\ KindAt(s, i) # "cont"
    OBVIOUS
  <1>4. \A i \in 1 .. n : i > n - 3 /\ KindAt(s, i) # "cont" => i \in starts
    OBVIOUS
  <1>5. n \in Nat /\ p + n <= Len(w) /\ \A i \in 1 .. n : KindAt(s, i) = KindAt(w, p + i)
    BY DEF Piece
  <1> HIDE DEF starts, n
  <1>6. CASE short
    <2>1. i0 \in 1 .. n /\ KindAt(s, i0) # "cont"
      BY <1>2, <1>3, <1>6, Zenon
    <2> HIDE DEF i0
    <2>2. (p + (i0 - 1)) + 1 = p + i0
      BY <2>1
    <2> QED BY <1>1, <1>5, <1>6, <2>1, <2>2 DEF Boundary
  <1>7. CASE ~short
    <2> SUFFICES ASSUME p + n # Len(w), KindAt(w, (p + n) + 1) = "cont" PROVE FALSE
      BY <1>1, <1>7 DEF Boundary
    <2>1. (p + n) + 1 \in 1 .. Len(w)
      BY <1>5
    <2>2. DOMAIN w = 1 .. Len(w)
      OBVIOUS
    <2>3. PICK j \in 1 .. ((p + n) + 1) - 1 :
             /\ KindAt(w, j) # "cont"
             /\ (p + n) + 1 < j + SeqLen[KindAt(w, j)]
             /\ \A m \in j + 1 .. (p + n) + 1 : KindAt(w, m) = "cont"
      BY <2>1, <2>2, Zenon DEF IsUtf8
    <2>4. j > p
      <3> SUFFICES ASSUME j <= p PROVE FALSE
        OBVIOUS
      <3>1. p + 1 \in j + 1 .. (p + n) + 1 /\ p # Len(w)
        BY <1>5, <2>1
      <3> QED BY <2>3, <3>1 DEF Boundary
    <2>5. j \in 1 .. Len(w)
      BY <1>5
    <2>6. SeqLen[KindAt(w, j)] \in 1 .. 4
      BY <2>3, <2>5, KindIn, SeqLens
    <2>7. PICK i \in 1 .. n : j = p + i
      <3>1. j - p \in 1 .. n /\ j = p + (j - p)
        BY <1>5, <2>4
      <3> QED BY <3>1
    <2>8. i > n - 3 /\ n - i + 1 < SeqLen[KindAt(w, j)]
      <3>1. \A z \in 1 .. 4 : (p + n) + 1 < (p + i) + z => i > n - 3 /\ n - i + 1 < z
        BY <1>5
      <3> QED BY <2>3, <2>6, <2>7, <3>1, Zenon
    <2>9. KindAt(s, i) = KindAt(w, j)
      BY <1>5, <2>7
    <2>10. i \in starts
      BY <1>4, <2>3, <2>8, <2>9
    <2>11. i0 \in 1 .. n /\ KindAt(s, i0) # "cont" /\ i <= i0
      BY <1>2, <1>3, <2>10, Zenon
    <2> HIDE DEF i0
    <2>12. i0 = i
      <3> SUFFICES ASSUME i0 # i PROVE FALSE
        OBVIOUS
      <3>1. p + i0 \in j + 1 .. (p + n) + 1
        BY <1>5, <2>7, <2>11
      <3> QED BY <1>5, <2>3, <2>11, <3>1
    <2>13. starts # {} /\ Len(s) - i0 + 1 < SeqLen[KindAt(s, i0)]
      BY <2>8, <2>9, <2>10, <2>12 DEF n
    <2> QED BY <1>7, <2>13
  <1> QED BY <1>6, <1>7

\* What push_chunk sends on and what it holds back are the data it got.
LEMMA PushIs ==
    ASSUME NEW rem \in Seq(Bytes), NEW data \in Seq(Bytes)
    PROVE  LET all == rem \o data
               r == push_chunk(rem, data)
               split == find_utf8_split_point(all)
           IN  /\ r.data \in Seq(Bytes) /\ r.remainder \in Seq(Bytes)
               /\ \/ /\ r.data = all /\ r.remainder = <<>>
                     /\ split = Len(all) \/ (rem = <<>> /\ ~IsUtf8(SubSeq(all, 1, split)))
                  \/ r.data = SubSeq(all, 1, split) /\ r.remainder = Drop(all, split)
  <1> DEFINE all == rem \o data
             split == find_utf8_split_point(all)
  <1>1. all \in Seq(Bytes)
    OBVIOUS
  <1>2. \/ /\ push_chunk(rem, data) = [data |-> all, remainder |-> <<>>]
           /\ split = Len(all) \/ (rem = <<>> /\ ~IsUtf8(SubSeq(all, 1, split)))
        \/ push_chunk(rem, data) = [data |-> SubSeq(all, 1, split), remainder |-> Drop(all, split)]
    BY Zenon DEF push_chunk
  <1> HIDE DEF all
  <1>3. split \in 0 .. Len(all)
    BY <1>1, SplitIn, Zenon
  <1> HIDE DEF split
  <1>4. SubSeq(all, 1, split) \in Seq(Bytes) /\ Drop(all, split) \in Seq(Bytes)
    BY <1>1, <1>3, DropIs
  <1>5. <<>> \in Seq(Bytes)
    OBVIOUS
  <1> DEFINE r == push_chunk(rem, data)
  <1>6. \/ /\ r.data = all /\ r.remainder = <<>>
           /\ split = Len(all) \/ (rem = <<>> /\ ~IsUtf8(SubSeq(all, 1, split)))
        \/ r.data = SubSeq(all, 1, split) /\ r.remainder = Drop(all, split)
    BY <1>2
  <1> HIDE DEF r
  <1>7. r.data \in Seq(Bytes) /\ r.remainder \in Seq(Bytes)
    BY <1>1, <1>4, <1>5, <1>6, Zenon
  <1> QED BY <1>6, <1>7, Zenon DEF all, split, r

\* What push_chunk is given continues a text, from a character on.
Pushable(w, p, rem, data) ==
    /\ w \in Seq(Bytes) /\ IsUtf8(w) /\ p \in 0 .. Len(w) /\ Boundary(w, p)
    /\ rem \in Seq(Bytes) /\ data \in Seq(Bytes) /\ Piece(rem \o data, w, p)

\* What it sends on is whole characters, and what it holds back begins with one.
Pushed(w, p, rem, data) ==
    LET r == push_chunk(rem, data)
        q == p + Len(r.data)
    IN  /\ IsUtf8(r.data) /\ Len(r.data) + Len(r.remainder) = Len(rem) + Len(data)
        /\ q \in 0 .. Len(w) /\ Boundary(w, q) /\ Piece(r.remainder, w, q)

\* push_chunk on data that continue a text.
LEMMA PushWhole ==
    ASSUME NEW w, NEW p, NEW rem, NEW data, Pushable(w, p, rem, data)
    PROVE  Pushed(w, p, rem, data)
  <1> DEFINE all == rem \o data
             r == push_chunk(rem, data)
             split == find_utf8_split_point(all)
             head == SubSeq(all, 1, split)
  <1>0. /\ w \in Seq(Bytes) /\ IsUtf8(w) /\ p \in 0 .. Len(w) /\ Boundary(w, p)
        /\ rem \in Seq(Bytes) /\ data \in Seq(Bytes) /\ Piece(all, w, p)
    BY Zenon DEF Pushable
  <1>1. all \in Seq(Bytes) /\ Len(all) = Len(rem) + Len(data)
    BY <1>0
  <1>2. /\ r.data \in Seq(Bytes) /\ r.remainder \in Seq(Bytes)
        /\ \/ /\ r.data = all /\ r.remainder = <<>>
              /\ split = Len(all) \/ (rem = <<>> /\ ~IsUtf8(head))
           \/ r.data = head /\ r.remainder = Drop(all, split)
    BY <1>0, PushIs, Zenon
  <1>3. split \in 0 .. Len(all)
    BY <1>1, SplitIn, Zenon
  <1>4. Boundary(w, p + split)
    BY <1>0, <1>1, SplitBoundary, Zenon
  <1>5. p + Len(all) <= Len(w) /\ \A i \in 1 .. Len(all) : KindAt(all, i) = KindAt(w, p + i)
    BY <1>0, Zenon DEF Piece
  <1> HIDE DEF all, r, split
  <1>6. head \in Seq(Bytes) /\ Len(head) = split /\ \A i \in 1 .. split : head[i] = all[i]
    BY <1>1, <1>3
  <1>7. Piece(head, w, p)
    BY <1>0, <1>3, <1>5, <1>6 DEF Piece, KindAt
  <1>8. IsUtf8(head)
    BY <1>0, <1>4, <1>6, <1>7, PieceUtf8, Zenon
  <1>9. split = Len(all) => head = all
    BY <1>1, SubSeqAll, Zenon
  <1> HIDE DEF head
  <1>10. CASE r.data = all /\ r.remainder = <<>> /\ split = Len(all)
    <2>1. Piece(<<>>, w, p + Len(all))
      BY <1>0, <1>1, <1>5 DEF Piece
    <2>2. p + Len(all) \in 0 .. Len(w) /\ Len(all) + Len(<<>>) = Len(rem) + Len(data)
      BY <1>0, <1>1, <1>5
    <2> QED BY <1>4, <1>8, <1>9, <1>10, <2>1, <2>2, Zenon DEF r, Pushed
  <1>11. CASE r.data = head /\ r.remainder = Drop(all, split)
    <2> DEFINE d == Drop(all, split)
    <2>1. Len(d) = Len(all) - split /\ \A i \in 1 .. Len(all) - split : d[i] = all[split + i]
      BY <1>1, <1>3, DropIs, Zenon
    <2> HIDE DEF d
    <2>2. ASSUME NEW i \in 1 .. Len(d) PROVE KindAt(d, i) = KindAt(w, (p + split) + i)
      <3>1. i \in 1 .. Len(all) - split /\ split + i \in 1 .. Len(all)
            /\ (p + split) + i = p + (split + i)
        <4>1. Len(all) \in Nat
          BY <1>1
        <4> QED BY <1>0, <1>3, <2>1, <4>1
      <3>2. KindAt(d, i) = KindAt(all, split + i)
        BY <2>1, <3>1, Zenon DEF KindAt
      <3> QED BY <1>5, <3>1, <3>2, Zenon
    <2>3. (p + split) + Len(d) <= Len(w) /\ p + split \in 0 .. Len(w)
      BY <1>0, <1>1, <1>3, <1>5, <2>1
    <2>4. Piece(d, w, p + split)
      BY <2>2, <2>3, Zenon DEF Piece
    <2>5. split + Len(d) = Len(rem) + Len(data)
      BY <1>1, <1>3, <2>1
    <2> QED BY <1>4, <1>6, <1>8, <1>11, <2>3, <2>4, <2>5, Zenon DEF r, d, Pushed
  <1> QED BY <1>2, <1>8, <1>10, <1>11, Zenon

-----------------------------------------------------------------------------
(* The numbers of the bytes.                                               *)

\* Bytes that follow bytes.
LEMMA EndsJoin ==
    ASSUME NEW a \in Seq(Bytes), NEW b \in Seq(Bytes), NEW n \in Nat,
           EndsAt(a, n), EndsAt(b, n + Len(b))
    PROVE  EndsAt(a \o b, n + Len(b))
  <1> DEFINE c == a \o b
  <1>1. /\ Len(c) = Len(a) + Len(b) /\ Len(a) \in Nat /\ Len(b) \in Nat
        /\ \A i \in 1 .. Len(a) : c[i] = a[i]
        /\ \A i \in 1 .. Len(b) : c[Len(a) + i] = b[i]
    OBVIOUS
  <1> HIDE DEF c
  <1> SUFFICES ASSUME NEW i \in 1 .. Len(c) PROVE c[i][1] = (n + Len(b)) - Len(c) + i
    BY DEF EndsAt, c
  <1>2. CASE i <= Len(a)
    <2>1. i \in 1 .. Len(a)
      BY <1>1, <1>2
    <2>2. c[i][1] = n - Len(a) + i
      BY <1>1, <2>1, Zenon DEF EndsAt
    <2> QED BY <1>1, <2>2
  <1>3. CASE i > Len(a)
    <2>1. i - Len(a) \in 1 .. Len(b) /\ Len(a) + (i - Len(a)) = i
      BY <1>1, <1>3
    <2>2. c[i] = b[i - Len(a)]
      BY <1>1, <2>1, Zenon
    <2>3. b[i - Len(a)][1] = (n + Len(b)) - Len(b) + (i - Len(a))
      BY <2>1, Zenon DEF EndsAt
    <2> QED BY <1>1, <2>2, <2>3
  <1> QED BY <1>1, <1>2, <1>3

\* The end of such bytes.
LEMMA EndsDrop ==
    ASSUME NEW b \in Seq(Bytes), NEW n \in Nat, EndsAt(b, n), NEW k \in 0 .. Len(b)
    PROVE  EndsAt(Drop(b, k), n)
  <1> DEFINE c == Drop(b, k)
  <1>1. Len(c) = Len(b) - k /\ \A i \in 1 .. Len(b) - k : c[i] = b[k + i]
    BY DropIs
  <1> HIDE DEF c
  <1> SUFFICES ASSUME NEW i \in 1 .. Len(c) PROVE c[i][1] = n - Len(c) + i
    BY DEF EndsAt, c
  <1>2. i \in 1 .. Len(b) - k /\ k + i \in 1 .. Len(b)
    BY <1>1
  <1>3. c[i][1] = n - Len(b) + (k + i)
    BY <1>1, <1>2, Zenon DEF EndsAt
  <1> QED BY <1>1, <1>3

\* append adds at the end and drops at the front.
LEMMA AppendEnds ==
    ASSUME NEW b \in Seq(Bytes), NEW d \in Seq(Bytes), NEW n \in Nat,
           EndsAt(b, n), EndsAt(d, n + Len(d))
    PROVE  append(b, d) \in Seq(Bytes) /\ EndsAt(append(b, d), n + Len(d))
  <1>1. b \o d \in Seq(Bytes) /\ n + Len(d) \in Nat
    OBVIOUS
  <1>2. EndsAt(b \o d, n + Len(d))
    BY EndsJoin, Zenon
  <1>3. PICK k \in 0 .. Len(b \o d) : append(b, d) = Drop(b \o d, k)
    BY AppendIs, Zenon
  <1> QED BY <1>1, <1>2, <1>3, EndsDrop, DropIs, Zenon

\* A buffer that takes them ends where they end (handle_open, read_outputs).
LEMMA FoldEnds ==
    ASSUME NEW b \in Seq(Bytes), NEW out \in Seq(Seq(Bytes)), NEW e, Marks(e, out), EndsAt(b, e[0])
    PROVE  EndsAt(append_all(b, out), e[Len(out)])
  <1>1. PICK g : Steps(g, b, out) /\ append_all(b, out) = g[Len(out)]
    BY FoldSteps, Zenon
  <1> DEFINE T == {i \in Nat : i \in 0 .. Len(out) => g[i] \in Seq(Bytes) /\ EndsAt(g[i], e[i])}
  <1>2. 0 \in T
    <2>1. g[0] = b
      BY <1>1 DEF Steps
    <2> QED BY <2>1
  <1>3. ASSUME NEW i \in Nat, i \in T PROVE i + 1 \in T
    <2> SUFFICES ASSUME i + 1 \in 0 .. Len(out)
                 PROVE  g[i + 1] \in Seq(Bytes) /\ EndsAt(g[i + 1], e[i + 1])
      OBVIOUS
    <2>1. i + 1 \in 1 .. Len(out) /\ i \in 0 .. Len(out) /\ (i + 1) - 1 = i
      OBVIOUS
    <2>2. g[i] \in Seq(Bytes) /\ EndsAt(g[i], e[i]) /\ e[i] \in Nat
      <3>1. e \in [0 .. Len(out) -> Nat]
        BY DEF Marks
      <3> QED BY <1>3, <2>1, <3>1, Zenon
    <2>3. out[i + 1] \in Seq(Bytes)
      BY <2>1
    <2>4. EndsAt(out[i + 1], e[i + 1]) /\ e[i + 1] = e[i] + Len(out[i + 1])
      BY <2>1, Zenon DEF Marks
    <2>5. g[i + 1] = append(g[i], out[i + 1])
      <3>1. i + 1 # 0 /\ i + 1 \in 0 .. Len(out)
        OBVIOUS
      <3> QED BY <1>1, <2>1, <3>1, Zenon DEF Steps
    <2> QED BY <2>2, <2>3, <2>4, <2>5, AppendEnds, Zenon
  <1>4. \A i \in Nat : i \in T
    <2> HIDE DEF T
    <2> QED BY <1>2, <1>3, SetInduction
  <1>5. Len(out) \in Nat /\ Len(out) \in 0 .. Len(out)
    OBVIOUS
  <1> QED BY <1>1, <1>4, <1>5, Zenon

\* So do the chunks in a row, which is what is sent to the client (read_outputs).
LEMMA FlatEnds ==
    ASSUME NEW out \in Seq(Seq(Bytes)), NEW e, Marks(e, out)
    PROVE  /\ Concat(out) \in Seq(Bytes)
           /\ EndsAt(Concat(out), e[Len(out)])
           /\ e[Len(out)] = e[0] + Len(Concat(out))
  <1>1. PICK h : /\ Rows(h, out) /\ Concat(out) = h[Len(out)]
                 /\ \A i \in 0 .. Len(out) : h[i] \in Seq(Bytes)
    BY ConcatRows, Zenon
  <1> DEFINE T == {i \in Nat : i \in 0 .. Len(out) =>
                                  EndsAt(h[i], e[i]) /\ e[i] = e[0] + Len(h[i])}
  <1>2. 0 \in T
    <2>1. h[0] = <<>> /\ e[0] \in Nat
      BY <1>1 DEF Rows, Marks
    <2>2. EndsAt(<<>>, e[0]) /\ e[0] = e[0] + Len(<<>>)
      BY <2>1 DEF EndsAt
    <2> QED BY <2>1, <2>2
  <1>3. ASSUME NEW i \in Nat, i \in T PROVE i + 1 \in T
    <2> SUFFICES ASSUME i + 1 \in 0 .. Len(out)
                 PROVE  EndsAt(h[i + 1], e[i + 1]) /\ e[i + 1] = e[0] + Len(h[i + 1])
      OBVIOUS
    <2>1. /\ i \in 0 .. Len(out) /\ (i + 1) - 1 = i /\ i + 1 \in 1 .. Len(out)
          /\ 0 \in 0 .. Len(out)
      OBVIOUS
    <2>2. out[i + 1] \in Seq(Bytes)
      OBVIOUS
    <2>3. EndsAt(out[i + 1], e[i + 1]) /\ e[i + 1] = e[i] + Len(out[i + 1])
      BY <2>1, Zenon DEF Marks
    <2>4. e[0] \in Nat /\ e[i] \in Nat
      <3>1. e \in [0 .. Len(out) -> Nat]
        BY DEF Marks
      <3> QED BY <2>1, <3>1, Zenon
    <2>5. h[i + 1] = Join(h[i], out[i + 1])
      BY <1>1, <2>1 DEF Rows
    <2>6. h[i] \in Seq(Bytes) /\ EndsAt(h[i], e[i]) /\ e[i] = e[0] + Len(h[i])
      BY <1>1, <1>3, <2>1, Zenon
    <2>7. EndsAt(Join(h[i], out[i + 1]), e[i + 1])
      BY <2>2, <2>3, <2>4, <2>6, EndsJoin, Zenon DEF Join
    <2>8. /\ Len(Join(h[i], out[i + 1])) = Len(h[i]) + Len(out[i + 1])
          /\ Len(h[i]) \in Nat /\ Len(out[i + 1]) \in Nat
      BY <2>2, <2>6 DEF Join
    <2>9. e[i + 1] = e[0] + (Len(h[i]) + Len(out[i + 1]))
      <3>1. e[i + 1] = (e[0] + Len(h[i])) + Len(out[i + 1])
        BY <2>3, <2>6, Zenon
      <3>2. \A x, y, z \in Nat : (x + y) + z = x + (y + z)
        BY ONLY SMT
      <3> QED BY <2>4, <2>8, <3>1, <3>2, ZenonT(60)
    <2> QED BY <2>5, <2>7, <2>8, <2>9, Zenon
  <1>4. \A i \in Nat : i \in T
    <2> HIDE DEF T
    <2> QED BY <1>2, <1>3, SetInduction, Zenon
  <1>5. Len(out) \in Nat /\ Len(out) \in 0 .. Len(out)
    OBVIOUS
  <1> QED BY <1>1, <1>4, <1>5, Zenon

\* A chunk more in the channel (try_send_output).
LEMMA MarksAppend ==
    ASSUME NEW out \in Seq(Seq(Bytes)), NEW e, Marks(e, out), NEW d \in Seq(Bytes),
           EndsAt(d, e[Len(out)] + Len(d))
    PROVE  \E f : /\ Marks(f, Append(out, d)) /\ f[0] = e[0]
                  /\ f[Len(Append(out, d))] = e[Len(out)] + Len(d)
  <1> DEFINE n == Len(out)
             c == Append(out, d)
             f == [i \in 0 .. n + 1 |-> IF i <= n THEN e[i] ELSE e[n] + Len(d)]
  <1>1. /\ n \in Nat /\ Len(c) = n + 1 /\ c[n + 1] = d
        /\ \A i \in 1 .. n : c[i] = out[i]
    OBVIOUS
  <1> HIDE DEF n, c
  <1>2. /\ e \in [0 .. n -> Nat]
        /\ \A i \in 1 .. n : EndsAt(out[i], e[i]) /\ e[i] = e[i - 1] + Len(out[i])
    BY DEF Marks, n
  <1>3. e[n] \in Nat /\ Len(d) \in Nat
    BY <1>1, <1>2
  <1>4. f \in [0 .. n + 1 -> Nat]
    BY <1>1, <1>2, <1>3
  <1>5. f[0] = e[0] /\ f[n + 1] = e[n] + Len(d) /\ f[n] = e[n]
        /\ \A i \in 1 .. n : f[i] = e[i] /\ f[i - 1] = e[i - 1]
    BY <1>1
  <1> HIDE DEF f
  <1>6. ASSUME NEW i \in 1 .. n + 1
        PROVE  EndsAt(c[i], f[i]) /\ f[i] = f[i - 1] + Len(c[i])
    <2>1. CASE i \in 1 .. n
      BY <1>1, <1>2, <1>5, <2>1, Zenon
    <2>2. CASE i = n + 1
      <3>1. i - 1 = n /\ c[i] = d /\ f[i] = e[n] + Len(d) /\ f[i - 1] = e[n]
        BY <1>1, <1>5, <2>2
      <3> QED BY <3>1 DEF n
    <2>3. i \in 1 .. n \/ i = n + 1
      BY <1>1
    <2> QED BY <2>1, <2>2, <2>3
  <1>7. Marks(f, c)
    BY <1>1, <1>4, <1>6, Zenon DEF Marks
  <1> QED BY <1>1, <1>5, <1>7, Zenon DEF n, c

\* The numbers of the bytes a client has been shown under a terminal.
InRow(q) == q \in Seq(Nat) /\ \A i \in 1 .. Len(q) - 1 : q[i + 1] = q[i] + 1

\* Two rows put together.
LEMMA JoinIs ==
    ASSUME NEW a \in Seq(Nat), NEW b \in Seq(Nat)
    PROVE  /\ a \o b \in Seq(Nat) /\ Len(a \o b) = Len(a) + Len(b)
           /\ \A i \in 1 .. Len(a) : (a \o b)[i] = a[i]
           /\ \A i \in 1 .. Len(b) : (a \o b)[Len(a) + i] = b[i]
  OBVIOUS

\* Bytes that follow what the client has continue the row (read_outputs).
LEMMA RowGoesOn ==
    ASSUME NEW q, InRow(q), NEW d \in Seq(Bytes), NEW n \in Nat, EndsAt(d, n),
           q # <<>> => q[Len(q)] + Len(d) = n
    PROVE  LET w == q \o [i \in DOMAIN d |-> d[i][1]]
           IN  InRow(w) /\ (w # <<>> => w[Len(w)] = n)
  <1> DEFINE a == [i \in DOMAIN d |-> d[i][1]]
             w == q \o a
  <1>1. q \in Seq(Nat) /\ Len(d) \in Nat /\ Len(q) \in Nat
        /\ \A i \in 1 .. Len(q) - 1 : q[i + 1] = q[i] + 1
    BY DEF InRow
  <1>2. DOMAIN d = 1 .. Len(d) /\ \A i \in 1 .. Len(d) : d[i][1] \in Nat
    BY DEF Bytes
  <1>3. a \in [1 .. Len(d) -> Nat] /\ \A i \in 1 .. Len(d) : a[i] = d[i][1]
    BY <1>2, Zenon
  <1> HIDE DEF a
  <1>4. a \in Seq(Nat) /\ Len(a) = Len(d)
    BY ONLY <1>1, <1>3, SMTT(90)
  <1>5. \A i \in 1 .. Len(d) : a[i] = n - Len(d) + i
    BY <1>3, Zenon DEF EndsAt
  <1>6. /\ w \in Seq(Nat) /\ Len(w) = Len(q) + Len(a)
        /\ \A i \in 1 .. Len(q) : w[i] = q[i]
        /\ \A i \in 1 .. Len(a) : w[Len(q) + i] = a[i]
    BY <1>1, <1>4, JoinIs, Zenon
  <1> HIDE DEF w
  <1>7. ASSUME NEW i \in 1 .. Len(w) - 1 PROVE w[i + 1] = w[i] + 1
    <2>0. i \in Nat /\ i # 0 /\ i + 1 <= Len(q) + Len(d) /\ Len(q) \in Nat /\ Len(d) \in Nat
      <3>1. Len(w) = Len(q) + Len(d) /\ Len(q) \in Nat /\ Len(d) \in Nat
        BY <1>1, <1>4, <1>6, Zenon
      <3> QED BY <3>1
    <2>1. CASE i < Len(q)
      <3>1. i \in 1 .. Len(q) /\ i + 1 \in 1 .. Len(q) /\ i \in 1 .. Len(q) - 1
        BY ONLY <2>0, <2>1
      <3> QED BY <1>1, <1>6, <3>1, Zenon
    <2>2. CASE i = Len(q)
      <3>1. /\ i \in 1 .. Len(q) /\ q # <<>> /\ 1 \in 1 .. Len(d) /\ w[i] = q[i] /\ w[i + 1] = a[1]
        BY <1>1, <1>4, <1>6, <2>2
      <3>2. a[1] = n - Len(d) + 1 /\ q[Len(q)] + Len(d) = n /\ q[Len(q)] \in Nat
        BY <1>1, <1>5, <2>2, <3>1
      <3>3. w[i + 1] = n - Len(d) + 1 /\ w[i] + Len(d) = n /\ w[i] \in Nat /\ Len(d) \in Nat
        BY <1>1, <2>2, <3>1, <3>2, Zenon
      <3> QED BY ONLY <3>3, SMT
    <2>3. CASE i > Len(q)
      <3> DEFINE j == i - Len(q)
      <3>1. j \in 1 .. Len(d) /\ j + 1 \in 1 .. Len(d) /\ i = Len(q) + j /\ i + 1 = Len(q) + (j + 1)
        BY ONLY <2>0, <2>3
      <3> HIDE DEF j
      <3>2. w[i] = a[j] /\ w[i + 1] = a[j + 1]
        BY <1>4, <1>6, <3>1, Zenon
      <3>3. a[j] = n - Len(d) + j /\ a[j + 1] = n - Len(d) + (j + 1)
        BY <1>5, <3>1, Zenon
      <3> QED BY <1>1, <3>1, <3>2, <3>3
    <2> QED BY <1>1, <1>4, <1>6, <2>1, <2>2, <2>3
  <1>8. ASSUME w # <<>> PROVE w[Len(w)] = n
    <2>1. CASE Len(d) = 0
      <3>1. Len(w) = Len(q) /\ Len(q) # 0
        BY <1>1, <1>4, <1>6, <1>8, <2>1
      <3>2. w[Len(w)] = q[Len(q)] /\ q # <<>> /\ q[Len(q)] \in Nat
        BY <1>1, <1>6, <3>1
      <3> QED BY <2>1, <3>2
    <2>2. CASE Len(d) # 0
      <3>1. Len(d) \in 1 .. Len(d) /\ Len(w) = Len(q) + Len(d)
        BY <1>1, <1>4, <1>6, <2>2
      <3>2. w[Len(w)] = a[Len(d)] /\ a[Len(d)] = n - Len(d) + Len(d)
        BY <1>4, <1>5, <1>6, <3>1, Zenon
      <3> QED BY <1>1, <3>2
    <2> QED BY <2>1, <2>2
  <1> QED BY <1>6, <1>7, <1>8 DEF InRow, w, a

-----------------------------------------------------------------------------
(* The limits of the buffer, which count its lines.                        *)

\* The limits of a buffer, but for a line that is still being written.
Bounded(b) ==
    LET whole == IF last_line_incomplete(b) THEN Max(LineStarts(b)) ELSE Len(b)
    IN  /\ whole <= MAX_OUTPUT_BUFFER_SIZE
        /\ Cardinality(LineStarts(b)) <= MAX_BUFFER_LINES

\* Where a buffer's last line begins is within the buffer.
LEMMA LastStart ==
    ASSUME NEW b \in Seq(Bytes), b # <<>>
    PROVE  Max(LineStarts(b)) \in 0 .. Len(b)
  <1>1. LineStarts(b) \subseteq Nat /\ 0 \in LineStarts(b) /\ \A i \in LineStarts(b) : i <= Len(b)
    BY LinesIn
  <1>2. LineStarts(b) # {} /\ Len(b) \in Nat
    BY <1>1
  <1>3. Max(LineStarts(b)) \in LineStarts(b)
    BY <1>1, <1>2, MaxIs, Zenon
  <1> QED BY <1>3, LinesIn

\* What trimming leaves keeps the limits.
LEMMA TrimBounded ==
    ASSUME NEW b \in Seq(Bytes)
    PROVE  Bounded(Trim(b))
  <1>1. PICK k \in 0 .. Len(b) :
              /\ Trim(b) = Drop(b, k)
              /\ k \in LineStarts(b) \union {Len(b)}
              /\ Len(b) - k <= MAX_OUTPUT_BUFFER_SIZE
              /\ Cardinality({i \in LineStarts(b) : i >= k}) <= MAX_BUFFER_LINES
    BY TrimIs, Zenon
  <1> DEFINE c == Drop(b, k)
             A == LineStarts(c)
             B == {i \in LineStarts(b) : i >= k}
             f == [i \in A |-> i + k]
  <1>2. c \in Seq(Bytes) /\ Len(c) = Len(b) - k /\ \A i \in 1 .. Len(b) - k : c[i] = b[k + i]
    BY DropIs
  <1> HIDE DEF c
  <1>3. \A i \in A : i + k \in B
    <2> SUFFICES ASSUME NEW i \in A PROVE i + k \in B
      OBVIOUS
    <2>1. i \in 0 .. Len(c) /\ i # Len(c)
      BY <1>2, LinesIn
    <2>2. CASE i = 0
      BY <1>1, <1>2, <2>1, <2>2
    <2>3. CASE i # 0
      <3>1. i \in 1 .. Len(c) /\ c[i][2] = "newline"
        BY <1>2, <2>1, <2>3 DEF LineStarts, Newlines, KindAt
      <3>2. i + k \in 1 .. Len(b) /\ b[i + k][2] = "newline" /\ i + k # Len(b) /\ i + k >= k
        BY <1>2, <2>1, <3>1
      <3> QED BY <3>2 DEF LineStarts, Newlines, KindAt
    <2> QED BY <2>2, <2>3
  <1>4. A \subseteq Nat
    BY <1>2, LinesIn
  <1>5. f \in Injection(A, B)
    BY <1>3, <1>4 DEF Injection, IsInjective
  <1>6. B \in SUBSET Nat /\ Len(b) \in Nat /\ \A i \in B : i <= Len(b)
    BY LinesIn
  <1>7. IsFiniteSet(B)
    BY <1>6, FS_BoundedSetOfNaturals, Zenon
  <1>8. Cardinality(A) <= Cardinality(B) /\ IsFiniteSet(A)
    BY <1>5, <1>7, FS_Injection, Zenon
  <1>9. Cardinality(A) \in Nat /\ Cardinality(B) \in Nat
    BY <1>7, <1>8, FS_CardinalityType, Zenon
  <1>10. Cardinality(A) <= MAX_BUFFER_LINES
    BY <1>1, <1>8, <1>9, BufferAssumption
  <1>11. c # <<>> => Max(LineStarts(c)) \in 0 .. Len(c)
    BY <1>2, LastStart
  <1>12. last_line_incomplete(c) => c # <<>>
    BY DEF last_line_incomplete
  <1>13. Len(c) <= MAX_OUTPUT_BUFFER_SIZE
    BY <1>1, <1>2
  <1>14. Bounded(c)
    BY <1>2, <1>10, <1>11, <1>12, <1>13, BufferAssumption DEF Bounded
  <1> QED BY <1>1, <1>14 DEF c

\* The line that goes on begins where it began.
LEMMA SameLines ==
    ASSUME NEW b \in Seq(Bytes), NEW d \in Seq(Bytes), last_line_incomplete(b), Newlines(d) = {}
    PROVE  LineStarts(b \o d) = LineStarts(b) /\ last_line_incomplete(b \o d)
  <1> DEFINE c == b \o d
  <1>1. /\ c \in Seq(Bytes) /\ Len(c) = Len(b) + Len(d)
        /\ \A i \in 1 .. Len(c) : c[i] = IF i <= Len(b) THEN b[i] ELSE d[i - Len(b)]
    OBVIOUS
  <1> HIDE DEF c
  <1>2. \A i \in 1 .. Len(d) : d[i][2] # "newline"
    BY DEF Newlines, KindAt
  <1>3. Len(b) > 0 /\ b[Len(b)][2] # "newline"
    BY DEF last_line_incomplete, KindAt
  <1>4. Newlines(c) = Newlines(b)
    <2>1. \A i \in 1 .. Len(b) : i \in 1 .. Len(c) /\ c[i] = b[i]
      BY <1>1
    <2>2. ASSUME NEW i \in 1 .. Len(c), c[i][2] = "newline" PROVE i \in 1 .. Len(b)
      <3> SUFFICES ASSUME i > Len(b) PROVE FALSE
        OBVIOUS
      <3>1. i - Len(b) \in 1 .. Len(d) /\ c[i] = d[i - Len(b)]
        BY <1>1
      <3> QED BY <1>2, <2>2, <3>1
    <2>3. DOMAIN b = 1 .. Len(b) /\ DOMAIN c = 1 .. Len(c)
      BY <1>1
    <2> QED BY <2>1, <2>2, <2>3, Zenon DEF Newlines, KindAt
  <1>5. Len(c) \notin Newlines(c) /\ Len(b) \notin Newlines(b) /\ Len(c) # 0 /\ c # <<>>
    <2>1. Len(b) \notin Newlines(b)
      BY <1>3, Zenon DEF Newlines, KindAt
    <2>2. Len(c) # 0 /\ (Len(c) = Len(b) \/ Len(c) \notin 1 .. Len(b))
      BY <1>1, <1>3
    <2>3. c # <<>>
      BY <2>2
    <2>4. Newlines(b) \subseteq 1 .. Len(b)
      BY DEF Newlines
    <2> QED BY <1>4, <2>1, <2>2, <2>3, <2>4, Zenon
  <1>6. LineStarts(c) = LineStarts(b)
    BY <1>1, <1>3, <1>4, <1>5 DEF LineStarts
  <1>7. last_line_incomplete(c)
    BY <1>1, <1>5 DEF last_line_incomplete, Newlines
  <1> QED BY <1>6, <1>7 DEF c

\* append keeps the limits of the buffer, whatever comes.
LEMMA AppendBounded ==
    ASSUME NEW b \in Seq(Bytes), NEW d \in Seq(Bytes), Bounded(b)
    PROVE  append(b, d) \in Seq(Bytes) /\ Bounded(append(b, d))
  <1>1. b \o d \in Seq(Bytes)
    OBVIOUS
  <1>2. append(b, d) \in Seq(Bytes)
    <2>1. PICK k \in 0 .. Len(b \o d) : append(b, d) = Drop(b \o d, k)
      BY AppendIs, Zenon
    <2> QED BY <1>1, <2>1, DropIs, Zenon
  <1>3. CASE d = <<>>
    <2>1. append(b, d) = b
      BY <1>3 DEF append
    <2> QED BY <2>1
  <1>4. CASE d # <<>> /\ last_line_incomplete(b) /\ Newlines(d) = {}
    <2>1. append(b, d) = b \o d
      BY <1>4 DEF append
    <2>2. Bounded(b \o d)
      BY <1>4, SameLines, Zenon DEF Bounded
    <2> QED BY <1>2, <2>1, <2>2
  <1>5. CASE d # <<>> /\ ~(last_line_incomplete(b) /\ Newlines(d) = {})
    BY <1>1, <1>2, <1>5, TrimBounded, Zenon DEF append
  <1> QED BY <1>3, <1>4, <1>5, Zenon

\* So does taking all that the channel holds (handle_open, read_outputs).
LEMMA FoldBounded ==
    ASSUME NEW b \in Seq(Bytes), Bounded(b), NEW out \in Seq(Seq(Bytes))
    PROVE  append_all(b, out) \in Seq(Bytes) /\ Bounded(append_all(b, out))
  <1> DEFINE G == {x \in Seq(Bytes) : Bounded(x)}
  <1>1. b \in G
    OBVIOUS
  <1>2. \A x \in G : \A i \in 1 .. Len(out) : append(x, out[i]) \in G
    <2>1. \A i \in 1 .. Len(out) : out[i] \in Seq(Bytes)
      OBVIOUS
    <2> QED BY <2>1, AppendBounded, Zenon
  <1>3. append_all(b, out) \in G
    <2> HIDE DEF G
    <2> QED BY <1>1, <1>2, FoldKeeps, Zenon
  <1> QED BY <1>3, Zenon
=============================================================================
