----------------------------- MODULE ChatProofs -----------------------------
(***************************************************************************)
(* Proofs about Chat, for any clients, connections, lines and sizes.        *)
(***************************************************************************)
EXTENDS Chat, SequenceTheorems, WellFoundedInduction, TLAPS

Messages == Seq(Byte)

\* What of s comes after h, which it begins with.
After(h, s) == SubSeq(s, Len(h) + 1, Len(s))

\* Of the messages s those of h have come, and b holds the next bytes: all of
\* them, or the first ones.
Underway(h, b, s) == IsPrefix(h, s) /\ IsPrefix(b, Stream(After(h, s)))
AllThere(h, b, s) == Underway(h, b, s) /\ b = Stream(After(h, s))

HistoryTypes ==
  /\ sent \in [Conn -> Seq(Messages)] /\ printed \in [Conn -> Seq(Messages)]
  /\ log \in Seq(Conn \X Messages)

\* Between a client and the server's codec nothing gets lost, or the end.
ServerSideOf(k) ==
  /\ Underway(Heard(k), inServer[k] \o toServer[k], sent[k])
  /\ k \notin cut /\ server[k] # "disconnected" =>
       AllThere(Heard(k), inServer[k] \o toServer[k], sent[k])

\* The same between the server and a client's codec.
ClientSideOf(k) ==
  /\ Underway(printed[k], inClient[k] \o toClient[k], Since(k))
  /\ k \notin cut /\ server[k] = "connected" =>
       AllThere(printed[k], inClient[k] \o toClient[k], Since(k))

ServerSide == \A k \in Conn : ServerSideOf(k)
ClientSide == \A k \in Conn : ClientSideOf(k)

\* What is left in a buffer is no whole message, nor is it the header of one
\* that is too long, unless the connection is being closed for it.
DecodedOf(k) ==
  /\ ~HasMessage(inServer[k]) /\ (Invalid(inServer[k]) => server[k] # "connected")
  /\ ~HasMessage(inClient[k]) /\ (Invalid(inClient[k]) => client[k] # "connected")

\* Who has gone leaves nobody behind that is connected.
FitOf(k) ==
  /\ server[k] = "new" =>
       /\ inServer[k] = << >> /\ toClient[k] = << >>
       /\ inClient[k] = << >> /\ printed[k] = << >>
  /\ server[k] # "new" => client[k] # "new"
  /\ k \notin cut =>
       /\ client[k] = "disconnected" =>
            server[k] \in {"disconnecting", "disconnected"}
       /\ server[k] = "disconnected" => client[k] # "connected"

BuffersAreDecoded == \A k \in Conn : DecodedOf(k)
StatesFit         == \A k \in Conn : FitOf(k)

Inv == /\ TypeOK /\ HistoryTypes /\ StatesFit /\ BuffersAreDecoded
       /\ ServerSide /\ ClientSide

-----------------------------------------------------------------------------
(* Induction, for sets of numbers.                                          *)

\* A nonempty set of natural numbers has a least element.
LEMMA LeastNatural ==
  ASSUME NEW T, T \subseteq Nat, T # {}
  PROVE  \E x \in T : \A y \in T : x <= y
<1> DEFINE R == OpToRel(<, Nat)
<1>1. IsWellFoundedOn(R, Nat)
  BY NatLessThanWellFounded
<1>2. \A x, y \in Nat : << y, x >> \in R <=> y < x
  BY DEF OpToRel
<1> HIDE DEF R
<1>3. PICK x \in T : \A y \in T : ~(<< y, x >> \in R)
  BY <1>1, WFMin
<1>4. ASSUME NEW y \in T
      PROVE  x <= y
  <2>1. x \in Nat /\ y \in Nat /\ ~(<< y, x >> \in R)
    BY <1>3
  <2>2. ~(y < x)
    BY <1>2, <2>1
  <2> QED
    BY <2>1, <2>2
<1> QED
  BY <1>4

\* What holds of 0, and of n + 1 if of n, holds up to N.
LEMMA Induction ==
  ASSUME NEW N \in Nat, NEW T, 0 \in T,
         \A n \in 0 .. N - 1 : n \in T => n + 1 \in T
  PROVE  \A n \in 0 .. N : n \in T
<1> DEFINE U == {n \in 0 .. N : n \notin T}
<1> SUFFICES ASSUME U # {} PROVE FALSE
  OBVIOUS
<1>1. PICK n \in U : \A k \in U : n <= k
  <2>1. U \subseteq Nat
    OBVIOUS
  <2> QED
    BY <2>1, LeastNatural
<1>2. n \in 0 .. N /\ n \notin T /\ n # 0
  OBVIOUS
<1>3. n - 1 \in 0 .. N - 1 /\ n - 1 \in 0 .. N /\ ~(n <= n - 1) /\ (n - 1) + 1 = n
  BY <1>2
<1>4. n - 1 \in T
  BY <1>1, <1>3
<1> QED
  BY <1>2, <1>3, <1>4

\* The step n of f is G[n].
Iterates(f, N, S, a, G) ==
  /\ f \in [0 .. N -> S]
  /\ f[0] = a /\ \A n \in 1 .. N : f[n] = G[n][f[n - 1]]

LEMMA Iteration ==
  ASSUME NEW N \in Nat, NEW S, NEW a \in S, NEW G \in [1 .. N -> [S -> S]]
  PROVE  \E f : Iterates(f, N, S, a, G)
<1> DEFINE Upto(f, n) == f[0] = a /\ \A k \in 1 .. n : f[k] = G[k][f[k - 1]]
           T == {n \in 0 .. N : \E f \in [0 .. n -> S] : Upto(f, n)}
<1>1. 0 \in T
  <2> DEFINE f == [k \in 0 .. 0 |-> a]
  <2>1. f \in [0 .. 0 -> S] /\ Upto(f, 0)
    OBVIOUS
  <2> HIDE DEF f
  <2>2. \E e \in [0 .. 0 -> S] : Upto(e, 0)
    BY <2>1
  <2> QED
    BY <2>2
<1>2. ASSUME NEW n \in 0 .. N - 1, n \in T PROVE n + 1 \in T
  <2>1. PICK f \in [0 .. n -> S] : Upto(f, n)
    BY <1>2
  <2>2. f[n] \in S /\ n + 1 \in 1 .. N /\ n + 1 \in 0 .. N
    OBVIOUS
  <2>3. PICK s \in S : s = G[n + 1][f[n]]
    BY <2>2
  <2> DEFINE g == [k \in 0 .. n + 1 |-> IF k = n + 1 THEN s ELSE f[k]]
  <2>4. /\ \A k \in 0 .. n + 1 : k \in 0 .. n \/ k = n + 1
        /\ \A k \in 1 .. n + 1 : k \in 1 .. n \/ k = n + 1
        /\ \A k \in 1 .. n : k # n + 1 /\ k \in 0 .. n /\ k - 1 \in 0 .. n
        /\ n \in 0 .. n /\ 0 \in 0 .. n /\ n + 1 \in 0 .. n + 1 /\ (n + 1) - 1 = n
    OBVIOUS
  <2>5. g \in [0 .. n + 1 -> S]
    BY <2>1, <2>3, <2>4
  <2>6. g[n + 1] = s /\ \A k \in 0 .. n : g[k] = f[k]
    BY <2>4
  <2> HIDE DEF g
  <2>7. g[0] = a /\ \A k \in 1 .. n : g[k] = G[k][g[k - 1]]
    BY <2>1, <2>4, <2>6
  <2>8. g[n + 1] = G[n + 1][g[(n + 1) - 1]]
    BY <2>3, <2>4, <2>6
  <2>9. Upto(g, n + 1)
    BY <2>4, <2>7, <2>8
  <2> QED
    BY <2>2, <2>5, <2>9
<1> HIDE DEF T
<1>3. N \in T
  <2>1. \A n \in 0 .. N : n \in T
    BY <1>1, <1>2, Induction
  <2> QED
    BY <2>1
<1> QED
  BY <1>3 DEF T, Iterates

-----------------------------------------------------------------------------
(* Sequences.                                                               *)

LEMMA Regroup ==
  ASSUME NEW S
  PROVE  \A s, t, u \in Seq(S) : (s \o t) \o u = s \o (t \o u)
<1> TAKE s, t, u \in Seq(S)
<1> QED
  BY ConcatAssociative

LEMMA RegroupBytes ==
  \A s, t, u \in Messages : (s \o t) \o u = s \o (t \o u)
BY Regroup DEF Messages

LEMMA RegroupMessages ==
  \A s, t, u \in Seq(Messages) : (s \o t) \o u = s \o (t \o u)
BY Regroup

\* A sequence is the function of its elements.
LEMMA AsFunction ==
  ASSUME NEW S, NEW s \in Seq(S)
  PROVE  s = [i \in 1 .. Len(s) |-> s[i]]
OBVIOUS

LEMMA WithEmpty ==
  ASSUME NEW S, NEW s \in Seq(S)
  PROVE  s \o << >> = s /\ << >> \o s = s /\ << >> \in Seq(S)
BY ConcatEmptySeq, EmptySeq

\* A sequence is its first n elements and the others.
LEMMA Halves ==
  ASSUME NEW S, NEW s \in Seq(S), NEW n \in 0 .. Len(s)
  PROVE  /\ SubSeq(s, 1, n) \in Seq(S) /\ SubSeq(s, n + 1, Len(s)) \in Seq(S)
         /\ Len(SubSeq(s, 1, n)) = n
         /\ SubSeq(s, 1, n) \o SubSeq(s, n + 1, Len(s)) = s
<1>1. /\ Len(s) \in Nat /\ 1 \in 1 .. Len(s) + 1 /\ n \in 1 - 1 .. Len(s)
      /\ Len(s) \in n .. Len(s)
  OBVIOUS
<1>2. SubSeq(s, 1, n) \o SubSeq(s, n + 1, Len(s)) = SubSeq(s, 1, Len(s))
  BY <1>1, ConcatAdjacentSubSeq
<1>3. SubSeq(s, 1, Len(s)) = s
  BY SubSeqFull
<1>4. /\ SubSeq(s, 1, n) \in Seq(S) /\ SubSeq(s, n + 1, Len(s)) \in Seq(S)
      /\ Len(SubSeq(s, 1, n)) = n
  BY <1>1
<1> QED
  BY <1>2, <1>3, <1>4

\* A prefix is what some rest makes whole.
LEMMA PrefixHasRest ==
  ASSUME NEW S, NEW s \in Seq(S), NEW t \in Seq(S)
  PROVE  /\ IsPrefix(s, t) <=> \E r \in Seq(S) : t = s \o r
         /\ IsPrefix(s, t) => After(s, t) \in Seq(S) /\ t = s \o After(s, t)
<1>1. Len(s) \in Nat /\ Len(t) \in Nat
  OBVIOUS
<1>2. ASSUME IsPrefix(s, t)
      PROVE  After(s, t) \in Seq(S) /\ t = s \o After(s, t)
  <2>1. Len(s) \in 0 .. Len(t) /\ SubSeq(t, 1, Len(s)) = s
    BY <1>1, <1>2 DEF IsPrefix
  <2> QED
    BY <2>1, Halves DEF After
<1>3. ASSUME NEW r \in Seq(S), t = s \o r
      PROVE  IsPrefix(s, t)
  <2>1. /\ Len(r) \in Nat /\ Len(t) = Len(s) + Len(r)
        /\ \A i \in 1 .. Len(s) : t[i] = s[i]
    BY <1>1, <1>3
  <2>2. /\ SubSeq(t, 1, Len(s)) \in Seq(S) /\ Len(SubSeq(t, 1, Len(s))) = Len(s)
        /\ \A i \in 1 .. Len(s) : SubSeq(t, 1, Len(s))[i] = s[i]
    BY <1>1, <2>1
  <2>3. SubSeq(t, 1, Len(s)) = s
    BY <2>2, SeqEqual
  <2> QED
    BY <1>1, <2>1, <2>3 DEF IsPrefix
<1> QED
  BY <1>2, <1>3

\* The rest is what was added.
LEMMA AfterConcat ==
  ASSUME NEW S, NEW s \in Seq(S), NEW r \in Seq(S)
  PROVE  After(s, s \o r) = r /\ IsPrefix(s, s \o r)
<1>1. s \o r \in Seq(S)
  BY ConcatProperties
<1>2. IsPrefix(s, s \o r)
  BY <1>1, PrefixHasRest
<1>3. After(s, s \o r) \in Seq(S) /\ s \o r = s \o After(s, s \o r)
  BY <1>1, <1>2, PrefixHasRest
<1>4. After(s, s \o r) = r
  BY <1>3, ConcatSimplifications
<1> QED
  BY <1>2, <1>4

\* One element more.
LEMMA SubSeqGrows ==
  ASSUME NEW S, NEW s \in Seq(S), NEW n \in 0 .. Len(s) - 1
  PROVE  /\ SubSeq(s, 1, n) \in Seq(S) /\ s[n + 1] \in S
         /\ SubSeq(s, 1, n + 1) = Append(SubSeq(s, 1, n), s[n + 1])
<1>1. Len(s) \in Nat /\ n + 1 \in 1 .. Len(s) /\ 1 \in 1 .. Len(s) /\ n + 1 \in 1 .. Len(s)
      /\ (n + 1) - 1 = n
  OBVIOUS
<1>2. SubSeq(s, 1, n) \in Seq(S) /\ s[n + 1] \in S
  BY <1>1
<1>3. SubSeq(s, 1, n + 1) = SubSeq(s, 1, n) \o << s[n + 1] >>
  BY <1>1, SubSeqRecursiveSecond
<1> QED
  BY <1>2, <1>3, AppendIsConcat

\* The k elements after the first n.
LEMMA Slice ==
  ASSUME NEW S, NEW s \in Seq(S), NEW n \in Nat, NEW k \in Nat, n + k <= Len(s)
  PROVE  /\ SubSeq(s, n + 1, n + k) \in Seq(S) /\ Len(SubSeq(s, n + 1, n + k)) = k
         /\ \A i \in 1 .. k : SubSeq(s, n + 1, n + k)[i] = s[n + i]
<1> DEFINE p == n + 1
           q == n + k
<1>1. /\ p \in Int /\ q \in Int /\ Len(s) \in Nat /\ p >= 1 /\ q <= Len(s)
      /\ (q - p) + 1 = k /\ \A i \in 1 .. k : (p + i) - 1 = n + i
  OBVIOUS
<1> HIDE DEF p, q
<1>2. SubSeq(s, p, q) \in Seq(S)
  BY <1>1
<1>3. Len(SubSeq(s, p, q)) = k
  BY <1>1
<1>4. \A i \in 1 .. k : SubSeq(s, p, q)[i] = s[(p + i) - 1]
  BY <1>1
<1> QED
  BY <1>1, <1>2, <1>3, <1>4 DEF p, q

LEMMA ConcatAppends ==
  ASSUME NEW S, NEW s \in Seq(S), NEW t \in Seq(S), NEW x \in S
  PROVE  s \o Append(t, x) = Append(s \o t, x)
<1>1. << x >> \in Seq(S) /\ s \o t \in Seq(S)
  BY ConcatProperties
<1>2. Append(t, x) = t \o << x >> /\ Append(s \o t, x) = (s \o t) \o << x >>
  BY <1>1, AppendIsConcat
<1> QED
  BY <1>1, <1>2, Regroup

-----------------------------------------------------------------------------
(* Stream.                                                                  *)

Streams(f, msgs) ==
  f = [n \in 0 .. Len(msgs) |->
         IF n = 0 THEN << >> ELSE f[n - 1] \o Encode(msgs[n])]

\* A message is its header, of which every byte has the length, and its bytes.
LEMMA EncodeBytes ==
  ASSUME NEW m \in Messages
  PROVE  /\ Encode(m) \in Messages /\ Len(Encode(m)) = nHeader + Len(m)
         /\ \A i \in 1 .. nHeader : Encode(m)[i] = << "length", Len(m) >>
         /\ \A i \in 1 .. Len(m) : Encode(m)[nHeader + i] = m[i]
<1> DEFINE h == [i \in 1 .. nHeader |-> << "length", Len(m) >>]
<1>1. m \in Seq(Byte) /\ Len(m) \in Nat /\ nHeader \in Nat \ {0}
  BY ChatAssumption DEF Messages
<1>2. << "length", Len(m) >> \in Byte
  BY <1>1 DEF Byte
<1>3. h \in Seq(Byte) /\ Len(h) = nHeader
      /\ \A i \in 1 .. nHeader : h[i] = << "length", Len(m) >>
  BY <1>1, <1>2
<1>4. Encode(m) = h \o m
  BY DEF Encode
<1> HIDE DEF h
<1>5. /\ h \o m \in Seq(Byte) /\ Len(h \o m) = nHeader + Len(m)
      /\ \A i \in 1 .. nHeader + Len(m) :
           (h \o m)[i] = IF i <= nHeader THEN h[i] ELSE m[i - nHeader]
  BY <1>1, <1>3, ConcatProperties
<1>6. \A i \in 1 .. nHeader : (h \o m)[i] = << "length", Len(m) >>
  <2> TAKE i \in 1 .. nHeader
  <2>1. i \in 1 .. nHeader + Len(m) /\ i <= nHeader
    BY <1>1
  <2> QED
    BY <1>3, <1>5, <2>1
<1>7. \A i \in 1 .. Len(m) : (h \o m)[nHeader + i] = m[i]
  <2> TAKE i \in 1 .. Len(m)
  <2>1. /\ nHeader + i \in 1 .. nHeader + Len(m) /\ ~(nHeader + i <= nHeader)
        /\ (nHeader + i) - nHeader = i
    BY <1>1
  <2> QED
    BY <1>5, <2>1
<1> QED
  BY <1>4, <1>5, <1>6, <1>7 DEF Messages

\* There is a function of the kind that Stream chooses, and only one.
LEMMA StreamsExist ==
  ASSUME NEW msgs \in Seq(Messages)
  PROVE  /\ \E f \in [0 .. Len(msgs) -> Messages] : Streams(f, msgs)
         /\ \E f : Streams(f, msgs) /\ Stream(msgs) = f[Len(msgs)]
<1> DEFINE N == Len(msgs)
           G == [n \in 1 .. N |-> [s \in Messages |-> s \o Encode(msgs[n])]]
<1>1. N \in Nat /\ << >> \in Messages /\ \A n \in 1 .. N : msgs[n] \in Messages
  BY EmptySeq DEF Messages
<1>2. G \in [1 .. N -> [Messages -> Messages]]
  <2>1. \A n \in 1 .. N, s \in Messages : s \o Encode(msgs[n]) \in Messages
    BY <1>1, EncodeBytes, ConcatProperties DEF Messages
  <2> QED
    BY <2>1
<1>3. \A n \in 1 .. N, s \in Messages : G[n][s] = s \o Encode(msgs[n])
  OBVIOUS
<1> HIDE DEF G, N
<1>4. PICK f : Iterates(f, N, Messages, << >>, G)
  BY <1>1, <1>2, Iteration
<1>5. \A n \in 0 .. N : f[n] = IF n = 0 THEN << >> ELSE f[n - 1] \o Encode(msgs[n])
  <2> SUFFICES ASSUME NEW n \in 0 .. N, n # 0
               PROVE  f[n] = f[n - 1] \o Encode(msgs[n])
    BY <1>4 DEF Iterates
  <2>1. n \in 1 .. N /\ n - 1 \in 0 .. N
    BY <1>1
  <2>2. f[n - 1] \in Messages /\ f[n] = G[n][f[n - 1]]
    BY <1>4, <2>1 DEF Iterates
  <2> QED
    BY <1>3, <2>1, <2>2
<1>6. Streams(f, msgs) /\ f \in [0 .. Len(msgs) -> Messages]
  <2>1. f \in [0 .. N -> Messages]
    BY <1>4 DEF Iterates
  <2> QED
    BY <1>5, <2>1 DEF Streams, N
<1>7. \E g : Streams(g, msgs) /\ Stream(msgs) = g[Len(msgs)]
  <2> DEFINE g == CHOOSE g : Streams(g, msgs)
  <2>1. Streams(g, msgs)
    BY <1>6
  <2>2. Stream(msgs) = g[Len(msgs)]
    BY DEF Stream, Streams
  <2> QED
    BY <2>1, <2>2
<1> QED
  BY <1>6, <1>7 DEF N

LEMMA StreamAppends ==
  /\ Stream(<< >>) = << >>
  /\ \A msgs \in Seq(Messages) : Stream(msgs) \in Messages
  /\ \A msgs \in Seq(Messages), m \in Messages :
       Stream(Append(msgs, m)) = Stream(msgs) \o Encode(m)
<1>1. Stream(<< >>) = << >>
  <2>1. << >> \in Seq(Messages) /\ Len(<< >>) = 0
    BY EmptySeq
  <2>2. PICK f : Streams(f, << >>) /\ Stream(<< >>) = f[0]
    BY <2>1, StreamsExist
  <2>3. f = [n \in 0 .. 0 |->
               IF n = 0 THEN << >> ELSE f[n - 1] \o Encode(<< >>[n])]
    BY <2>1, <2>2 DEF Streams
  <2>4. f[0] = << >>
    BY <2>3
  <2> QED
    BY <2>2, <2>4
<1>2. ASSUME NEW s \in Seq(Messages), NEW t \in Seq(Messages), Len(s) <= Len(t),
             \A n \in 1 .. Len(s) : t[n] = s[n],
             NEW f, Streams(f, s), NEW g, Streams(g, t)
      PROVE  \A n \in 0 .. Len(s) : f[n] \in Messages /\ g[n] = f[n]
  <2> DEFINE T == {n \in 0 .. Len(s) : f[n] \in Messages /\ g[n] = f[n]}
  <2>1. /\ Len(s) \in Nat /\ Len(t) \in Nat
        /\ \A n \in 1 .. Len(s) : s[n] \in Messages
        /\ \A n \in 0 .. Len(s) : n \in 0 .. Len(t)
    BY <1>2
  <2>2. \A n \in 0 .. Len(s) :
          /\ f[n] = IF n = 0 THEN << >> ELSE f[n - 1] \o Encode(s[n])
          /\ g[n] = IF n = 0 THEN << >> ELSE g[n - 1] \o Encode(t[n])
    BY <1>2, <2>1 DEF Streams
  <2>3. 0 \in T
    <3>1. 0 \in 0 .. Len(s)
      BY <2>1
    <3>2. f[0] = << >> /\ g[0] = << >>
      BY <2>2, <3>1
    <3> QED
      BY <3>1, <3>2, EmptySeq DEF Messages
  <2>4. ASSUME NEW n \in 0 .. Len(s) - 1, n \in T PROVE n + 1 \in T
    <3>1. n + 1 \in 1 .. Len(s) /\ n + 1 \in 0 .. Len(s) /\ n + 1 # 0 /\ (n + 1) - 1 = n
      BY <2>1
    <3>2. /\ f[n + 1] = f[n] \o Encode(s[n + 1])
          /\ g[n + 1] = f[n] \o Encode(s[n + 1])
      BY <1>2, <2>2, <2>4, <3>1
    <3>3. f[n] \o Encode(s[n + 1]) \in Messages
      <4>1. f[n] \in Messages /\ Encode(s[n + 1]) \in Messages
        BY <2>1, <2>4, <3>1, EncodeBytes
      <4> QED
        BY <4>1, ConcatProperties DEF Messages
    <3> QED
      BY <3>1, <3>2, <3>3
  <2> HIDE DEF T
  <2>5. \A n \in 0 .. Len(s) : n \in T
    BY <2>1, <2>3, <2>4, Induction
  <2> QED
    BY <2>5 DEF T
<1>3. ASSUME NEW s \in Seq(Messages) PROVE Stream(s) \in Messages
  <2>1. PICK f : Streams(f, s) /\ Stream(s) = f[Len(s)]
    BY StreamsExist
  <2>2. Len(s) \in 0 .. Len(s) /\ Len(s) <= Len(s)
    OBVIOUS
  <2> QED
    BY <1>2, <2>1, <2>2
<1>4. ASSUME NEW s \in Seq(Messages), NEW m \in Messages
      PROVE  Stream(Append(s, m)) = Stream(s) \o Encode(m)
  <2> DEFINE t == Append(s, m)
  <2>1. /\ t \in Seq(Messages) /\ Len(t) = Len(s) + 1 /\ Len(s) \in Nat
        /\ t[Len(s) + 1] = m /\ \A n \in 1 .. Len(s) : t[n] = s[n]
    OBVIOUS
  <2> HIDE DEF t
  <2>2. PICK f : Streams(f, s) /\ Stream(s) = f[Len(s)]
    BY StreamsExist
  <2>3. PICK g : Streams(g, t) /\ Stream(t) = g[Len(t)]
    BY <2>1, StreamsExist
  <2>4. g[Len(s)] = f[Len(s)]
    <3>1. \A n \in 0 .. Len(s) : f[n] \in Messages /\ g[n] = f[n]
      BY <1>2, <2>1, <2>2, <2>3
    <3> QED
      BY <2>1, <3>1
  <2>5. /\ Len(s) + 1 \in 0 .. Len(t) /\ Len(s) + 1 # 0
        /\ (Len(s) + 1) - 1 = Len(s)
    BY <2>1
  <2>6. g[Len(s) + 1] = g[Len(s)] \o Encode(t[Len(s) + 1])
    BY <2>3, <2>5 DEF Streams
  <2> QED
    BY <2>1, <2>2, <2>3, <2>4, <2>6 DEF t
<1> QED
  BY <1>1, <1>3, <1>4

LEMMA StreamConcat ==
  ASSUME NEW s \in Seq(Messages), NEW t \in Seq(Messages)
  PROVE  Stream(s \o t) = Stream(s) \o Stream(t)
<1> DEFINE T == {n \in 0 .. Len(t) :
                   Stream(s \o SubSeq(t, 1, n)) = Stream(s) \o Stream(SubSeq(t, 1, n))}
<1>1. /\ Len(t) \in Nat /\ SubSeq(t, 1, 0) = << >> /\ SubSeq(t, 1, Len(t)) = t
      /\ Stream(s) \in Messages
  BY SubSeqEmpty, SubSeqFull, StreamAppends
<1>2. 0 \in T
  <2>1. s \o << >> = s /\ Stream(s) \o << >> = Stream(s)
    BY <1>1, WithEmpty DEF Messages
  <2>2. Stream(s \o << >>) = Stream(s)
    BY <2>1
  <2>3. Stream(s) \o Stream(<< >>) = Stream(s)
    BY <2>1, StreamAppends
  <2>4. Stream(s \o SubSeq(t, 1, 0)) = Stream(s) \o Stream(SubSeq(t, 1, 0))
    BY <1>1, <2>2, <2>3, Zenon
  <2>5. 0 \in 0 .. Len(t)
    BY <1>1
  <2> QED
    BY <2>4, <2>5
<1>3. ASSUME NEW n \in 0 .. Len(t) - 1, n \in T PROVE n + 1 \in T
  <2> DEFINE u == SubSeq(t, 1, n)
             m == t[n + 1]
  <2>1. /\ u \in Seq(Messages) /\ m \in Messages
        /\ SubSeq(t, 1, n + 1) = Append(u, m)
    BY SubSeqGrows
  <2>2. Stream(s \o u) = Stream(s) \o Stream(u) /\ n + 1 \in 0 .. Len(t)
    BY <1>1, <1>3
  <2> HIDE DEF u, m
  <2>3. s \o Append(u, m) = Append(s \o u, m) /\ s \o u \in Seq(Messages)
    BY <2>1, ConcatAppends, ConcatProperties
  <2>4. Stream(Append(s \o u, m)) = (Stream(s) \o Stream(u)) \o Encode(m)
    BY <2>1, <2>2, <2>3, StreamAppends
  <2>5. Stream(u) \in Messages /\ Encode(m) \in Messages
        /\ Stream(Append(u, m)) = Stream(u) \o Encode(m)
    BY <2>1, StreamAppends, EncodeBytes
  <2>6. (Stream(s) \o Stream(u)) \o Encode(m) = Stream(s) \o (Stream(u) \o Encode(m))
    BY <1>1, <2>5, RegroupBytes
  <2> QED
    BY <2>1, <2>2, <2>3, <2>4, <2>5, <2>6
<1> HIDE DEF T
<1>4. \A n \in 0 .. Len(t) : n \in T
  BY <1>1, <1>2, <1>3, Induction
<1>5. Len(t) \in T
  BY <1>1, <1>4
<1> QED
  BY <1>1, <1>5 DEF T

LEMMA StreamOfHeadAndTail ==
  ASSUME NEW s \in Seq(Messages), s # << >>
  PROVE  /\ Head(s) \in Messages /\ Tail(s) \in Seq(Messages)
         /\ s = << Head(s) >> \o Tail(s)
         /\ Stream(s) = Encode(Head(s)) \o Stream(Tail(s))
<1>1. Head(s) \in Messages /\ Tail(s) \in Seq(Messages) /\ << Head(s) >> \in Seq(Messages)
  OBVIOUS
<1>2. s = << Head(s) >> \o Tail(s)
  OBVIOUS
<1>3. Stream(<< Head(s) >>) = Encode(Head(s))
  <2>1. Append(<< >>, Head(s)) = << Head(s) >>
    OBVIOUS
  <2>2. Stream(Append(<< >>, Head(s))) = << >> \o Encode(Head(s))
    BY <1>1, EmptySeq, StreamAppends
  <2>3. << >> \o Encode(Head(s)) = Encode(Head(s))
    BY <1>1, EncodeBytes, WithEmpty DEF Messages
  <2> QED
    BY <2>1, <2>2, <2>3
<1> QED
  BY <1>1, <1>2, <1>3, StreamConcat

-----------------------------------------------------------------------------
(* From.                                                                    *)

Pairs == Seq(Conn \X Messages)

Froms(f, k, msgs) ==
  f = [n \in 0 .. Len(msgs) |->
         IF n = 0 THEN << >>
         ELSE IF msgs[n][1] = k THEN Append(f[n - 1], msgs[n][2]) ELSE f[n - 1]]

LEMMA FromsExist ==
  ASSUME NEW k \in Conn, NEW msgs \in Pairs
  PROVE  \E f : Froms(f, k, msgs) /\ From(k, msgs) = f[Len(msgs)]
<1> DEFINE N == Len(msgs)
           S == Seq(Messages)
           G == [n \in 1 .. N |-> [s \in S |->
                   IF msgs[n][1] = k THEN Append(s, msgs[n][2]) ELSE s]]
<1>1. N \in Nat /\ << >> \in S /\ \A n \in 1 .. N : msgs[n][2] \in Messages
  BY EmptySeq DEF Pairs
<1>2. G \in [1 .. N -> [S -> S]]
  <2>1. \A n \in 1 .. N, s \in S :
          (IF msgs[n][1] = k THEN Append(s, msgs[n][2]) ELSE s) \in S
    BY <1>1
  <2> QED
    BY <2>1
<1>3. \A n \in 1 .. N, s \in S :
        G[n][s] = IF msgs[n][1] = k THEN Append(s, msgs[n][2]) ELSE s
  OBVIOUS
<1> HIDE DEF G, N, S
<1>4. PICK f : Iterates(f, N, S, << >>, G)
  BY <1>1, <1>2, Iteration
<1>5. \A n \in 0 .. N :
        f[n] = IF n = 0 THEN << >>
               ELSE IF msgs[n][1] = k THEN Append(f[n - 1], msgs[n][2])
                                      ELSE f[n - 1]
  <2> SUFFICES ASSUME NEW n \in 0 .. N, n # 0
               PROVE  f[n] = IF msgs[n][1] = k THEN Append(f[n - 1], msgs[n][2])
                                               ELSE f[n - 1]
    BY <1>4 DEF Iterates
  <2>1. n \in 1 .. N /\ n - 1 \in 0 .. N
    BY <1>1
  <2>2. f[n - 1] \in S /\ f[n] = G[n][f[n - 1]]
    BY <1>4, <2>1 DEF Iterates
  <2> QED
    BY <1>3, <2>1, <2>2
<1>6. Froms(f, k, msgs)
  <2>1. f \in [0 .. N -> S]
    BY <1>4 DEF Iterates
  <2> QED
    BY <1>5, <2>1 DEF Froms, N
<1> DEFINE g == CHOOSE g : Froms(g, k, msgs)
<1>7. Froms(g, k, msgs)
  BY <1>6
<1>8. From(k, msgs) = g[Len(msgs)]
  BY DEF From, Froms
<1> QED
  BY <1>7, <1>8

LEMMA FromAppends ==
  ASSUME NEW k \in Conn
  PROVE  /\ From(k, << >>) = << >>
         /\ \A msgs \in Pairs : From(k, msgs) \in Seq(Messages)
         /\ \A msgs \in Pairs, j \in Conn, m \in Messages :
              From(k, Append(msgs, << j, m >>)) =
                IF j = k THEN Append(From(k, msgs), m) ELSE From(k, msgs)
<1>1. From(k, << >>) = << >>
  <2>1. << >> \in Pairs /\ Len(<< >>) = 0
    BY EmptySeq DEF Pairs
  <2>2. PICK f : Froms(f, k, << >>) /\ From(k, << >>) = f[0]
    BY <2>1, FromsExist
  <2>3. f = [n \in 0 .. 0 |->
               IF n = 0 THEN << >>
               ELSE IF << >>[n][1] = k THEN Append(f[n - 1], << >>[n][2])
                                       ELSE f[n - 1]]
    BY <2>1, <2>2 DEF Froms
  <2>4. f[0] = << >>
    BY <2>3
  <2> QED
    BY <2>2, <2>4
<1>2. ASSUME NEW s \in Pairs, NEW t \in Pairs, Len(s) <= Len(t),
             \A n \in 1 .. Len(s) : t[n] = s[n],
             NEW f, Froms(f, k, s), NEW g, Froms(g, k, t)
      PROVE  \A n \in 0 .. Len(s) : f[n] \in Seq(Messages) /\ g[n] = f[n]
  <2> DEFINE T == {n \in 0 .. Len(s) : f[n] \in Seq(Messages) /\ g[n] = f[n]}
  <2>1. /\ Len(s) \in Nat /\ Len(t) \in Nat
        /\ \A n \in 1 .. Len(s) : s[n][2] \in Messages
        /\ \A n \in 0 .. Len(s) : n \in 0 .. Len(t)
    BY <1>2 DEF Pairs
  <2>2. \A n \in 0 .. Len(s) :
          /\ f[n] = IF n = 0 THEN << >>
                    ELSE IF s[n][1] = k THEN Append(f[n - 1], s[n][2]) ELSE f[n - 1]
          /\ g[n] = IF n = 0 THEN << >>
                    ELSE IF t[n][1] = k THEN Append(g[n - 1], t[n][2]) ELSE g[n - 1]
    BY <1>2, <2>1 DEF Froms
  <2>3. 0 \in T
    <3>1. 0 \in 0 .. Len(s)
      BY <2>1
    <3>2. f[0] = << >> /\ g[0] = << >>
      BY <2>2, <3>1
    <3> QED
      BY <3>1, <3>2, EmptySeq
  <2>4. ASSUME NEW n \in 0 .. Len(s) - 1, n \in T PROVE n + 1 \in T
    <3>1. n + 1 \in 1 .. Len(s) /\ n + 1 \in 0 .. Len(s) /\ n + 1 # 0 /\ (n + 1) - 1 = n
      BY <2>1
    <3>2. /\ f[n + 1] = IF s[n + 1][1] = k THEN Append(f[n], s[n + 1][2]) ELSE f[n]
          /\ g[n + 1] = IF s[n + 1][1] = k THEN Append(f[n], s[n + 1][2]) ELSE f[n]
      BY <1>2, <2>2, <2>4, <3>1
    <3>3. f[n] \in Seq(Messages) /\ s[n + 1][2] \in Messages
      BY <2>1, <2>4, <3>1
    <3>4. f[n + 1] \in Seq(Messages)
      BY <3>2, <3>3
    <3>5. g[n + 1] = f[n + 1]
      BY <3>2
    <3> QED
      BY <3>1, <3>4, <3>5
  <2> HIDE DEF T
  <2>5. \A n \in 0 .. Len(s) : n \in T
    BY <2>1, <2>3, <2>4, Induction
  <2> QED
    BY <2>5 DEF T
<1>3. ASSUME NEW s \in Pairs PROVE From(k, s) \in Seq(Messages)
  <2>1. PICK f : Froms(f, k, s) /\ From(k, s) = f[Len(s)]
    BY FromsExist
  <2>2. Len(s) \in 0 .. Len(s) /\ Len(s) <= Len(s)
    BY DEF Pairs
  <2> QED
    BY <1>2, <2>1, <2>2
<1>4. ASSUME NEW s \in Pairs, NEW j \in Conn, NEW m \in Messages
      PROVE  From(k, Append(s, << j, m >>)) =
               IF j = k THEN Append(From(k, s), m) ELSE From(k, s)
  <2> DEFINE t == Append(s, << j, m >>)
  <2>1. /\ t \in Pairs /\ Len(t) = Len(s) + 1 /\ Len(s) \in Nat
        /\ t[Len(s) + 1] = << j, m >> /\ \A n \in 1 .. Len(s) : t[n] = s[n]
    BY DEF Pairs
  <2> HIDE DEF t
  <2>2. PICK f : Froms(f, k, s) /\ From(k, s) = f[Len(s)]
    BY FromsExist
  <2>3. PICK g : Froms(g, k, t) /\ From(k, t) = g[Len(t)]
    BY <2>1, FromsExist
  <2>4. g[Len(s)] = f[Len(s)]
    <3>1. \A n \in 0 .. Len(s) : f[n] \in Seq(Messages) /\ g[n] = f[n]
      BY <1>2, <2>1, <2>2, <2>3
    <3> QED
      BY <2>1, <3>1
  <2>5. /\ Len(s) + 1 \in 0 .. Len(t) /\ Len(s) + 1 # 0
        /\ (Len(s) + 1) - 1 = Len(s)
        /\ t[Len(s) + 1][1] = j /\ t[Len(s) + 1][2] = m
    BY <2>1
  <2>6. g[Len(s) + 1] = IF t[Len(s) + 1][1] = k
                        THEN Append(g[Len(s)], t[Len(s) + 1][2]) ELSE g[Len(s)]
    BY <2>3, <2>5 DEF Froms
  <2> QED
    BY <2>1, <2>2, <2>3, <2>4, <2>5, <2>6 DEF t
<1> QED
  BY <1>1, <1>3, <1>4

\* The messages out, as ones that came from j.
Tagged(j, out) == [i \in DOMAIN out |-> << j, out[i] >>]

LEMMA FromConcat ==
  ASSUME NEW k \in Conn, NEW j \in Conn, NEW msgs \in Pairs,
         NEW out \in Seq(Messages)
  PROVE  /\ Tagged(j, out) \in Pairs /\ Len(Tagged(j, out)) = Len(out)
         /\ msgs \o Tagged(j, out) \in Pairs
         /\ From(k, msgs \o Tagged(j, out)) =
              IF j = k THEN From(k, msgs) \o out ELSE From(k, msgs)
<1> DEFINE A(n) == SubSeq(out, 1, n)
           T == {n \in 0 .. Len(out) :
                   From(k, msgs \o Tagged(j, A(n))) =
                     IF j = k THEN From(k, msgs) \o A(n) ELSE From(k, msgs)}
<1>1. /\ Len(out) \in Nat /\ A(0) = << >> /\ A(Len(out)) = out
      /\ From(k, msgs) \in Seq(Messages)
  BY SubSeqEmpty, SubSeqFull, FromAppends
<1>2. ASSUME NEW s \in Seq(Messages)
      PROVE  /\ Tagged(j, s) \in Pairs /\ Len(Tagged(j, s)) = Len(s)
             /\ msgs \o Tagged(j, s) \in Pairs
  <2>1. DOMAIN s = 1 .. Len(s) /\ Len(s) \in Nat /\ \A i \in 1 .. Len(s) : s[i] \in Messages
    OBVIOUS
  <2>2. Tagged(j, s) \in Pairs /\ Len(Tagged(j, s)) = Len(s)
    BY <2>1 DEF Tagged, Pairs
  <2> QED
    BY <2>2, ConcatProperties DEF Pairs
<1>3. 0 \in T
  <2>1. Tagged(j, << >>) = << >>
    BY <1>2, EmptySeq DEF Pairs
  <2>2. msgs \o << >> = msgs /\ From(k, msgs) \o << >> = From(k, msgs)
    BY <1>1, WithEmpty DEF Pairs
  <2>3. From(k, msgs \o Tagged(j, A(0))) = From(k, msgs)
    BY <1>1, <2>1, <2>2, Zenon
  <2>4. From(k, msgs) \o A(0) = From(k, msgs)
    BY <1>1, <2>2, Zenon
  <2>5. 0 \in 0 .. Len(out)
    BY <1>1
  <2> QED
    BY <2>3, <2>4, <2>5
<1>4. ASSUME NEW n \in 0 .. Len(out) - 1, n \in T PROVE n + 1 \in T
  <2> DEFINE u == A(n)
             m == out[n + 1]
             h == msgs \o Tagged(j, u)
  <2>1. /\ u \in Seq(Messages) /\ m \in Messages /\ A(n + 1) = Append(u, m)
    BY SubSeqGrows
  <2>2. n + 1 \in 0 .. Len(out)
        /\ From(k, h) = IF j = k THEN From(k, msgs) \o u ELSE From(k, msgs)
    BY <1>1, <1>4
  <2> HIDE DEF u, m, A
  <2>3. Tagged(j, Append(u, m)) = Append(Tagged(j, u), << j, m >>)
    <3>1. /\ Append(u, m) \in Seq(Messages) /\ Len(Append(u, m)) = Len(u) + 1
          /\ Len(u) \in Nat /\ Append(u, m)[Len(u) + 1] = m
          /\ \A i \in 1 .. Len(u) : Append(u, m)[i] = u[i]
      BY <2>1
    <3>2. /\ Tagged(j, Append(u, m)) \in Pairs
          /\ Len(Tagged(j, Append(u, m))) = Len(u) + 1
          /\ Tagged(j, u) \in Pairs /\ Len(Tagged(j, u)) = Len(u)
      BY <1>2, <2>1, <3>1
    <3>3. /\ \A i \in 1 .. Len(u) : Tagged(j, u)[i] = << j, u[i] >>
          /\ \A i \in 1 .. Len(u) + 1 :
               Tagged(j, Append(u, m))[i] = << j, Append(u, m)[i] >>
      BY <2>1, <3>1 DEF Tagged
    <3>4. /\ Append(Tagged(j, u), << j, m >>) \in Pairs
          /\ Len(Append(Tagged(j, u), << j, m >>)) = Len(u) + 1
          /\ Append(Tagged(j, u), << j, m >>)[Len(u) + 1] = << j, m >>
          /\ \A i \in 1 .. Len(u) :
               Append(Tagged(j, u), << j, m >>)[i] = Tagged(j, u)[i]
      BY <2>1, <3>2 DEF Pairs
    <3>5. \A i \in 1 .. Len(u) + 1 :
            Tagged(j, Append(u, m))[i] = Append(Tagged(j, u), << j, m >>)[i]
      <4> TAKE i \in 1 .. Len(u) + 1
      <4>1. i \in 1 .. Len(u) \/ i = Len(u) + 1
        BY <3>1
      <4> QED
        BY <3>1, <3>3, <3>4, <4>1
    <3> QED
      BY <3>2, <3>4, <3>5, SeqEqual DEF Pairs
  <2>4. msgs \o Tagged(j, Append(u, m)) = Append(h, << j, m >>) /\ h \in Pairs
    <3>1. Tagged(j, u) \in Pairs /\ << j, m >> \in Conn \X Messages
      BY <1>2, <2>1
    <3>2. msgs \o Append(Tagged(j, u), << j, m >>) = Append(h, << j, m >>)
      BY <3>1, ConcatAppends DEF Pairs
    <3> QED
      BY <1>2, <2>1, <2>3, <3>2
  <2> HIDE DEF h
  <2>5. From(k, Append(h, << j, m >>)) =
          IF j = k THEN Append(From(k, h), m) ELSE From(k, h)
    BY <2>1, <2>4, FromAppends
  <2>6. Append(From(k, msgs) \o u, m) = From(k, msgs) \o Append(u, m)
    <3>1. \A s \in Seq(Messages) : Append(s \o u, m) = s \o Append(u, m)
      BY <2>1, ConcatAppends
    <3> QED
      BY <1>1, <3>1
  <2> QED
    BY <2>1, <2>2, <2>4, <2>5, <2>6
<1> HIDE DEF T
<1>5. \A n \in 0 .. Len(out) : n \in T
  BY <1>1, <1>3, <1>4, Induction
<1>6. Len(out) \in T
  BY <1>1, <1>5
<1>7. From(k, msgs \o Tagged(j, out)) =
        IF j = k THEN From(k, msgs) \o out ELSE From(k, msgs)
  BY <1>1, <1>6 DEF T
<1> QED
  BY <1>2, <1>7

-----------------------------------------------------------------------------
(* The decoder.                                                             *)

\* A header says how long a message is, or that it is none.
LEMMA HeaderIsALength ==
  ASSUME NEW b \in Messages, HasHeader(b)
  PROVE  /\ Len(b) \in Nat /\ PeekInt32(b) \in Nat \cup {-1}
         /\ HasMessage(b) =>
              /\ Message(b) \in Messages /\ Retrieved(b) \in Messages
              /\ Len(Retrieved(b)) = Len(b) - (nHeader + PeekInt32(b))
              /\ nHeader + PeekInt32(b) \in 1 .. Len(b)
<1>1. Len(b) \in Nat /\ 1 \in 1 .. Len(b) /\ nHeader \in Nat \ {0} /\ MaxLen \in Nat
  BY ChatAssumption DEF HasHeader, Messages
<1>2. b[1] \in Byte
  BY <1>1 DEF Messages
<1>3. b[1][2] \in Nat
  BY <1>2 DEF Byte
<1>4. PeekInt32(b) \in Nat \cup {-1}
  BY <1>3 DEF PeekInt32
<1>5. ASSUME HasMessage(b)
      PROVE  /\ Message(b) \in Messages /\ Retrieved(b) \in Messages
             /\ Len(Retrieved(b)) = Len(b) - (nHeader + PeekInt32(b))
             /\ nHeader + PeekInt32(b) \in 1 .. Len(b)
  <2>1. PeekInt32(b) \in 0 .. MaxLen /\ Len(b) >= nHeader + PeekInt32(b)
    BY <1>5 DEF HasMessage, Valid, Complete
  <2> DEFINE n == nHeader + PeekInt32(b)
  <2>2. n \in 1 .. Len(b) /\ nHeader + 1 \in 1 .. n + 1 /\ n + 1 \in 1 .. Len(b) + 1
    BY <1>1, <2>1
  <2> HIDE DEF n
  <2>3. /\ SubSeq(b, nHeader + 1, n) \in Seq(Byte)
        /\ SubSeq(b, n + 1, Len(b)) \in Seq(Byte)
        /\ Len(SubSeq(b, n + 1, Len(b))) = Len(b) - n
    BY <1>1, <2>2 DEF Messages
  <2> QED
    BY <2>2, <2>3 DEF Message, Retrieved, Messages, n
<1> QED
  BY <1>1, <1>4, <1>5

\* The first bytes of two sequences that begin alike.
LEMMA SameElements ==
  ASSUME NEW s \in Messages, NEW r \in Messages,
         NEW e \in Messages, NEW x \in Messages, s \o r = e \o x
  PROVE  \A i \in 1 .. Len(s) : i \in 1 .. Len(e) => s[i] = e[i]
<1> SUFFICES ASSUME NEW i \in 1 .. Len(s), i \in 1 .. Len(e) PROVE s[i] = e[i]
  OBVIOUS
<1>1. (s \o r)[i] = s[i]
  BY DEF Messages
<1>2. (e \o x)[i] = e[i]
  BY DEF Messages
<1> QED
  BY <1>1, <1>2

\* The header at the front of a buffer is that of the next message.
LEMMA HeaderOfNext ==
  ASSUME NEW u \in Seq(Messages), NEW b \in Messages, NEW r \in Messages,
         b \o r = Stream(u), HasHeader(b)
  PROVE  u # << >> /\ PeekInt32(b) = Len(Head(u))
<1>1. Len(b) \in Nat /\ Len(r) \in Nat /\ nHeader \in Nat \ {0} /\ Len(b) >= nHeader
  BY ChatAssumption DEF HasHeader, Messages
<1>2. u # << >>
  <2> SUFFICES ASSUME u = << >> PROVE FALSE
    OBVIOUS
  <2>1. b \o r = << >>
    BY StreamAppends
  <2>2. Len(b \o r) = Len(b) + Len(r)
    BY DEF Messages
  <2> QED
    BY <1>1, <2>1, <2>2
<1> DEFINE m == Head(u)
<1>3. m \in Messages /\ Tail(u) \in Seq(Messages) /\ b \o r = Encode(m) \o Stream(Tail(u))
  BY <1>2, StreamOfHeadAndTail
<1> HIDE DEF m
<1>4. /\ Encode(m) \in Messages /\ Len(Encode(m)) = nHeader + Len(m) /\ Len(m) \in Nat
      /\ \A i \in 1 .. nHeader : Encode(m)[i] = << "length", Len(m) >>
      /\ Stream(Tail(u)) \in Messages
  <2>1. Len(m) \in Nat
    BY <1>3 DEF Messages
  <2> QED
    BY <1>3, <2>1, EncodeBytes, StreamAppends
<1>5. \A i \in 1 .. Len(b) : i \in 1 .. Len(Encode(m)) => b[i] = Encode(m)[i]
  BY <1>3, <1>4, SameElements
<1>6. \A i \in 1 .. nHeader : b[i] = << "length", Len(m) >>
  <2> TAKE i \in 1 .. nHeader
  <2>1. i \in 1 .. Len(b) /\ i \in 1 .. Len(Encode(m))
    BY <1>1, <1>4
  <2> QED
    BY <1>4, <1>5, <2>1
<1>7. b[1] = << "length", Len(m) >>
  BY <1>1, <1>6
<1>8. b[1][2] = Len(m)
  BY <1>7
<1> QED
  BY <1>2, <1>6, <1>8 DEF PeekInt32, m

\* A whole message in the buffer is the next one, and the others remain.
LEMMA MessageIsNext ==
  ASSUME NEW u \in Seq(Messages), NEW b \in Messages, NEW r \in Messages,
         b \o r = Stream(u), HasMessage(b)
  PROVE  /\ u # << >> /\ Message(b) = Head(u) /\ Head(u) \in Messages
         /\ Tail(u) \in Seq(Messages) /\ u = << Head(u) >> \o Tail(u)
         /\ Retrieved(b) \o r = Stream(Tail(u))
<1> DEFINE m == Head(u)
           e == Encode(m)
           x == Stream(Tail(u))
<1>1. u # << >> /\ PeekInt32(b) = Len(m) /\ HasHeader(b)
  BY HeaderOfNext DEF HasMessage
<1>2. /\ m \in Messages /\ Tail(u) \in Seq(Messages) /\ u = << m >> \o Tail(u)
      /\ b \o r = e \o x
  BY <1>1, StreamOfHeadAndTail
<1> HIDE DEF m
<1>3. /\ e \in Messages /\ Len(e) = nHeader + Len(m) /\ x \in Messages
      /\ \A i \in 1 .. Len(m) : e[nHeader + i] = m[i]
  BY <1>2, EncodeBytes, StreamAppends
<1>4. /\ Len(m) \in Nat /\ nHeader \in Nat \ {0} /\ Len(b) \in Nat
      /\ Len(b) >= nHeader + Len(m)
  BY <1>1, <1>2, ChatAssumption DEF HasMessage, Complete, Messages
<1> HIDE DEF e, x
<1>5. \A i \in 1 .. nHeader + Len(m) : b[i] = e[i]
  <2>1. \A i \in 1 .. Len(b) : i \in 1 .. Len(e) => b[i] = e[i]
    BY <1>2, <1>3, SameElements
  <2> QED
    BY <1>3, <1>4, <2>1
<1>6. Message(b) = m
  <2>1. /\ SubSeq(b, nHeader + 1, nHeader + Len(m)) \in Seq(Byte)
        /\ Len(SubSeq(b, nHeader + 1, nHeader + Len(m))) = Len(m)
        /\ \A i \in 1 .. Len(m) :
             SubSeq(b, nHeader + 1, nHeader + Len(m))[i] = b[nHeader + i]
    BY <1>4, Slice DEF Messages
  <2>2. \A i \in 1 .. Len(m) : b[nHeader + i] = m[i]
    <3> TAKE i \in 1 .. Len(m)
    <3>1. nHeader + i \in 1 .. nHeader + Len(m)
      BY <1>4
    <3> QED
      BY <1>3, <1>5, <3>1
  <2>3. SubSeq(b, nHeader + 1, nHeader + Len(m)) = m
    BY <1>2, <2>1, <2>2, SeqEqual DEF Messages
  <2> QED
    BY <1>1, <2>3 DEF Message
<1>7. Retrieved(b) \o r = x
  <2> DEFINE n == nHeader + Len(m)
             y == SubSeq(b, n + 1, Len(b))
  <2>1. n \in 0 .. Len(b) /\ b \in Seq(Byte)
    BY <1>4 DEF Messages
  <2>2. /\ SubSeq(b, 1, n) \in Seq(Byte) /\ Len(SubSeq(b, 1, n)) = n
        /\ y \in Seq(Byte) /\ SubSeq(b, 1, n) \o y = b
    BY <2>1, Halves
  <2>3. SubSeq(b, 1, n) = e
    <3>1. \A i \in 1 .. n : SubSeq(b, 1, n)[i] = b[i]
      BY <2>1
    <3>2. \A i \in 1 .. n : SubSeq(b, 1, n)[i] = e[i]
      BY <1>5, <3>1
    <3>3. e \in Seq(Byte) /\ Len(e) = n
      BY <1>3 DEF Messages
    <3> QED
      BY <2>2, <3>2, <3>3, SeqEqual
  <2>4. Retrieved(b) = y
    BY <1>1 DEF Retrieved
  <2> HIDE DEF n, y
  <2>5. (e \o y) \o r = e \o (y \o r) /\ y \o r \in Messages
    BY <1>3, <2>2, RegroupBytes, ConcatProperties DEF Messages
  <2>6. e \o (y \o r) = e \o x
    BY <1>2, <2>2, <2>3, <2>5
  <2>7. y \o r = x
    BY <1>3, <2>5, <2>6, ConcatSimplifications DEF Messages
  <2> QED
    BY <2>4, <2>7
<1> QED
  BY <1>1, <1>2, <1>6, <1>7 DEF m, x

-----------------------------------------------------------------------------
(* OnMessage.                                                               *)

Decoder == [rest : Messages, out : Seq(Messages)]

Turns(f, b) ==
  f = [n \in 0 .. Len(b) |->
         IF n = 0 THEN [rest |-> b, out |-> << >>] ELSE Turn(f[n - 1])]

LEMMA TurnsExist ==
  ASSUME NEW b \in Messages
  PROVE  \E f : Turns(f, b) /\ OnMessage(b) = f[Len(b)]
<1> DEFINE N == Len(b)
           G == [n \in 1 .. N |-> [d \in Decoder |-> Turn(d)]]
           a == [rest |-> b, out |-> << >>]
<1>1. N \in Nat /\ a \in Decoder
  BY EmptySeq DEF Messages, Decoder
<1>2. G \in [1 .. N -> [Decoder -> Decoder]]
  <2>1. \A d \in Decoder : Turn(d) \in Decoder
    <3> TAKE d \in Decoder
    <3>1. d.rest \in Messages /\ d.out \in Seq(Messages)
      BY DEF Decoder
    <3>2. CASE HasMessage(d.rest)
      <4>1. Message(d.rest) \in Messages /\ Retrieved(d.rest) \in Messages
        BY <3>1, <3>2, HeaderIsALength DEF HasMessage
      <4>2. Append(d.out, Message(d.rest)) \in Seq(Messages)
        BY <3>1, <4>1
      <4> QED
        BY <3>2, <4>1, <4>2 DEF Turn, Decoder
    <3>3. CASE ~HasMessage(d.rest)
      BY <3>3 DEF Turn
    <3> QED
      BY <3>2, <3>3
  <2> QED
    BY <2>1
<1>3. \A n \in 1 .. N, d \in Decoder : G[n][d] = Turn(d)
  OBVIOUS
<1> HIDE DEF G, N, a
<1>4. PICK f : Iterates(f, N, Decoder, a, G)
  BY <1>1, <1>2, Iteration
<1>5. \A n \in 0 .. N : f[n] = IF n = 0 THEN a ELSE Turn(f[n - 1])
  <2> SUFFICES ASSUME NEW n \in 0 .. N, n # 0
               PROVE  f[n] = Turn(f[n - 1])
    BY <1>4 DEF Iterates
  <2>1. n \in 1 .. N /\ n - 1 \in 0 .. N
    BY <1>1
  <2>2. f[n - 1] \in Decoder /\ f[n] = G[n][f[n - 1]]
    BY <1>4, <2>1 DEF Iterates
  <2> QED
    BY <1>3, <2>1, <2>2
<1>6. Turns(f, b)
  <2>1. f \in [0 .. N -> Decoder]
    BY <1>4 DEF Iterates
  <2> QED
    BY <1>5, <2>1 DEF Turns, N, a
<1> DEFINE g == CHOOSE g : Turns(g, b)
<1>7. Turns(g, b)
  BY <1>6
<1>8. OnMessage(b) = g[Len(b)]
  BY DEF OnMessage, Turns
<1> QED
  BY <1>7, <1>8

\* The messages of d and what is left are those of u, which r completes.
Decodes(d, u, r) ==
  /\ d \in Decoder
  /\ \E v \in Seq(Messages) : u = d.out \o v /\ d.rest \o r = Stream(v)

LEMMA TurnDecodes ==
  ASSUME NEW u \in Seq(Messages), NEW r \in Messages, NEW d,
         Decodes(d, u, r), HasMessage(d.rest)
  PROVE  /\ Decodes(Turn(d), u, r)
         /\ Len(Turn(d).rest) \in Nat /\ Len(Turn(d).rest) < Len(d.rest)
<1>1. /\ d.rest \in Messages /\ d.out \in Seq(Messages)
  BY DEF Decodes, Decoder
<1>2. PICK v \in Seq(Messages) : u = d.out \o v /\ d.rest \o r = Stream(v)
  BY DEF Decodes
<1>3. /\ v # << >> /\ Message(d.rest) = Head(v) /\ Head(v) \in Messages
      /\ Tail(v) \in Seq(Messages) /\ v = << Head(v) >> \o Tail(v)
      /\ Retrieved(d.rest) \o r = Stream(Tail(v))
  BY <1>1, <1>2, MessageIsNext
<1> DEFINE m == Head(v)
           w == Tail(v)
<1>4. /\ Turn(d) = [rest |-> Retrieved(d.rest), out |-> Append(d.out, m)]
      /\ Retrieved(d.rest) \in Messages
  BY <1>1, <1>3, HeaderIsALength DEF Turn, HasMessage
<1> HIDE DEF m, w
<1>5. Append(d.out, m) \in Seq(Messages) /\ m \in Messages
  BY <1>1, <1>3 DEF m
<1>6. Append(d.out, m) \o w = u
  <2>1. << m >> \in Seq(Messages) /\ w \in Seq(Messages) /\ v = << m >> \o w
    BY <1>3 DEF m, w
  <2>2. Append(d.out, m) = d.out \o << m >>
    BY <1>1, <1>5, AppendIsConcat
  <2>3. (d.out \o << m >>) \o w = d.out \o (<< m >> \o w)
    <3>1. ASSUME NEW x \in Seq(Messages), NEW y \in Seq(Messages)
          PROVE  (x \o y) \o w = x \o (y \o w)
      BY <2>1, RegroupMessages
    <3> QED
      BY <1>1, <2>1, <3>1
  <2> QED
    BY <1>2, <2>1, <2>2, <2>3
<1>7. Decodes(Turn(d), u, r)
  <2>1. w \in Seq(Messages) /\ Retrieved(d.rest) \o r = Stream(w)
    BY <1>3 DEF w
  <2>2. Turn(d) \in Decoder /\ Turn(d).out = Append(d.out, m) /\ Turn(d).rest = Retrieved(d.rest)
    BY <1>4, <1>5 DEF Decoder
  <2> QED
    BY <1>6, <2>1, <2>2 DEF Decodes
<1>8. Len(Retrieved(d.rest)) \in Nat /\ Len(Retrieved(d.rest)) < Len(d.rest)
  <2>1. /\ Len(d.rest) \in Nat
        /\ Len(Retrieved(d.rest)) = Len(d.rest) - (nHeader + PeekInt32(d.rest))
        /\ nHeader + PeekInt32(d.rest) \in 1 .. Len(d.rest)
    BY <1>1, HeaderIsALength DEF HasMessage
  <2> QED
    BY <2>1
<1>9. Turn(d).rest = Retrieved(d.rest)
  BY <1>4
<1> QED
  BY <1>7, <1>8, <1>9

\* onMessage takes every whole message out of the buffer, in order, and leaves
\* the bytes that follow.
LEMMA OnMessageDecodes ==
  ASSUME NEW u \in Seq(Messages), NEW b \in Messages, NEW r \in Messages,
         b \o r = Stream(u)
  PROVE  Decodes(OnMessage(b), u, r) /\ ~HasMessage(OnMessage(b).rest)
<1>1. PICK f : Turns(f, b) /\ OnMessage(b) = f[Len(b)]
  BY TurnsExist
<1> DEFINE N == Len(b)
           T == {n \in 0 .. N :
                   /\ Decodes(f[n], u, r)
                   /\ HasMessage(f[n].rest) => Len(f[n].rest) <= N - n}
<1>2. /\ N \in Nat
      /\ \A n \in 0 .. N :
           f[n] = IF n = 0 THEN [rest |-> b, out |-> << >>] ELSE Turn(f[n - 1])
  <2>1. N \in Nat
    BY DEF Messages
  <2>2. f = [n \in 0 .. N |->
               IF n = 0 THEN [rest |-> b, out |-> << >>] ELSE Turn(f[n - 1])]
    BY <1>1 DEF Turns
  <2> HIDE DEF N, T
  <2>3. \A n \in 0 .. N :
          f[n] = IF n = 0 THEN [rest |-> b, out |-> << >>] ELSE Turn(f[n - 1])
    BY <2>2
  <2> QED
    BY <2>1, <2>3
<1>3. 0 \in T
  <2>1. f[0] = [rest |-> b, out |-> << >>] /\ 0 \in 0 .. N
    BY <1>2
  <2>2. << >> \in Seq(Messages) /\ u = << >> \o u
    BY WithEmpty
  <2>3. f[0] \in Decoder /\ f[0].rest = b /\ f[0].out = << >>
    BY <2>1, <2>2 DEF Decoder
  <2>4. Decodes(f[0], u, r)
    BY <2>2, <2>3 DEF Decodes
  <2>5. Len(f[0].rest) <= N - 0
    BY <1>2, <2>3
  <2> QED
    BY <2>1, <2>4, <2>5
<1>4. ASSUME NEW n \in 0 .. N - 1, n \in T PROVE n + 1 \in T
  <2>1. n + 1 \in 0 .. N /\ n + 1 # 0 /\ (n + 1) - 1 = n /\ n \in Nat
    BY <1>2
  <2>2. /\ f[n + 1] = Turn(f[n]) /\ Decodes(f[n], u, r)
        /\ HasMessage(f[n].rest) => Len(f[n].rest) <= N - n
    BY <1>2, <1>4, <2>1
  <2>3. CASE HasMessage(f[n].rest)
    <3>1. /\ Decodes(f[n + 1], u, r)
          /\ Len(f[n + 1].rest) \in Nat /\ Len(f[n + 1].rest) < Len(f[n].rest)
      BY <2>2, <2>3, TurnDecodes
    <3>2. Len(f[n].rest) \in Nat /\ Len(f[n].rest) <= N - n
      BY <2>2, <2>3 DEF Decodes, Decoder, Messages
    <3>3. Len(f[n + 1].rest) <= N - (n + 1)
      BY <1>2, <2>1, <3>1, <3>2
    <3> QED
      BY <2>1, <3>1, <3>3
  <2>4. CASE ~HasMessage(f[n].rest)
    <3>1. f[n + 1] = f[n]
      BY <2>2, <2>4 DEF Turn
    <3> QED
      BY <2>1, <2>2, <2>4, <3>1
  <2> QED
    BY <2>3, <2>4
<1> HIDE DEF T, N
<1>5. \A n \in 0 .. N : n \in T
  BY <1>2, <1>3, <1>4, Induction
<1>6. N \in T
  BY <1>2, <1>5
<1>7. Decodes(f[N], u, r) /\ (HasMessage(f[N].rest) => Len(f[N].rest) <= N - N)
  BY <1>6 DEF T
<1>8. ~HasMessage(f[N].rest)
  <2> SUFFICES ASSUME HasMessage(f[N].rest) PROVE FALSE
    OBVIOUS
  <2>1. f[N].rest \in Messages
    BY <1>7 DEF Decodes, Decoder
  <2>2. Len(f[N].rest) \in Nat /\ Len(f[N].rest) >= nHeader
    BY <2>1 DEF HasMessage, HasHeader, Messages
  <2>3. N - N = 0 /\ nHeader \in Nat \ {0}
    BY <1>2, ChatAssumption
  <2>4. Len(f[N].rest) <= 0
    BY <1>7, <2>3
  <2> QED
    BY <2>2, <2>3, <2>4
<1> QED
  BY <1>1, <1>7, <1>8 DEF N

-----------------------------------------------------------------------------
(* Messages under way.                                                      *)

\* Of the messages s those of u follow on h, and the bytes q on b.
Continues(h, b, s, u, q) == s = h \o u /\ b \o q = Stream(u)

LEMMA UnderwayIs ==
  ASSUME NEW h \in Seq(Messages), NEW s \in Seq(Messages), NEW b \in Messages
  PROVE  /\ Underway(h, b, s) <=>
              \E u \in Seq(Messages), q \in Messages : Continues(h, b, s, u, q)
         /\ AllThere(h, b, s) <=>
              \E u \in Seq(Messages) : Continues(h, b, s, u, << >>)
<1>1. ASSUME NEW u \in Seq(Messages), s = h \o u
      PROVE  IsPrefix(h, s) /\ After(h, s) = u
  BY <1>1, AfterConcat
<1>2. ASSUME NEW u \in Seq(Messages), NEW q \in Messages, b \o q = Stream(u)
      PROVE  IsPrefix(b, Stream(u))
  <2>1. b \in Seq(Byte) /\ q \in Seq(Byte)
    BY DEF Messages
  <2>2. IsPrefix(b, b \o q)
    BY <2>1, AfterConcat
  <2> QED
    BY <1>2, <2>2
<1>3. IsPrefix(h, s) => After(h, s) \in Seq(Messages) /\ s = h \o After(h, s)
  BY PrefixHasRest
<1> DEFINE w == After(h, s)
<1>4. ASSUME Underway(h, b, s)
      PROVE  \E u \in Seq(Messages), q \in Messages : Continues(h, b, s, u, q)
  <2>1. w \in Seq(Messages) /\ s = h \o w /\ IsPrefix(b, Stream(w))
    BY <1>3, <1>4 DEF Underway
  <2>2. Stream(w) \in Seq(Byte) /\ b \in Seq(Byte)
    BY <2>1, StreamAppends DEF Messages
  <2> HIDE DEF w
  <2>3. PICK q \in Seq(Byte) : Stream(w) = b \o q
    <3> DEFINE x == Stream(w)
    <3>1. x \in Seq(Byte) /\ IsPrefix(b, x)
      BY <2>1, <2>2
    <3> HIDE DEF x
    <3>2. After(b, x) \in Seq(Byte) /\ x = b \o After(b, x)
      BY <2>2, <3>1, PrefixHasRest
    <3> QED
      BY <3>2 DEF x
  <2>4. Continues(h, b, s, w, q) /\ q \in Messages
    BY <2>1, <2>3 DEF Continues, Messages
  <2> QED
    BY <2>1, <2>4
<1>5. ASSUME NEW u \in Seq(Messages), NEW q \in Messages, Continues(h, b, s, u, q)
      PROVE  Underway(h, b, s)
  <2>1. s = h \o u /\ b \o q = Stream(u)
    BY <1>5 DEF Continues
  <2>2. IsPrefix(h, s) /\ After(h, s) = u /\ IsPrefix(b, Stream(u))
    BY <1>1, <1>2, <2>1
  <2> QED
    BY <2>2 DEF Underway
<1>6. b \o << >> = b /\ << >> \in Messages
  BY WithEmpty DEF Messages
<1>7. ASSUME NEW u \in Seq(Messages), Continues(h, b, s, u, << >>)
      PROVE  AllThere(h, b, s)
  <2>1. s = h \o u /\ b = Stream(u)
    BY <1>6, <1>7 DEF Continues
  <2>2. After(h, s) = u /\ Underway(h, b, s)
    BY <1>1, <1>5, <1>6, <1>7, <2>1
  <2> QED
    BY <2>1, <2>2 DEF AllThere
<1>8. ASSUME AllThere(h, b, s)
      PROVE  \E u \in Seq(Messages) : Continues(h, b, s, u, << >>)
  <2>1. w \in Seq(Messages) /\ s = h \o w /\ b = Stream(w)
    BY <1>3, <1>8 DEF AllThere, Underway
  <2> HIDE DEF w
  <2>2. Continues(h, b, s, w, << >>)
    BY <1>6, <2>1 DEF Continues
  <2> QED
    BY <2>1, <2>2
<1> QED
  BY <1>4, <1>5, <1>7, <1>8

\* The last bytes get lost.
LEMMA UnderwayLess ==
  ASSUME NEW h \in Seq(Messages), NEW s \in Seq(Messages),
         NEW b \in Messages, NEW c \in Messages, Underway(h, b \o c, s)
  PROVE  Underway(h, b, s)
<1>1. b \o c \in Messages
  BY ConcatProperties DEF Messages
<1>2. PICK u \in Seq(Messages), q \in Messages : Continues(h, b \o c, s, u, q)
  BY <1>1, UnderwayIs
<1>3. c \o q \in Messages
  BY ConcatProperties DEF Messages
<1>4. Continues(h, b, s, u, c \o q)
  <2>1. (b \o c) \o q = b \o (c \o q)
    BY RegroupBytes
  <2> QED
    BY <1>2, <2>1 DEF Continues
<1> QED
  BY <1>3, <1>4, UnderwayIs

\* More messages follow, with their bytes or without.
LEMMA UnderwayMore ==
  ASSUME NEW h \in Seq(Messages), NEW s \in Seq(Messages), NEW b \in Messages,
         NEW m \in Seq(Messages)
  PROVE  /\ Underway(h, b, s) => Underway(h, b, s \o m)
         /\ AllThere(h, b, s) => AllThere(h, b \o Stream(m), s \o m)
<1>1. Stream(m) \in Messages /\ s \o m \in Seq(Messages) /\ b \o Stream(m) \in Messages
  <2>1. Stream(m) \in Messages
    BY StreamAppends
  <2> QED
    BY <2>1, ConcatProperties DEF Messages
<1>2. ASSUME NEW u \in Seq(Messages), s = h \o u
      PROVE  /\ u \o m \in Seq(Messages) /\ s \o m = h \o (u \o m)
             /\ Stream(u \o m) = Stream(u) \o Stream(m)
  <2>1. (h \o u) \o m = h \o (u \o m)
    BY RegroupMessages
  <2>2. u \o m \in Seq(Messages)
    BY ConcatProperties
  <2> QED
    BY <1>2, <2>1, <2>2, StreamConcat
<1>3. ASSUME NEW u \in Seq(Messages), NEW q \in Messages, Continues(h, b, s, u, q)
      PROVE  q \o Stream(m) \in Messages /\ Continues(h, b, s \o m, u \o m, q \o Stream(m))
  <2>1. s \o m = h \o (u \o m) /\ Stream(u \o m) = Stream(u) \o Stream(m)
    BY <1>2, <1>3 DEF Continues
  <2>2. Stream(u) = b \o q
    BY <1>3 DEF Continues
  <2>3. (b \o q) \o Stream(m) = b \o (q \o Stream(m))
    BY <1>1, RegroupBytes
  <2>4. q \o Stream(m) \in Messages
    BY <1>1, ConcatProperties DEF Messages
  <2> QED
    BY <2>1, <2>2, <2>3, <2>4 DEF Continues
<1>4. ASSUME NEW u \in Seq(Messages), Continues(h, b, s, u, << >>)
      PROVE  Continues(h, b \o Stream(m), s \o m, u \o m, << >>)
  <2>1. s \o m = h \o (u \o m) /\ Stream(u \o m) = Stream(u) \o Stream(m)
    BY <1>2, <1>4 DEF Continues
  <2>2. b \o << >> = b /\ (b \o Stream(m)) \o << >> = b \o Stream(m)
    BY <1>1, WithEmpty DEF Messages
  <2>3. Stream(u) = b
    BY <1>4, <2>2 DEF Continues
  <2> QED
    BY <2>1, <2>2, <2>3 DEF Continues
<1>5. \A u \in Seq(Messages) : u \o m \in Seq(Messages)
  BY ConcatProperties
<1>6. ASSUME Underway(h, b, s) PROVE Underway(h, b, s \o m)
  <2>1. PICK u \in Seq(Messages), q \in Messages : Continues(h, b, s, u, q)
    BY <1>6, UnderwayIs
  <2>2. /\ u \o m \in Seq(Messages) /\ q \o Stream(m) \in Messages
        /\ Continues(h, b, s \o m, u \o m, q \o Stream(m))
    BY <1>3, <1>5, <2>1
  <2> HIDE DEF Continues
  <2> QED
    BY <1>1, <2>2, UnderwayIs
<1>7. AllThere(h, b, s) => AllThere(h, b \o Stream(m), s \o m)
  BY <1>1, <1>4, <1>5, UnderwayIs
<1> QED
  BY <1>6, <1>7

\* A codec gets the first n of the bytes t.
LEMMA Reading ==
  ASSUME NEW h \in Seq(Messages), NEW s \in Seq(Messages),
         NEW a \in Messages, NEW t \in Messages, NEW n \in 0 .. Len(t),
         Underway(h, a \o t, s), NEW d, d = OnMessage(a \o SubSeq(t, 1, n))
  PROVE  LET c == SubSeq(t, n + 1, Len(t))
         IN  /\ d \in Decoder /\ ~HasMessage(d.rest)
             /\ h \o d.out \in Seq(Messages) /\ c \in Messages
             /\ Underway(h \o d.out, d.rest \o c, s)
             /\ AllThere(h, a \o t, s) => AllThere(h \o d.out, d.rest \o c, s)
<1> DEFINE b == a \o SubSeq(t, 1, n)
           c == SubSeq(t, n + 1, Len(t))
<1>1. b \in Messages /\ c \in Messages /\ b \o c = a \o t /\ a \o t \in Messages
  <2>1. /\ SubSeq(t, 1, n) \in Messages /\ c \in Messages
        /\ SubSeq(t, 1, n) \o c = t
    BY Halves DEF Messages
  <2>2. b \in Messages /\ a \o t \in Messages
    BY <2>1, ConcatProperties DEF Messages
  <2> DEFINE p == SubSeq(t, 1, n)
  <2> HIDE DEF p, c
  <2>3. (a \o p) \o c = a \o (p \o c)
    BY <2>1, RegroupBytes DEF p
  <2> QED
    BY <2>1, <2>2, <2>3 DEF p
<1>2. d = OnMessage(b)
  OBVIOUS
<1> HIDE DEF b, c
<1>3. ASSUME NEW u \in Seq(Messages), NEW q \in Messages, Continues(h, a \o t, s, u, q)
      PROVE  /\ d \in Decoder /\ ~HasMessage(d.rest)
             /\ h \o d.out \in Seq(Messages) /\ d.rest \o c \in Messages
             /\ \E v \in Seq(Messages) : Continues(h \o d.out, d.rest \o c, s, v, q)
  <2>1. c \o q \in Messages /\ (b \o c) \o q = b \o (c \o q)
    <3>1. c \o q \in Messages
      BY <1>1, ConcatProperties DEF Messages
    <3>2. (b \o c) \o q = b \o (c \o q)
      BY <1>1, RegroupBytes, Zenon
    <3> QED
      BY <3>1, <3>2
  <2>2. s = h \o u /\ b \o (c \o q) = Stream(u)
    BY <1>1, <1>3, <2>1 DEF Continues
  <2>3. Decodes(d, u, c \o q) /\ ~HasMessage(d.rest)
    BY <1>1, <1>2, <2>1, <2>2, OnMessageDecodes
  <2>4. d \in Decoder /\ d.out \in Seq(Messages) /\ d.rest \in Messages
    BY <2>3 DEF Decodes, Decoder
  <2>5. PICK v \in Seq(Messages) : u = d.out \o v /\ d.rest \o (c \o q) = Stream(v)
    BY <2>3 DEF Decodes
  <2>6. (h \o d.out) \o v = h \o (d.out \o v)
    BY <2>4, RegroupMessages
  <2>7. (d.rest \o c) \o q = d.rest \o (c \o q)
    <3>1. ASSUME NEW e \in Messages PROVE (e \o c) \o q = e \o (c \o q)
      BY <1>1, RegroupBytes, Zenon
    <3> QED
      BY <2>4, <3>1
  <2>8. Continues(h \o d.out, d.rest \o c, s, v, q)
    BY <2>2, <2>5, <2>6, <2>7 DEF Continues
  <2>9. h \o d.out \in Seq(Messages) /\ d.rest \o c \in Messages
    BY <1>1, <2>4, ConcatProperties DEF Messages
  <2> QED
    BY <2>3, <2>4, <2>8, <2>9
<1>4. PICK u \in Seq(Messages), q \in Messages : Continues(h, a \o t, s, u, q)
  BY <1>1, UnderwayIs
<1>5. /\ d \in Decoder /\ ~HasMessage(d.rest)
      /\ h \o d.out \in Seq(Messages) /\ d.rest \o c \in Messages
  BY <1>3, <1>4
<1>6. Underway(h \o d.out, d.rest \o c, s)
  <2>1. PICK v \in Seq(Messages) : Continues(h \o d.out, d.rest \o c, s, v, q)
    BY <1>3, <1>4
  <2> QED
    BY <1>5, <2>1, UnderwayIs
<1>7. ASSUME AllThere(h, a \o t, s) PROVE AllThere(h \o d.out, d.rest \o c, s)
  <2>1. PICK x \in Seq(Messages) : Continues(h, a \o t, s, x, << >>)
    BY <1>1, <1>7, UnderwayIs
  <2>2. << >> \in Messages
    BY EmptySeq DEF Messages
  <2>3. \E w \in Seq(Messages) : Continues(h \o d.out, d.rest \o c, s, w, << >>)
    BY <1>3, <2>1, <2>2
  <2> QED
    BY <1>5, <2>3, UnderwayIs
<1> QED
  BY <1>1, <1>5, <1>6, <1>7 DEF c

\* A buffer that holds a message, and all of it, is not done with.
LEMMA NoneLeft ==
  ASSUME NEW h \in Seq(Messages), NEW s \in Seq(Messages), NEW b \in Messages,
         AllThere(h, b, s), ~HasMessage(b), ~Invalid(b)
  PROVE  h = s
<1>1. PICK u \in Seq(Messages) : Continues(h, b, s, u, << >>)
  BY UnderwayIs
<1>2. s = h \o u /\ b \o << >> = Stream(u) /\ b \o << >> = b /\ << >> \in Messages
  BY <1>1, WithEmpty DEF Continues, Messages
<1>3. CASE u = << >>
  BY <1>2, <1>3, WithEmpty
<1>4. CASE u # << >>
  <2>1. /\ Head(u) \in Messages /\ Tail(u) \in Seq(Messages)
        /\ b = Encode(Head(u)) \o Stream(Tail(u))
    BY <1>2, <1>4, StreamOfHeadAndTail
  <2>2. /\ Encode(Head(u)) \in Messages /\ Stream(Tail(u)) \in Messages
        /\ Len(Encode(Head(u))) = nHeader + Len(Head(u))
    BY <2>1, EncodeBytes, StreamAppends
  <2>3. Len(Head(u)) \in Nat /\ nHeader \in Nat
    BY <2>1, ChatAssumption DEF Messages
  <2>4. Len(b) \in Nat /\ Len(b) >= nHeader + Len(Head(u))
    <3>1. Len(b) = Len(Encode(Head(u))) + Len(Stream(Tail(u)))
      BY <2>1, <2>2, ConcatProperties DEF Messages
    <3>2. Len(Stream(Tail(u))) \in Nat
      BY <2>2 DEF Messages
    <3> QED
      BY <2>2, <2>3, <3>1, <3>2
  <2>5. HasHeader(b)
    BY <2>3, <2>4 DEF HasHeader
  <2>6. PeekInt32(b) = Len(Head(u))
    BY <1>2, <2>5, HeaderOfNext
  <2>7. Complete(b)
    BY <2>4, <2>6 DEF Complete
  <2> QED
    BY <2>5, <2>7 DEF HasMessage, Invalid
<1> QED
  BY <1>3, <1>4

\* What is cut off at the end was the end.
LEMMA UnderwayCut ==
  ASSUME NEW h \in Seq(Messages), NEW s \in Seq(Messages),
         NEW a \in Messages, NEW t \in Messages, Underway(h, a \o t, s)
  PROVE  /\ \A n \in 0 .. Len(t) : Underway(h, a \o SubSeq(t, 1, n), s)
         /\ Underway(h, a \o << >>, s) /\ Underway(h, << >> \o << >>, s)
<1>1. /\ a \o << >> = a /\ << >> \o << >> = << >> /\ << >> \in Messages
      /\ << >> \o (a \o t) = a \o t /\ a \o t \in Messages
  BY WithEmpty, ConcatProperties DEF Messages
<1>2. ASSUME NEW n \in 0 .. Len(t)
      PROVE  Underway(h, a \o SubSeq(t, 1, n), s)
  <2> DEFINE p == SubSeq(t, 1, n)
             q == SubSeq(t, n + 1, Len(t))
  <2>1. p \in Messages /\ q \in Messages /\ p \o q = t
    BY Halves DEF Messages
  <2> HIDE DEF p, q
  <2>2. (a \o p) \o q = a \o t /\ a \o p \in Messages
    BY <2>1, RegroupBytes, ConcatProperties DEF Messages
  <2>3. Underway(h, (a \o p) \o q, s)
    BY <2>2
  <2>4. Underway(h, a \o p, s)
    BY <2>1, <2>2, <2>3, UnderwayLess
  <2> QED
    BY <2>4 DEF p
<1>3. Underway(h, a \o << >>, s)
  BY <1>1, UnderwayLess
<1>4. Underway(h, << >>, s)
  <2>1. Underway(h, << >> \o (a \o t), s)
    BY <1>1
  <2> QED
    BY <1>1, <2>1, UnderwayLess
<1> QED
  BY <1>1, <1>2, <1>3, <1>4

LEMMA NothingUnderway ==
  /\ AllThere(<< >>, << >> \o << >>, << >>)
  /\ ~HasMessage(<< >>) /\ ~Invalid(<< >>)
<1>1. << >> \in Seq(Messages) /\ << >> \in Messages /\ << >> \o << >> = << >>
      /\ Stream(<< >>) = << >>
  BY EmptySeq, WithEmpty, StreamAppends DEF Messages
<1>2. Continues(<< >>, << >>, << >>, << >>, << >>)
  BY <1>1 DEF Continues
<1>3. AllThere(<< >>, << >>, << >>)
  BY <1>1, <1>2, UnderwayIs
<1>4. ~HasHeader(<< >>)
  BY ChatAssumption DEF HasHeader
<1> QED
  BY <1>1, <1>3, <1>4 DEF HasMessage, Invalid

-----------------------------------------------------------------------------
(* The invariant, one lemma for each action.                                *)

LEMMA Types ==
  ASSUME Inv
  PROVE  /\ /\ toServer \in [Conn -> Messages] /\ inServer \in [Conn -> Messages]
            /\ toClient \in [Conn -> Messages] /\ inClient \in [Conn -> Messages]
         /\ log \in Pairs /\ Len(log) \in Nat
         /\ \A k \in Conn :
              /\ sent[k] \in Seq(Messages) /\ printed[k] \in Seq(Messages)
              /\ Heard(k) \in Seq(Messages) /\ Since(k) \in Seq(Messages)
              /\ joined[k] \in 0 .. Len(log)
<1>1. TypeOK /\ HistoryTypes
  BY DEF Inv
<1>2. log \in Pairs /\ Len(log) \in Nat /\ \A k \in Conn : joined[k] \in 0 .. Len(log)
  BY <1>1 DEF TypeOK, HistoryTypes, Pairs
<1>3. ASSUME NEW k \in Conn
      PROVE  Heard(k) \in Seq(Messages) /\ Since(k) \in Seq(Messages)
  <2>1. Heard(k) \in Seq(Messages)
    BY <1>2, FromAppends DEF Heard
  <2>2. /\ Len(log) - joined[k] \in Nat
        /\ \A i \in 1 .. Len(log) - joined[k] :
             joined[k] + i \in 1 .. Len(log)
    BY <1>2
  <2>3. \A i \in 1 .. Len(log) : log[i][2] \in Messages
    BY <1>2 DEF Pairs
  <2>4. Since(k) \in Seq(Messages)
    BY <2>2, <2>3 DEF Since
  <2> QED
    BY <2>1, <2>4
<1>4. \A k \in Conn : sent[k] \in Seq(Messages) /\ printed[k] \in Seq(Messages)
  BY <1>1 DEF HistoryTypes
<1>5. /\ toServer \in [Conn -> Messages] /\ inServer \in [Conn -> Messages]
      /\ toClient \in [Conn -> Messages] /\ inClient \in [Conn -> Messages]
  BY <1>1 DEF TypeOK, Messages
<1> QED
  BY <1>2, <1>3, <1>4, <1>5

LEMMA InitInv == Init => Inv
<1> SUFFICES ASSUME Init PROVE Inv
  OBVIOUS
<1>1. << >> \in Messages /\ << >> \in Seq(Messages) /\ << >> \in Seq(Conn \X Messages)
  BY EmptySeq DEF Messages
<1>2. /\ toServer = [k \in Conn |-> << >>] /\ inServer = [k \in Conn |-> << >>]
      /\ toClient = [k \in Conn |-> << >>] /\ inClient = [k \in Conn |-> << >>]
      /\ sent = [k \in Conn |-> << >>] /\ printed = [k \in Conn |-> << >>]
      /\ log = << >> /\ joined = [k \in Conn |-> 0] /\ Len(log) = 0
      /\ client = [k \in Conn |-> "new"] /\ server = [k \in Conn |-> "new"]
  BY DEF Init
<1>3. TypeOK
  <2>1. \A s \in {toServer, inServer, toClient, inClient} : s \in [Conn -> Seq(Byte)]
    BY <1>1, <1>2 DEF Messages
  <2>2. joined \in [Conn -> 0 .. Len(log)]
    BY <1>2
  <2>3. /\ cut \subseteq Conn /\ quit \subseteq Client /\ input \in [Client -> Seq(Line)]
        /\ writing \in [Client -> {<< >>} \cup (Conn \X Line)] /\ failed \in BOOLEAN
    BY ChatAssumption DEF Init
  <2>4. /\ client \in [Conn -> Up \cup {"new", "disconnected"}]
        /\ server \in [Conn -> Up \cup {"new", "disconnected"}]
    BY <1>2
  <2> QED
    BY <2>1, <2>2, <2>3, <2>4 DEF TypeOK
<1>4. HistoryTypes
  BY <1>1, <1>2 DEF HistoryTypes
<1>5. ASSUME NEW k \in Conn
      PROVE  ServerSideOf(k) /\ ClientSideOf(k) /\ DecodedOf(k) /\ FitOf(k)
  <2>1. /\ Heard(k) = << >> /\ sent[k] = << >> /\ printed[k] = << >>
        /\ inServer[k] = << >> /\ toServer[k] = << >>
        /\ inClient[k] = << >> /\ toClient[k] = << >>
        /\ client[k] = "new" /\ server[k] = "new"
    BY <1>2, FromAppends DEF Heard
  <2>2. Since(k) = << >>
    <3>1. Len(log) - joined[k] = 0
      BY <1>2
    <3> QED
      BY <3>1 DEF Since
  <2>3. ServerSideOf(k) /\ ClientSideOf(k)
    BY <2>1, <2>2, NothingUnderway DEF ServerSideOf, ClientSideOf, AllThere
  <2>4. DecodedOf(k) /\ FitOf(k)
    BY <2>1, NothingUnderway DEF DecodedOf, FitOf
  <2> QED
    BY <2>3, <2>4
<1> QED
  BY <1>3, <1>4, <1>5 DEF Inv, ServerSide, ClientSide, BuffersAreDecoded, StatesFit

\* What an action leaves alone is as it was.
LEMMA SameServerSide ==
  ASSUME Inv, NEW k \in Conn, log' = log, sent'[k] = sent[k],
         inServer'[k] = inServer[k], toServer'[k] = toServer[k], cut \subseteq cut',
         server'[k] # "disconnected" => server[k] # "disconnected"
  PROVE  ServerSideOf(k)'
<1>1. ServerSideOf(k) /\ Heard(k)' = Heard(k)
  BY DEF Inv, ServerSide, Heard
<1> QED
  BY <1>1 DEF ServerSideOf

LEMMA SameClientSide ==
  ASSUME Inv, NEW k \in Conn, log' = log, joined'[k] = joined[k],
         printed'[k] = printed[k], cut \subseteq cut',
         inClient'[k] = inClient[k], toClient'[k] = toClient[k],
         server'[k] = "connected" => server[k] = "connected"
  PROVE  ClientSideOf(k)'
<1>1. ClientSideOf(k) /\ Since(k)' = Since(k)
  BY DEF Inv, ClientSide, Since
<1> QED
  BY <1>1 DEF ClientSideOf

\* The parts of Inv, to put together again.
LEMMA InvParts ==
  /\ Inv => /\ TypeOK /\ HistoryTypes
            /\ \A k \in Conn :
                 ServerSideOf(k) /\ ClientSideOf(k) /\ DecodedOf(k) /\ FitOf(k)
  /\ TypeOK' /\ HistoryTypes'
     /\ (\A k \in Conn :
           ServerSideOf(k)' /\ ClientSideOf(k)' /\ DecodedOf(k)' /\ FitOf(k)')
     => Inv'
BY DEF Inv, ServerSide, ClientSide, BuffersAreDecoded, StatesFit

LEMMA ConnectInv ==
  ASSUME Inv, NEW c \in Conn, Connect(c)
  PROVE  Inv'
<1>1. /\ TypeOK /\ HistoryTypes
      /\ \A k \in Conn :
           ServerSideOf(k) /\ ClientSideOf(k) /\ DecodedOf(k) /\ FitOf(k)
  BY InvParts
<1>2. /\ client[c] = "new" /\ client' = [client EXCEPT ![c] = "connected"]
      /\ UNCHANGED << server, cut, quit, writing, input, toServer, inServer,
                      toClient, inClient, sent, log, joined, printed, failed >>
  BY DEF Connect, streams, history
<1>3. TypeOK' /\ HistoryTypes'
  BY <1>1, <1>2 DEF TypeOK, HistoryTypes, Up
<1>4. ASSUME NEW k \in Conn
      PROVE  ServerSideOf(k)' /\ ClientSideOf(k)' /\ DecodedOf(k)' /\ FitOf(k)'
  <2>1. ServerSideOf(k)' /\ ClientSideOf(k)'
    BY <1>2, SameServerSide, SameClientSide
  <2>2. DecodedOf(k) /\ FitOf(k) /\ (k # c => client'[k] = client[k])
        /\ (k = c => client[k] = "new" /\ client'[k] = "connected")
    BY <1>1, <1>2 DEF TypeOK
  <2>3. k = c => server[k] = "new" /\ inClient[k] = << >> /\ ~Invalid(inClient[k])
    BY <2>2, NothingUnderway DEF FitOf
  <2>4. DecodedOf(k)' /\ FitOf(k)'
    BY <1>2, <2>2, <2>3 DEF DecodedOf, FitOf
  <2> QED
    BY <2>1, <2>4
<1> QED
  BY <1>3, <1>4, InvParts

LEMMA ServerUpInv ==
  ASSUME Inv, NEW c \in Conn, ServerUp(c)
  PROVE  Inv'
<1>1. /\ TypeOK /\ HistoryTypes
      /\ \A k \in Conn :
           ServerSideOf(k) /\ ClientSideOf(k) /\ DecodedOf(k) /\ FitOf(k)
  BY InvParts
<1>2. /\ server[c] = "new" /\ client[c] # "new"
      /\ server' = [server EXCEPT ![c] = "connected"]
      /\ joined' = [joined EXCEPT ![c] = Len(log)]
      /\ UNCHANGED << client, cut, quit, writing, input, toServer, inServer,
                      toClient, inClient, sent, log, printed, failed >>
  BY DEF ServerUp, streams
<1>3. TypeOK' /\ HistoryTypes'
  <2>1. Len(log) \in 0 .. Len(log)
    BY Types
  <2>2. joined' \in [Conn -> 0 .. Len(log')]
    BY <1>1, <1>2, <2>1 DEF TypeOK
  <2> QED
    BY <1>1, <1>2, <2>2 DEF TypeOK, HistoryTypes, Up
<1>4. ASSUME NEW k \in Conn
      PROVE  ServerSideOf(k)' /\ ClientSideOf(k)' /\ DecodedOf(k)' /\ FitOf(k)'
  <2>1. /\ k # c => server'[k] = server[k] /\ joined'[k] = joined[k]
        /\ k = c => server'[k] = "connected" /\ joined'[k] = Len(log)
        /\ DecodedOf(k) /\ FitOf(k)
    BY <1>1, <1>2 DEF TypeOK
  <2>2. ServerSideOf(k)'
    BY <1>2, <2>1, SameServerSide
  <2>3. ClientSideOf(k)'
    <3>1. CASE k # c
      BY <1>2, <2>1, <3>1, SameClientSide
    <3>2. CASE k = c
      <4>1. printed'[k] = << >> /\ inClient'[k] = << >> /\ toClient'[k] = << >>
        BY <1>2, <2>1, <3>2 DEF FitOf
      <4>2. Len(log') - joined'[k] = 0
        BY <1>2, <2>1, <3>2, Types
      <4>3. Since(k)' = << >>
        BY <4>2 DEF Since
      <4> QED
        BY <4>1, <4>3, NothingUnderway DEF ClientSideOf, AllThere
    <3> QED
      BY <3>1, <3>2
  <2>4. k = c => ~Invalid(inServer[k])
    BY <1>2, <2>1, NothingUnderway DEF FitOf
  <2>5. DecodedOf(k)' /\ FitOf(k)'
    BY <1>2, <2>1, <2>4 DEF DecodedOf, FitOf
  <2> QED
    BY <2>2, <2>3, <2>5
<1> QED
  BY <1>3, <1>4, InvParts

LEMMA ServerDownInv ==
  ASSUME Inv, NEW c \in Conn, ServerDown(c)
  PROVE  Inv'
<1>1. /\ TypeOK /\ HistoryTypes
      /\ \A k \in Conn :
           ServerSideOf(k) /\ ClientSideOf(k) /\ DecodedOf(k) /\ FitOf(k)
  BY InvParts
<1>2. PICK n \in 0 .. Len(toClient[c]) :
        toClient' = [toClient EXCEPT ![c] = SubSeq(@, 1, n)]
  BY DEF ServerDown
<1>3. /\ server[c] \in Up /\ toServer[c] = << >> /\ (client[c] # "connected" \/ c \in cut)
      /\ server' = [server EXCEPT ![c] = "disconnected"]
      /\ inServer' = [inServer EXCEPT ![c] = << >>]
      /\ UNCHANGED << client, cut, quit, writing, input, toServer, inClient,
                      sent, log, joined, printed, failed >>
  BY DEF ServerDown, history
<1>4. /\ toServer \in [Conn -> Messages] /\ inServer \in [Conn -> Messages]
      /\ toClient \in [Conn -> Messages] /\ inClient \in [Conn -> Messages]
      /\ << >> \in Messages /\ SubSeq(toClient[c], 1, n) \in Messages
  <2>1. toClient \in [Conn -> Messages] /\ toClient[c] \in Seq(Byte)
    BY Types DEF Messages
  <2> QED
    BY <2>1, Types, Halves, EmptySeq DEF Messages
<1>5. toClient' \in [Conn -> Messages] /\ inServer' \in [Conn -> Messages]
  BY <1>2, <1>3, <1>4
<1>6. TypeOK' /\ HistoryTypes'
  <2>1. \A s \in {toServer', inServer', toClient', inClient'} : s \in [Conn -> Seq(Byte)]
    BY <1>3, <1>4, <1>5 DEF Messages
  <2>2. server' \in [Conn -> Up \cup {"new", "disconnected"}]
    BY <1>1, <1>3 DEF TypeOK
  <2> QED
    BY <1>1, <1>3, <2>1, <2>2 DEF TypeOK, HistoryTypes
<1>7. ASSUME NEW k \in Conn, k # c
      PROVE  ServerSideOf(k)' /\ ClientSideOf(k)' /\ DecodedOf(k)' /\ FitOf(k)'
  <2>1. /\ server'[k] = server[k] /\ inServer'[k] = inServer[k]
        /\ toClient'[k] = toClient[k] /\ DecodedOf(k) /\ FitOf(k)
    BY <1>1, <1>2, <1>3, <1>4, <1>7 DEF TypeOK
  <2>2. ServerSideOf(k)' /\ ClientSideOf(k)'
    BY <1>3, <2>1, SameServerSide, SameClientSide
  <2>3. DecodedOf(k)' /\ FitOf(k)'
    BY <1>3, <2>1 DEF DecodedOf, FitOf
  <2> QED
    BY <2>2, <2>3
<1>8. /\ server'[c] = "disconnected" /\ inServer'[c] = << >>
      /\ toClient'[c] = SubSeq(toClient[c], 1, n)
      /\ ServerSideOf(c) /\ ClientSideOf(c) /\ DecodedOf(c) /\ FitOf(c)
  BY <1>1, <1>2, <1>3, <1>4 DEF TypeOK
<1>9. ServerSideOf(c)'
  <2>1. Underway(Heard(c), << >> \o << >>, sent[c])
    BY <1>4, <1>8, Types, UnderwayCut DEF ServerSideOf
  <2>2. Heard(c)' = Heard(c)
    BY <1>3 DEF Heard
  <2> QED
    BY <1>3, <1>8, <2>1, <2>2 DEF ServerSideOf
<1>10. ClientSideOf(c)'
  <2>1. Underway(printed[c], inClient[c] \o SubSeq(toClient[c], 1, n), Since(c))
    BY <1>4, <1>8, Types, UnderwayCut DEF ClientSideOf
  <2>2. Since(c)' = Since(c)
    BY <1>3 DEF Since
  <2> QED
    BY <1>3, <1>8, <2>1, <2>2 DEF ClientSideOf
<1>11. DecodedOf(c)' /\ FitOf(c)'
  BY <1>3, <1>8, NothingUnderway DEF DecodedOf, FitOf, Up
<1> QED
  BY <1>6, <1>7, <1>9, <1>10, <1>11, InvParts

LEMMA ClientDownInv ==
  ASSUME Inv, NEW c \in Conn, ClientDown(c)
  PROVE  Inv'
<1>1. /\ TypeOK /\ HistoryTypes
      /\ \A k \in Conn :
           ServerSideOf(k) /\ ClientSideOf(k) /\ DecodedOf(k) /\ FitOf(k)
  BY InvParts
<1>2. /\ client[c] \in Up /\ toClient[c] = << >>
      /\ server[c] \in {"disconnecting", "disconnected"} \/ c \in cut
      /\ client' = [client EXCEPT ![c] = "disconnected"]
      /\ inClient' = [inClient EXCEPT ![c] = << >>]
      /\ UNCHANGED << server, cut, quit, writing, input, toServer, inServer,
                      toClient, sent, log, joined, printed, failed >>
  BY DEF ClientDown, history
<1>3. /\ toClient \in [Conn -> Messages] /\ inClient \in [Conn -> Messages]
      /\ toServer \in [Conn -> Messages] /\ inServer \in [Conn -> Messages]
      /\ inClient' \in [Conn -> Messages]
  <2>1. << >> \in Messages
    BY EmptySeq DEF Messages
  <2> QED
    BY <1>2, <2>1, Types
<1>4. TypeOK' /\ HistoryTypes'
  <2>1. \A s \in {toServer', inServer', toClient', inClient'} : s \in [Conn -> Seq(Byte)]
    BY <1>2, <1>3 DEF Messages
  <2>2. client' \in [Conn -> Up \cup {"new", "disconnected"}]
    BY <1>1, <1>2 DEF TypeOK
  <2> QED
    BY <1>1, <1>2, <2>1, <2>2 DEF TypeOK, HistoryTypes
<1>5. ASSUME NEW k \in Conn
      PROVE  ServerSideOf(k)' /\ ClientSideOf(k)' /\ DecodedOf(k)' /\ FitOf(k)'
  <2>1. /\ k # c => client'[k] = client[k] /\ inClient'[k] = inClient[k]
        /\ k = c => client'[k] = "disconnected" /\ inClient'[k] = << >>
        /\ ClientSideOf(k) /\ DecodedOf(k) /\ FitOf(k)
    BY <1>1, <1>2, <1>3 DEF TypeOK
  <2>2. ServerSideOf(k)'
    BY <1>2, SameServerSide
  <2>3. ClientSideOf(k)'
    <3>1. CASE k # c
      BY <1>2, <2>1, <3>1, SameClientSide
    <3>2. CASE k = c
      <4>1. Underway(printed[k], << >> \o << >>, Since(k))
        BY <1>3, <2>1, Types, UnderwayCut DEF ClientSideOf
      <4>2. Since(k)' = Since(k)
        BY <1>2 DEF Since
      <4> QED
        BY <1>2, <2>1, <3>2, <4>1, <4>2 DEF ClientSideOf
    <3> QED
      BY <3>1, <3>2
  <2>4. DecodedOf(k)'
    BY <1>2, <2>1, NothingUnderway DEF DecodedOf
  <2>5. FitOf(k)'
    BY <1>2, <2>1 DEF FitOf, Up
  <2> QED
    BY <2>2, <2>3, <2>4, <2>5
<1> QED
  BY <1>4, <1>5, InvParts

LEMMA CutInv ==
  ASSUME Inv, NEW c \in Conn, Cut(c)
  PROVE  Inv'
<1>1. /\ TypeOK /\ HistoryTypes
      /\ \A k \in Conn :
           ServerSideOf(k) /\ ClientSideOf(k) /\ DecodedOf(k) /\ FitOf(k)
  BY InvParts
<1>2. /\ client[c] # "new" /\ cut' = cut \cup {c}
      /\ toServer' = [toServer EXCEPT ![c] = << >>]
      /\ toClient' = [toClient EXCEPT ![c] = << >>]
      /\ UNCHANGED << client, server, quit, writing, input, inServer, inClient,
                      sent, log, joined, printed, failed >>
  BY DEF Cut, history
<1>3. /\ toClient \in [Conn -> Messages] /\ inClient \in [Conn -> Messages]
      /\ toServer \in [Conn -> Messages] /\ inServer \in [Conn -> Messages]
      /\ toServer' \in [Conn -> Messages] /\ toClient' \in [Conn -> Messages]
  <2>1. << >> \in Messages
    BY EmptySeq DEF Messages
  <2> QED
    BY <1>2, <2>1, Types
<1>4. TypeOK' /\ HistoryTypes'
  <2>1. \A s \in {toServer', inServer', toClient', inClient'} : s \in [Conn -> Seq(Byte)]
    BY <1>2, <1>3 DEF Messages
  <2> QED
    BY <1>1, <1>2, <2>1 DEF TypeOK, HistoryTypes
<1>5. ASSUME NEW k \in Conn
      PROVE  ServerSideOf(k)' /\ ClientSideOf(k)' /\ DecodedOf(k)' /\ FitOf(k)'
  <2>1. /\ k # c => toServer'[k] = toServer[k] /\ toClient'[k] = toClient[k]
        /\ k = c => toServer'[k] = << >> /\ toClient'[k] = << >> /\ k \in cut'
        /\ ServerSideOf(k) /\ ClientSideOf(k) /\ DecodedOf(k) /\ FitOf(k)
    BY <1>1, <1>2, <1>3
  <2>2. ASSUME k # c PROVE ServerSideOf(k)' /\ ClientSideOf(k)'
    BY <1>2, <2>1, <2>2, SameServerSide, SameClientSide
  <2>3. ASSUME k = c PROVE ServerSideOf(k)' /\ ClientSideOf(k)'
    <3>1. /\ Underway(Heard(k), inServer[k] \o << >>, sent[k])
          /\ Underway(printed[k], inClient[k] \o << >>, Since(k))
      BY <1>3, <2>1, Types, UnderwayCut DEF ServerSideOf, ClientSideOf
    <3>2. Heard(k)' = Heard(k) /\ Since(k)' = Since(k)
      BY <1>2 DEF Heard, Since
    <3> QED
      BY <1>2, <2>1, <2>3, <3>1, <3>2 DEF ServerSideOf, ClientSideOf
  <2>4. DecodedOf(k)' /\ FitOf(k)'
    BY <1>2, <2>1 DEF DecodedOf, FitOf
  <2> QED
    BY <2>2, <2>3, <2>4
<1> QED
  BY <1>4, <1>5, InvParts

LEMMA DisconnectInv ==
  ASSUME Inv, NEW c \in Client, Disconnect(c)
  PROVE  Inv'
<1>1. /\ TypeOK /\ HistoryTypes
      /\ \A k \in Conn :
           ServerSideOf(k) /\ ClientSideOf(k) /\ DecodedOf(k) /\ FitOf(k)
  BY InvParts
<1>2. /\ quit' = quit \cup {c}
      /\ client' = [k \in Conn |-> IF k \in Current(c) THEN "disconnecting"
                                   ELSE client[k]]
      /\ UNCHANGED << server, cut, writing, input, toServer, inServer,
                      toClient, inClient, sent, log, joined, printed, failed >>
  BY DEF Disconnect, streams, history
<1>3. TypeOK' /\ HistoryTypes'
  <2>1. client' \in [Conn -> Up \cup {"new", "disconnected"}]
    BY <1>1, <1>2 DEF TypeOK, Up
  <2> QED
    BY <1>1, <1>2, <2>1 DEF TypeOK, HistoryTypes
<1>4. ASSUME NEW k \in Conn
      PROVE  ServerSideOf(k)' /\ ClientSideOf(k)' /\ DecodedOf(k)' /\ FitOf(k)'
  <2>1. ServerSideOf(k)' /\ ClientSideOf(k)'
    BY <1>2, SameServerSide, SameClientSide
  <2>2. /\ DecodedOf(k) /\ FitOf(k)
        /\ \/ client'[k] = client[k]
           \/ client[k] # "new" /\ client'[k] = "disconnecting"
    BY <1>1, <1>2 DEF Current, Up
  <2>3. DecodedOf(k)' /\ FitOf(k)'
    BY <1>2, <2>2 DEF DecodedOf, FitOf
  <2> QED
    BY <2>1, <2>3
<1> QED
  BY <1>3, <1>4, InvParts

LEMMA WriteInv ==
  ASSUME Inv, NEW c \in Client, Write(c)
  PROVE  Inv'
<1>1. /\ TypeOK /\ HistoryTypes
      /\ \A k \in Conn :
           ServerSideOf(k) /\ ClientSideOf(k) /\ DecodedOf(k) /\ FitOf(k)
  BY InvParts
<1>2. /\ input[c] # << >> /\ input' = [input EXCEPT ![c] = Tail(@)]
      /\ UNCHANGED << client, server, cut, quit, toServer, inServer,
                      toClient, inClient, sent, log, joined, printed, failed >>
  BY DEF Write, streams, history
<1>3. TypeOK' /\ HistoryTypes'
  <2>1. input[c] \in Seq(Line) /\ Head(input[c]) \in Line /\ Tail(input[c]) \in Seq(Line)
    BY <1>1, <1>2 DEF TypeOK
  <2>2. writing' \in [Client -> {<< >>} \cup (Conn \X Line)]
    <3>1. CASE UNCHANGED writing
      BY <1>1, <3>1 DEF TypeOK
    <3>2. ASSUME NEW k \in Current(c),
                 writing' = [writing EXCEPT ![c] = << k, Head(input[c]) >>]
          PROVE  writing' \in [Client -> {<< >>} \cup (Conn \X Line)]
      BY <1>1, <2>1, <3>2 DEF TypeOK, Current
    <3> QED
      BY <3>1, <3>2 DEF Write
  <2>3. input' \in [Client -> Seq(Line)]
    BY <1>1, <1>2, <2>1 DEF TypeOK
  <2> QED
    BY <1>1, <1>2, <2>2, <2>3 DEF TypeOK, HistoryTypes
<1>4. ASSUME NEW k \in Conn
      PROVE  ServerSideOf(k)' /\ ClientSideOf(k)' /\ DecodedOf(k)' /\ FitOf(k)'
  <2>1. ServerSideOf(k)' /\ ClientSideOf(k)'
    BY <1>2, SameServerSide, SameClientSide
  <2>2. DecodedOf(k)' /\ FitOf(k)'
    BY <1>1, <1>2 DEF DecodedOf, FitOf
  <2> QED
    BY <2>1, <2>2
<1> QED
  BY <1>3, <1>4, InvParts

\* The bytes of a line.
LEMMA TextBytes ==
  ASSUME NEW l \in Line
  PROVE  Text(l) \in Messages
<1>1. Size[l] \in Nat
  BY ChatAssumption
<1>2. \A i \in 1 .. Size[l] : << l, i >> \in Byte
  BY <1>1 DEF Byte
<1> QED
  BY <1>1, <1>2 DEF Text, Messages

\* A line is sent on c, or lost if the network has dropped it.
LEMMA SendingInv ==
  ASSUME Inv, NEW c \in Conn, NEW m \in Messages, client[c] = "connected",
         sent' = [sent EXCEPT ![c] = Append(@, m)],
         toServer' = [toServer EXCEPT ![c] = IF c \in cut THEN @ ELSE @ \o Encode(m)],
         writing' \in [Client -> {<< >>} \cup (Conn \X Line)],
         UNCHANGED << client, server, cut, quit, input, inServer, toClient,
                      inClient, log, joined, printed, failed >>
  PROVE  Inv'
<1>1. /\ TypeOK /\ HistoryTypes
      /\ \A k \in Conn :
           ServerSideOf(k) /\ ClientSideOf(k) /\ DecodedOf(k) /\ FitOf(k)
  BY InvParts
<1>2. /\ toServer \in [Conn -> Messages] /\ inServer \in [Conn -> Messages]
      /\ toClient \in [Conn -> Messages] /\ inClient \in [Conn -> Messages]
      /\ sent \in [Conn -> Seq(Messages)] /\ Encode(m) \in Messages
  BY <1>1, Types, EncodeBytes DEF HistoryTypes
<1>3. toServer[c] \o Encode(m) \in Messages /\ Append(sent[c], m) \in Seq(Messages)
  <2>1. toServer[c] \in Seq(Byte) /\ Encode(m) \in Seq(Byte) /\ sent[c] \in Seq(Messages)
    BY <1>2 DEF Messages
  <2>2. toServer[c] \o Encode(m) \in Seq(Byte)
    BY <2>1, ConcatProperties
  <2> QED
    BY <2>1, <2>2 DEF Messages
<1>4. toServer' \in [Conn -> Messages] /\ sent' \in [Conn -> Seq(Messages)]
  BY <1>2, <1>3
<1>5. TypeOK' /\ HistoryTypes'
  <2>1. \A s \in {toServer', inServer', toClient', inClient'} : s \in [Conn -> Seq(Byte)]
    BY <1>2, <1>4 DEF Messages
  <2> QED
    BY <1>1, <1>4, <2>1 DEF TypeOK, HistoryTypes
<1>6. ASSUME NEW k \in Conn
      PROVE  ServerSideOf(k)' /\ ClientSideOf(k)' /\ DecodedOf(k)' /\ FitOf(k)'
  <2>1. /\ k # c => toServer'[k] = toServer[k] /\ sent'[k] = sent[k]
        /\ k = c => /\ sent'[k] = Append(sent[k], m)
                    /\ k \notin cut => toServer'[k] = toServer[k] \o Encode(m)
                    /\ k \in cut => toServer'[k] = toServer[k]
        /\ ServerSideOf(k) /\ DecodedOf(k) /\ FitOf(k)
    BY <1>1, <1>2
  <2>2. ClientSideOf(k)'
    BY SameClientSide
  <2>3. ServerSideOf(k)'
    <3>1. CASE k # c
      BY <2>1, <3>1, SameServerSide
    <3>2. CASE k = c
      <4> DEFINE h == Heard(k)
                 s == sent[k]
                 b == inServer[k] \o toServer[k]
      <4>1. /\ h \in Seq(Messages) /\ s \in Seq(Messages) /\ b \in Messages
            /\ inServer[k] \in Messages /\ toServer[k] \in Messages
            /\ << m >> \in Seq(Messages)
        BY <1>2, Types, ConcatProperties DEF Messages
      <4>2. /\ Underway(h, b, s)
            /\ k \notin cut => AllThere(h, b, s)
        BY <1>2, <2>1, <3>2 DEF ServerSideOf, FitOf
      <4>3. Heard(k)' = h
        BY DEF Heard
      <4> HIDE DEF h, s, b
      <4>4. Stream(<< m >>) = Encode(m) /\ Append(s, m) = s \o << m >>
        <5>1. Stream(Append(<< >>, m)) = << >> \o Encode(m)
          BY StreamAppends, EmptySeq
        <5>2. Append(<< >>, m) = << m >> /\ << >> \o Encode(m) = Encode(m)
          BY <1>2, WithEmpty DEF Messages
        <5>3. Append(s, m) = s \o << m >>
          BY <4>1, AppendIsConcat
        <5> QED
          BY <5>1, <5>2, <5>3
      <4>5. /\ Underway(h, b, Append(s, m))
            /\ k \notin cut => AllThere(h, b \o Encode(m), Append(s, m))
        BY <4>1, <4>2, <4>4, UnderwayMore
      <4>6. CASE k \in cut
        <5>1. inServer'[k] \o toServer'[k] = b
          BY <2>1, <3>2, <4>6 DEF b
        <5>2. sent'[k] = Append(s, m)
          BY <2>1, <3>2 DEF s
        <5> QED
          BY <4>3, <4>5, <4>6, <5>1, <5>2 DEF ServerSideOf
      <4>7. CASE k \notin cut
        <5>1. inServer'[k] \o toServer'[k] = b \o Encode(m)
          <6>1. \A x, y \in Messages :
                  (x \o y) \o Encode(m) = x \o (y \o Encode(m))
            BY <1>2, RegroupBytes
          <6>2. inServer'[k] = inServer[k] /\ toServer'[k] = toServer[k] \o Encode(m)
            BY <2>1, <3>2, <4>7
          <6> QED
            BY <4>1, <6>1, <6>2 DEF b
        <5>2. sent'[k] = Append(s, m)
          BY <2>1, <3>2 DEF s
        <5>3. AllThere(h, b \o Encode(m), Append(s, m))
          BY <4>5, <4>7
        <5> QED
          BY <4>3, <5>1, <5>2, <5>3 DEF ServerSideOf, AllThere
      <4> QED
        BY <4>6, <4>7
    <3> QED
      BY <3>1, <3>2
  <2>4. DecodedOf(k)' /\ FitOf(k)'
    BY <2>1 DEF DecodedOf, FitOf
  <2> QED
    BY <2>2, <2>3, <2>4
<1> QED
  BY <1>5, <1>6, InvParts

LEMMA WriteSendInv ==
  ASSUME Inv, NEW c \in Client, WriteSend(c)
  PROVE  Inv'
<1>1. /\ TypeOK /\ HistoryTypes
      /\ \A k \in Conn :
           ServerSideOf(k) /\ ClientSideOf(k) /\ DecodedOf(k) /\ FitOf(k)
  BY InvParts
<1>2. /\ writing[c] # << >> /\ writing' = [writing EXCEPT ![c] = << >>]
      /\ UNCHANGED << client, server, cut, quit, input, inServer, toClient,
                      inClient, log, joined, printed >>
  BY DEF WriteSend
<1>3. /\ writing[c] \in Conn \X Line
      /\ writing' \in [Client -> {<< >>} \cup (Conn \X Line)]
  BY <1>1, <1>2 DEF TypeOK
<1>4. ASSUME UNCHANGED << toServer, sent >>, failed' \in BOOLEAN
      PROVE  Inv'
  <2>1. TypeOK' /\ HistoryTypes'
    BY <1>1, <1>2, <1>3, <1>4 DEF TypeOK, HistoryTypes
  <2>2. ASSUME NEW k \in Conn
        PROVE  ServerSideOf(k)' /\ ClientSideOf(k)' /\ DecodedOf(k)' /\ FitOf(k)'
    <3>1. ServerSideOf(k)' /\ ClientSideOf(k)'
      BY <1>2, <1>4, SameServerSide, SameClientSide
    <3>2. DecodedOf(k)' /\ FitOf(k)'
      BY <1>1, <1>2, <1>4 DEF DecodedOf, FitOf
    <3> QED
      BY <3>1, <3>2
  <2> QED
    BY <2>1, <2>2, InvParts
<1>5. \/ failed' = TRUE /\ UNCHANGED << toServer, sent >>
      \/ \E k \in {writing[c][1]} \cup Current(c) :
           LET s == Text(writing[c][2])
           IN /\ IF client[k] = "connected"
                 THEN /\ sent' = [sent EXCEPT ![k] = Append(@, s)]
                      /\ toServer' = [toServer EXCEPT ![k] =
                                        IF k \in cut THEN @ ELSE @ \o Encode(s)]
                 ELSE UNCHANGED << toServer, sent >>
              /\ UNCHANGED failed
  BY DEF WriteSend
<1>6. CASE failed' = TRUE /\ UNCHANGED << toServer, sent >>
  BY <1>4, <1>6
<1>7. ASSUME NEW k \in {writing[c][1]} \cup Current(c),
             LET s == Text(writing[c][2])
             IN /\ IF client[k] = "connected"
                   THEN /\ sent' = [sent EXCEPT ![k] = Append(@, s)]
                        /\ toServer' = [toServer EXCEPT ![k] =
                                          IF k \in cut THEN @ ELSE @ \o Encode(s)]
                   ELSE UNCHANGED << toServer, sent >>
                /\ UNCHANGED failed
      PROVE  Inv'
  <2> DEFINE m == Text(writing[c][2])
  <2>1. k \in Conn /\ m \in Messages
    <3>1. writing[c][1] \in Conn /\ writing[c][2] \in Line
      BY <1>3
    <3> QED
      BY <3>1, TextBytes DEF Current
  <2>2. CASE client[k] = "connected"
    <3>1. /\ sent' = [sent EXCEPT ![k] = Append(@, m)]
          /\ toServer' = [toServer EXCEPT ![k] =
                            IF k \in cut THEN @ ELSE @ \o Encode(m)]
          /\ UNCHANGED failed
      BY <1>7, <2>2
    <3> HIDE DEF m
    <3> QED
      BY <1>2, <1>3, <2>1, <2>2, <3>1, SendingInv
  <2>3. CASE client[k] # "connected"
    <3>1. UNCHANGED << toServer, sent >> /\ failed' \in BOOLEAN
      BY <1>1, <1>7, <2>3 DEF TypeOK
    <3> QED
      BY <1>4, <3>1
  <2> QED
    BY <2>2, <2>3
<1> QED
  BY <1>5, <1>6, <1>7

\* The server sends on what came from c.
LEMMA LogGrows ==
  ASSUME Inv, NEW c \in Conn, NEW out \in Seq(Messages),
         log' = log \o Tagged(c, out), joined' = joined
  PROVE  /\ log' \in Pairs /\ Len(log') = Len(log) + Len(out) /\ Len(out) \in Nat
         /\ \A k \in Conn :
              /\ k # c => Heard(k)' = Heard(k)
              /\ k = c => Heard(k)' = Heard(k) \o out
              /\ Since(k)' = Since(k) \o out
<1> DEFINE a == Tagged(c, out)
<1>1. /\ log \in Pairs /\ Len(log) \in Nat /\ Len(out) \in Nat
      /\ \A k \in Conn : Since(k) \in Seq(Messages) /\ joined[k] \in 0 .. Len(log)
  BY Types
<1>2. /\ a \in Pairs /\ Len(a) = Len(out) /\ log \o a \in Pairs
      /\ \A k \in Conn :
           From(k, log \o a) = IF c = k THEN From(k, log) \o out ELSE From(k, log)
  <2>1. a \in Pairs /\ Len(a) = Len(out) /\ log \o a \in Pairs
    BY <1>1, FromConcat
  <2>2. ASSUME NEW k \in Conn
        PROVE  From(k, log \o a) =
                 IF c = k THEN From(k, log) \o out ELSE From(k, log)
    <3>1. log \in Pairs
      BY <1>1
    <3> QED
      BY <3>1, FromConcat
  <2> QED
    BY <2>1, <2>2
<1>3. /\ Len(log') = Len(log) + Len(out)
      /\ \A i \in 1 .. Len(log') :
           log'[i] = IF i <= Len(log) THEN log[i] ELSE a[i - Len(log)]
  <2> HIDE DEF a
  <2>1. log \in Seq(Conn \X Messages) /\ a \in Seq(Conn \X Messages) /\ log' = log \o a
    BY <1>1, <1>2 DEF Pairs, a
  <2>2. /\ Len(log \o a) = Len(log) + Len(a)
        /\ \A i \in 1 .. Len(log) + Len(a) :
             (log \o a)[i] = IF i <= Len(log) THEN log[i] ELSE a[i - Len(log)]
    BY <2>1, ConcatProperties
  <2> QED
    BY <1>2, <2>1, <2>2
<1>4. \A i \in 1 .. Len(out) : a[i][2] = out[i]
  BY DEF Tagged
<1> HIDE DEF a
<1>5. ASSUME NEW k \in Conn PROVE Since(k)' = Since(k) \o out
  <2> DEFINE p == joined[k]
             s == Since(k)
  <2>1. p \in 0 .. Len(log) /\ joined'[k] = p /\ s \in Seq(Messages)
    BY <1>1
  <2>2. /\ Len(s) = Len(log) - p /\ Len(log) - p \in Nat
        /\ \A i \in 1 .. Len(log) - p : s[i] = log[p + i][2]
    BY <1>1, <2>1 DEF Since
  <2>3. Since(k)' = [i \in 1 .. Len(log') - p |-> log'[p + i][2]]
    BY <2>1 DEF Since
  <2> HIDE DEF p, s
  <2>4. /\ s \o out \in Seq(Messages) /\ Len(s \o out) = Len(s) + Len(out)
        /\ \A i \in 1 .. Len(s) + Len(out) :
             (s \o out)[i] = IF i <= Len(s) THEN s[i] ELSE out[i - Len(s)]
    BY <2>1, ConcatProperties
  <2>5. \A i \in 1 .. Len(log') - p : log'[p + i][2] = (s \o out)[i]
    <3> TAKE i \in 1 .. Len(log') - p
    <3>1. /\ i \in Nat /\ p + i \in 1 .. Len(log') /\ i \in 1 .. Len(s) + Len(out)
          /\ i <= Len(s) <=> p + i <= Len(log)
          /\ (p + i) - Len(log) = i - Len(s)
      BY <1>1, <1>3, <2>1, <2>2
    <3>2. CASE i <= Len(s)
      <4>1. i \in 1 .. Len(log) - p
        BY <2>2, <3>1, <3>2
      <4>2. log'[p + i] = log[p + i] /\ (s \o out)[i] = s[i]
        BY <1>3, <2>4, <3>1, <3>2
      <4> QED
        BY <2>2, <4>1, <4>2
    <3>3. CASE ~(i <= Len(s))
      <4>1. i - Len(s) \in 1 .. Len(out)
        BY <1>1, <2>2, <3>1, <3>3
      <4>2. log'[p + i] = a[i - Len(s)] /\ (s \o out)[i] = out[i - Len(s)]
        BY <1>3, <2>4, <3>1, <3>3
      <4> QED
        BY <1>4, <4>1, <4>2
    <3> QED
      BY <3>2, <3>3
  <2>6. Len(log') - p = Len(s) + Len(out)
    BY <1>1, <1>3, <2>1, <2>2
  <2>7. s \o out = [i \in 1 .. Len(s) + Len(out) |-> (s \o out)[i]]
    BY <2>4, AsFunction
  <2> QED
    BY <2>3, <2>5, <2>6, <2>7 DEF s
<1>6. ASSUME NEW k \in Conn
      PROVE  /\ k # c => Heard(k)' = Heard(k)
             /\ k = c => Heard(k)' = Heard(k) \o out
  <2>1. Heard(k)' = From(k, log \o a)
    BY DEF Heard, a
  <2> QED
    BY <1>2, <2>1 DEF Heard
<1>7. log' \in Pairs
  BY <1>2 DEF a
<1> QED
  BY <1>1, <1>3, <1>5, <1>6, <1>7

LEMMA ServerReadsInv ==
  ASSUME Inv, NEW c \in Conn, ServerReads(c)
  PROVE  Inv'
<1>1. /\ TypeOK /\ HistoryTypes
      /\ \A k \in Conn :
           ServerSideOf(k) /\ ClientSideOf(k) /\ DecodedOf(k) /\ FitOf(k)
  BY InvParts
<1>2. PICK n \in 1 .. Len(toServer[c]) :
        LET d == OnMessage(inServer[c] \o SubSeq(toServer[c], 1, n))
        IN /\ toServer' = [toServer EXCEPT ![c] = SubSeq(@, n + 1, Len(@))]
           /\ inServer' = [inServer EXCEPT ![c] = d.rest]
           /\ toClient' = [j \in Conn |->
                             IF j \in Recipients(c) \ cut
                             THEN toClient[j] \o Stream(d.out) ELSE toClient[j]]
           /\ log' = log \o [i \in DOMAIN d.out |-> << c, d.out[i] >>]
           /\ server' = [server EXCEPT ![c] =
                           IF Invalid(d.rest) THEN "disconnecting" ELSE @]
  BY DEF ServerReads
<1> DEFINE d == OnMessage(inServer[c] \o SubSeq(toServer[c], 1, n))
           x == SubSeq(toServer[c], n + 1, Len(toServer[c]))
<1>3. /\ toServer' = [toServer EXCEPT ![c] = x]
      /\ inServer' = [inServer EXCEPT ![c] = d.rest]
      /\ toClient' = [j \in Conn |->
                        IF j \in Recipients(c) \ cut
                        THEN toClient[j] \o Stream(d.out) ELSE toClient[j]]
      /\ log' = log \o Tagged(c, d.out)
      /\ server' = [server EXCEPT ![c] =
                      IF Invalid(d.rest) THEN "disconnecting" ELSE @]
  BY <1>2 DEF Tagged
<1>4. /\ server[c] \in Up
      /\ UNCHANGED << client, cut, quit, writing, input, inClient, sent, joined,
                      printed, failed >>
  BY DEF ServerReads, connects_
<1>5. /\ toServer \in [Conn -> Messages] /\ inServer \in [Conn -> Messages]
      /\ toClient \in [Conn -> Messages] /\ inClient \in [Conn -> Messages]
      /\ log \in Pairs /\ Len(log) \in Nat
      /\ \A k \in Conn : /\ Heard(k) \in Seq(Messages) /\ sent[k] \in Seq(Messages)
                         /\ Since(k) \in Seq(Messages) /\ printed[k] \in Seq(Messages)
                         /\ joined[k] \in 0 .. Len(log)
  BY Types
<1>6. /\ d \in Decoder /\ ~HasMessage(d.rest) /\ x \in Messages
      /\ Underway(Heard(c) \o d.out, d.rest \o x, sent[c])
      /\ AllThere(Heard(c), inServer[c] \o toServer[c], sent[c])
           => AllThere(Heard(c) \o d.out, d.rest \o x, sent[c])
  <2>1. Underway(Heard(c), inServer[c] \o toServer[c], sent[c])
    BY <1>1 DEF ServerSideOf
  <2>2. /\ inServer[c] \in Messages /\ toServer[c] \in Messages
        /\ Heard(c) \in Seq(Messages) /\ sent[c] \in Seq(Messages)
        /\ n \in 0 .. Len(toServer[c])
    BY <1>5
  <2> QED
    BY <2>1, <2>2, Reading
<1> HIDE DEF d, x
<1>7. /\ d.rest \in Messages /\ d.out \in Seq(Messages) /\ Stream(d.out) \in Messages
  BY <1>6, StreamAppends DEF Decoder
<1>8. /\ log' \in Pairs /\ Len(log') = Len(log) + Len(d.out) /\ Len(d.out) \in Nat
      /\ \A k \in Conn :
           /\ k # c => Heard(k)' = Heard(k)
           /\ k = c => Heard(k)' = Heard(k) \o d.out
           /\ Since(k)' = Since(k) \o d.out
  BY <1>3, <1>4, <1>7, LogGrows
<1>9. /\ toServer' \in [Conn -> Messages] /\ inServer' \in [Conn -> Messages]
      /\ toClient' \in [Conn -> Messages] /\ inClient' \in [Conn -> Messages]
  <2>1. \A j \in Conn : toClient[j] \o Stream(d.out) \in Messages
    BY <1>5, <1>7, ConcatProperties DEF Messages
  <2> QED
    BY <1>3, <1>4, <1>5, <1>6, <1>7, <2>1
<1>10. TypeOK' /\ HistoryTypes'
  <2>1. \A s \in {toServer', inServer', toClient', inClient'} : s \in [Conn -> Seq(Byte)]
    BY <1>9 DEF Messages
  <2>2. joined' \in [Conn -> 0 .. Len(log')]
    <3>1. \A i \in 0 .. Len(log) : i \in 0 .. Len(log')
      BY <1>5, <1>8
    <3> QED
      BY <1>1, <1>4, <3>1 DEF TypeOK
  <2>3. server' \in [Conn -> Up \cup {"new", "disconnected"}]
    BY <1>1, <1>3 DEF TypeOK, Up
  <2> QED
    BY <1>1, <1>4, <1>8, <2>1, <2>2, <2>3 DEF TypeOK, HistoryTypes, Pairs
<1>11. ASSUME NEW k \in Conn
       PROVE  /\ k # c => server'[k] = server[k]
              /\ k = c => server'[k] = IF Invalid(d.rest) THEN "disconnecting" ELSE server[k]
  BY <1>1, <1>3 DEF TypeOK
<1>12. ASSUME NEW k \in Conn PROVE ServerSideOf(k)'
  <2>1. CASE k # c
    <3>1. inServer'[k] = inServer[k] /\ toServer'[k] = toServer[k] /\ Heard(k)' = Heard(k)
      BY <1>3, <1>5, <1>8, <2>1
    <3> QED
      BY <1>1, <1>4, <1>11, <2>1, <3>1 DEF ServerSideOf
  <2>2. CASE k = c
    <3>1. /\ inServer'[k] = d.rest /\ toServer'[k] = x /\ Heard(k)' = Heard(c) \o d.out
          /\ sent'[k] = sent[c] /\ cut' = cut
      BY <1>3, <1>4, <1>5, <1>8, <2>2
    <3>2. k \notin cut => AllThere(Heard(c), inServer[c] \o toServer[c], sent[c])
      BY <1>1, <1>4, <2>2 DEF ServerSideOf, Up
    <3> QED
      BY <1>6, <2>2, <3>1, <3>2 DEF ServerSideOf
  <2> QED
    BY <2>1, <2>2
<1>13. ASSUME NEW k \in Conn PROVE ClientSideOf(k)'
  <2> DEFINE h == printed[k]
             b == inClient[k] \o toClient[k]
             s == Since(k)
  <2>1. /\ h \in Seq(Messages) /\ s \in Seq(Messages) /\ b \in Messages
        /\ inClient[k] \in Messages /\ toClient[k] \in Messages
    BY <1>5, ConcatProperties DEF Messages
  <2>2. /\ Underway(h, b, s)
        /\ k \notin cut /\ server[k] = "connected" => AllThere(h, b, s)
    BY <1>1 DEF ClientSideOf
  <2>3. printed'[k] = h /\ Since(k)' = s \o d.out /\ cut' = cut /\ inClient' = inClient
    BY <1>4, <1>8
  <2>4. server'[k] = "connected" => server[k] = "connected"
    BY <1>11
  <2>5. toClient'[k] = IF server[k] = "connected" /\ k \notin cut
                       THEN toClient[k] \o Stream(d.out) ELSE toClient[k]
    BY <1>3 DEF Recipients, connects_, Up
  <2>6. (inClient[k] \o toClient[k]) \o Stream(d.out)
          = inClient[k] \o (toClient[k] \o Stream(d.out))
    <3>1. \A y, z \in Messages :
            (y \o z) \o Stream(d.out) = y \o (z \o Stream(d.out))
      BY <1>7, RegroupBytes
    <3> QED
      BY <2>1, <3>1
  <2>7. CASE server[k] = "connected" /\ k \notin cut
    <3>1. inClient'[k] \o toClient'[k] = b \o Stream(d.out)
      BY <2>3, <2>5, <2>6, <2>7
    <3> HIDE DEF h, b, s
    <3>2. AllThere(h, b \o Stream(d.out), s \o d.out)
      BY <1>7, <2>1, <2>2, <2>7, UnderwayMore
    <3> QED
      BY <2>3, <3>1, <3>2 DEF ClientSideOf, AllThere
  <2>8. CASE ~(server[k] = "connected" /\ k \notin cut)
    <3>1. inClient'[k] \o toClient'[k] = b
      BY <2>3, <2>5, <2>8
    <3> HIDE DEF h, b, s
    <3>2. Underway(h, b, s \o d.out)
      BY <1>7, <2>1, <2>2, UnderwayMore
    <3> QED
      BY <2>3, <2>4, <2>8, <3>1, <3>2 DEF ClientSideOf
  <2> QED
    BY <2>7, <2>8
<1>14. ASSUME NEW k \in Conn PROVE DecodedOf(k)' /\ FitOf(k)'
  <2>1. DecodedOf(k) /\ FitOf(k)
    BY <1>1
  <2>2. CASE k # c
    <3>1. inServer'[k] = inServer[k] /\ server'[k] = server[k]
      BY <1>3, <1>5, <1>11, <2>2
    <3>2. server[k] = "new" => toClient'[k] = toClient[k]
      BY <1>3 DEF Recipients
    <3> QED
      BY <1>4, <2>1, <3>1, <3>2 DEF DecodedOf, FitOf
  <2>3. CASE k = c
    <3>1. inServer'[k] = d.rest
      BY <1>3, <1>5, <2>3
    <3>2. DecodedOf(k)'
      BY <1>4, <1>6, <1>11, <2>1, <2>3, <3>1 DEF DecodedOf
    <3>3. /\ server'[k] \in Up /\ client'[k] = client[k] /\ cut' = cut
          /\ server[k] \in {"disconnecting", "disconnected"} =>
               server'[k] \in {"disconnecting", "disconnected"}
      BY <1>4, <1>11, <2>3 DEF Up
    <3>4. FitOf(k)'
      BY <1>4, <2>1, <2>3, <3>3 DEF FitOf, Up
    <3> QED
      BY <3>2, <3>4
  <2> QED
    BY <2>2, <2>3
<1> QED
  BY <1>10, <1>12, <1>13, <1>14, InvParts

LEMMA ClientReadsInv ==
  ASSUME Inv, NEW c \in Conn, ClientReads(c)
  PROVE  Inv'
<1>1. /\ TypeOK /\ HistoryTypes
      /\ \A k \in Conn :
           ServerSideOf(k) /\ ClientSideOf(k) /\ DecodedOf(k) /\ FitOf(k)
  BY InvParts
<1>2. PICK n \in 1 .. Len(toClient[c]) :
        LET d == OnMessage(inClient[c] \o SubSeq(toClient[c], 1, n))
        IN /\ toClient' = [toClient EXCEPT ![c] = SubSeq(@, n + 1, Len(@))]
           /\ inClient' = [inClient EXCEPT ![c] = d.rest]
           /\ printed' = [printed EXCEPT ![c] = @ \o d.out]
           /\ client' = [client EXCEPT ![c] =
                           IF Invalid(d.rest) THEN "disconnecting" ELSE @]
  BY DEF ClientReads
<1> DEFINE d == OnMessage(inClient[c] \o SubSeq(toClient[c], 1, n))
           x == SubSeq(toClient[c], n + 1, Len(toClient[c]))
<1>3. /\ toClient' = [toClient EXCEPT ![c] = x]
      /\ inClient' = [inClient EXCEPT ![c] = d.rest]
      /\ printed' = [printed EXCEPT ![c] = @ \o d.out]
      /\ client' = [client EXCEPT ![c] =
                      IF Invalid(d.rest) THEN "disconnecting" ELSE @]
  BY <1>2
<1>4. /\ client[c] \in Up
      /\ UNCHANGED << server, cut, quit, writing, input, toServer, inServer,
                      sent, log, joined, failed >>
  BY DEF ClientReads
<1>5. /\ toServer \in [Conn -> Messages] /\ inServer \in [Conn -> Messages]
      /\ toClient \in [Conn -> Messages] /\ inClient \in [Conn -> Messages]
      /\ printed \in [Conn -> Seq(Messages)]
      /\ \A k \in Conn : Since(k) \in Seq(Messages) /\ printed[k] \in Seq(Messages)
  BY <1>1, Types DEF HistoryTypes
<1>6. /\ d \in Decoder /\ ~HasMessage(d.rest) /\ x \in Messages
      /\ printed[c] \o d.out \in Seq(Messages)
      /\ Underway(printed[c] \o d.out, d.rest \o x, Since(c))
      /\ AllThere(printed[c], inClient[c] \o toClient[c], Since(c))
           => AllThere(printed[c] \o d.out, d.rest \o x, Since(c))
  <2>1. Underway(printed[c], inClient[c] \o toClient[c], Since(c))
    BY <1>1 DEF ClientSideOf
  <2>2. /\ inClient[c] \in Messages /\ toClient[c] \in Messages
        /\ printed[c] \in Seq(Messages) /\ Since(c) \in Seq(Messages)
        /\ n \in 0 .. Len(toClient[c])
    BY <1>5
  <2> QED
    BY <2>1, <2>2, Reading
<1> HIDE DEF d, x
<1>7. d.rest \in Messages
  BY <1>6 DEF Decoder
<1>8. /\ toClient' \in [Conn -> Messages] /\ inClient' \in [Conn -> Messages]
      /\ printed' \in [Conn -> Seq(Messages)]
  BY <1>3, <1>5, <1>6, <1>7
<1>9. TypeOK' /\ HistoryTypes'
  <2>1. \A s \in {toServer', inServer', toClient', inClient'} : s \in [Conn -> Seq(Byte)]
    BY <1>4, <1>5, <1>8 DEF Messages
  <2>2. client' \in [Conn -> Up \cup {"new", "disconnected"}]
    BY <1>1, <1>3 DEF TypeOK, Up
  <2> QED
    BY <1>1, <1>4, <1>8, <2>1, <2>2 DEF TypeOK, HistoryTypes
<1>10. ASSUME NEW k \in Conn, k # c
       PROVE  ServerSideOf(k)' /\ ClientSideOf(k)' /\ DecodedOf(k)' /\ FitOf(k)'
  <2>1. /\ client'[k] = client[k] /\ inClient'[k] = inClient[k]
        /\ toClient'[k] = toClient[k] /\ printed'[k] = printed[k]
        /\ DecodedOf(k) /\ FitOf(k)
    BY <1>1, <1>3, <1>5, <1>10 DEF TypeOK
  <2>2. ServerSideOf(k)' /\ ClientSideOf(k)'
    BY <1>4, <2>1, SameServerSide, SameClientSide
  <2>3. DecodedOf(k)' /\ FitOf(k)'
    BY <1>4, <2>1 DEF DecodedOf, FitOf
  <2> QED
    BY <2>2, <2>3
<1>11. /\ client'[c] = IF Invalid(d.rest) THEN "disconnecting" ELSE client[c]
       /\ inClient'[c] = d.rest /\ toClient'[c] = x
       /\ printed'[c] = printed[c] \o d.out
       /\ ClientSideOf(c) /\ DecodedOf(c) /\ FitOf(c)
  BY <1>1, <1>3, <1>5 DEF TypeOK
<1>12. ServerSideOf(c)'
  BY <1>4, SameServerSide
<1>13. ClientSideOf(c)'
  <2>1. Since(c)' = Since(c)
    BY <1>4 DEF Since
  <2> QED
    BY <1>4, <1>6, <1>11, <2>1 DEF ClientSideOf
<1>14. DecodedOf(c)'
  BY <1>4, <1>6, <1>11 DEF DecodedOf
<1>15. FitOf(c)'
  <2>1. server[c] # "new"
    <3> SUFFICES ASSUME server[c] = "new" PROVE FALSE
      OBVIOUS
    <3>1. toClient[c] = << >>
      BY <1>11 DEF FitOf
    <3> QED
      BY <3>1
  <2> QED
    BY <1>4, <1>11, <2>1 DEF FitOf, Up
<1> QED
  BY <1>9, <1>10, <1>12, <1>13, <1>14, <1>15, InvParts

-----------------------------------------------------------------------------
(* Theorems.                                                                *)

\* Inv is inductive.
THEOREM Invariant == Spec => []Inv
<1>1. Init => Inv
  BY InitInv
<1>2. Inv /\ [Next]_vars => Inv'
  <2> SUFFICES ASSUME Inv, [Next]_vars
               PROVE  Inv'
    OBVIOUS
  <2>1. CASE UNCHANGED vars
    <3>1. UNCHANGED << client, server, cut, quit, writing, input, toServer,
                       inServer, toClient, inClient, sent, log, joined, printed,
                       failed >>
      BY <2>1 DEF vars, streams, history
    <3>2. TypeOK' /\ HistoryTypes'
      BY <3>1, InvParts DEF TypeOK, HistoryTypes
    <3>3. ASSUME NEW k \in Conn
          PROVE  ServerSideOf(k)' /\ ClientSideOf(k)' /\ DecodedOf(k)' /\ FitOf(k)'
      <4>1. ServerSideOf(k)' /\ ClientSideOf(k)'
        BY <3>1, SameServerSide, SameClientSide
      <4>2. DecodedOf(k)' /\ FitOf(k)'
        BY <3>1, InvParts DEF DecodedOf, FitOf
      <4> QED
        BY <4>1, <4>2
    <3> QED
      BY <3>2, <3>3, InvParts
  <2>2. ASSUME NEW k \in Conn,
               \/ Connect(k) \/ ServerUp(k) \/ ServerDown(k) \/ ClientDown(k)
               \/ Cut(k) \/ ServerReads(k) \/ ClientReads(k)
        PROVE  Inv'
    BY <2>2, ConnectInv, ServerUpInv, ServerDownInv, ClientDownInv, CutInv,
       ServerReadsInv, ClientReadsInv
  <2>3. ASSUME NEW c \in Client, Write(c) \/ WriteSend(c) \/ Disconnect(c)
        PROVE  Inv'
    BY <2>3, WriteInv, WriteSendInv, DisconnectInv
  <2> QED
    BY <2>1, <2>2, <2>3 DEF Next
<1> QED
  BY <1>1, <1>2, PTL DEF Spec

\* The server takes the lines of each connection whole and in order: what
\* LengthHeaderCodec::onMessage has made of the bytes so far is how the lines
\* sent begin, for all sizes of lines and header and all pieces of the stream.
THEOREM LinesComeInOrder == Spec => []SpeakersAreInOrder
<1>1. Inv => SpeakersAreInOrder
  BY DEF Inv, ServerSide, ServerSideOf, Underway, SpeakersAreInOrder
<1> QED
  BY <1>1, Invariant, PTL

\* Every client prints what the server has sent on since it accepted the
\* connection, in the same order and with none missing between.
THEOREM AllPrintTheLog == Spec => []PrintedIsTheLog
<1>1. Inv => PrintedIsTheLog
  BY DEF Inv, ClientSide, ClientSideOf, Underway, PrintedIsTheLog
<1> QED
  BY <1>1, Invariant, PTL

\* onMessage does not leave a whole message in the buffer: when all bytes of an
\* open connection have come, all of its lines have.
THEOREM BuffersAreEmptied == Spec => []NothingStaysBuffered
<1>1. ASSUME Inv, NEW k \in Conn, Open(k)
      PROVE  /\ toServer[k] = << >> => Heard(k) = sent[k]
             /\ toClient[k] = << >> => printed[k] = Since(k)
  <2>1. ServerSideOf(k) /\ ClientSideOf(k) /\ DecodedOf(k)
    BY <1>1, InvParts
  <2>2. /\ inServer[k] \in Messages /\ inClient[k] \in Messages
        /\ Heard(k) \in Seq(Messages) /\ sent[k] \in Seq(Messages)
        /\ printed[k] \in Seq(Messages) /\ Since(k) \in Seq(Messages)
    BY <1>1, Types
  <2>3. inServer[k] \o << >> = inServer[k] /\ inClient[k] \o << >> = inClient[k]
    BY <2>2, WithEmpty DEF Messages
  <2>4. ASSUME toServer[k] = << >> PROVE Heard(k) = sent[k]
    <3>1. AllThere(Heard(k), inServer[k], sent[k])
      BY <1>1, <2>1, <2>3, <2>4 DEF ServerSideOf, Open
    <3>2. ~HasMessage(inServer[k]) /\ ~Invalid(inServer[k])
      BY <1>1, <2>1 DEF DecodedOf, Open
    <3> QED
      BY <2>2, <3>1, <3>2, NoneLeft
  <2>5. ASSUME toClient[k] = << >> PROVE printed[k] = Since(k)
    <3>1. AllThere(printed[k], inClient[k], Since(k))
      BY <1>1, <2>1, <2>3, <2>5 DEF ClientSideOf, Open
    <3>2. ~HasMessage(inClient[k]) /\ ~Invalid(inClient[k])
      BY <1>1, <2>1 DEF DecodedOf, Open
    <3> QED
      BY <2>2, <3>1, <3>2, NoneLeft
  <2> QED
    BY <2>4, <2>5
<1>2. Inv => NothingStaysBuffered
  BY <1>1 DEF NothingStaysBuffered
<1> QED
  BY <1>2, Invariant, PTL
=============================================================================
