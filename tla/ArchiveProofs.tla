--------------------------- MODULE ArchiveProofs ---------------------------
(***************************************************************************)
(* Proofs about messages and answers: each direction of a connection       *)
(* delivers all of a message or nothing, however write and read cut it up  *)
(* and whenever node 0 dies, and an answer is a snapshot of the chain.     *)
(*                                                                         *)
(* The steps of a wire are lemmas about any two values of it, so that they *)
(* serve both directions.  What is left is that a response stays a         *)
(* snapshot while the chain grows.                                         *)
(***************************************************************************)
EXTENDS Archive, TLAPS, SequenceTheorems, WellFoundedInduction

-----------------------------------------------------------------------------
(* Sequences of anything.                                                  *)

\* A sequence over some set is a sequence over its own elements.
LEMMA OwnElements ==
  ASSUME NEW S, NEW s \in Seq(S)
  PROVE  IsSeq(s)
<1> DEFINE R == {s[i] : i \in DOMAIN s}
<1>1. Len(s) \in Nat /\ DOMAIN s = 1..Len(s)
  OBVIOUS
<1>2. s \in [1..Len(s) -> R]
  <2>1. s = [i \in 1..Len(s) |-> s[i]]
    OBVIOUS
  <2>2. \A i \in 1..Len(s) : s[i] \in R
    BY <1>1
  <2> QED
    BY <2>1, <2>2
<1> QED
  BY <1>1, <1>2, SeqDef DEF IsSeq

\* Two sequences are sequences over one set.
LEMMA CommonSet ==
  ASSUME NEW s, IsSeq(s), NEW t, IsSeq(t)
  PROVE  \E S : s \in Seq(S) /\ t \in Seq(S)
<1> DEFINE A == {s[i] : i \in DOMAIN s}
           B == {t[i] : i \in DOMAIN t}
<1>1. s \in Seq(A) /\ t \in Seq(B)
  BY DEF IsSeq
<1> HIDE DEF A, B
<1>2. s \in Seq(A \cup B) /\ t \in Seq(A \cup B)
  BY <1>1, SeqMonotonic
<1> QED
  BY <1>2

\* The length and the domain of a sequence.
LEMMA SeqFacts ==
  ASSUME NEW s, IsSeq(s)
  PROVE  /\ Len(s) \in Nat /\ DOMAIN s = 1..Len(s)
         /\ s = [i \in 1..Len(s) |-> s[i]]
<1> DEFINE S == {s[i] : i \in DOMAIN s}
<1>1. s \in Seq(S)
  BY DEF IsSeq
<1> HIDE DEF S
<1> QED
  BY <1>1

\* A function on 1..n is a sequence of length n.
LEMMA SeqOfFunction ==
  ASSUME NEW n \in Nat, NEW f, f = [i \in 1..n |-> f[i]]
  PROVE  IsSeq(f) /\ Len(f) = n
<1> DEFINE S == {f[i] : i \in 1..n}
<1>1. f \in [1..n -> S]
  <2>1. \A i \in 1..n : f[i] \in S
    OBVIOUS
  <2> HIDE DEF S
  <2> QED
    BY <2>1
<1>2. f \in Seq(S)
  BY <1>1, SeqDef
<1>3. Len(f) = n
  <2> HIDE DEF S
  <2> QED
    BY <1>1, <1>2, LenProperties
<1> QED
  BY <1>2, <1>3, OwnElements

LEMMA SeqConcat ==
  ASSUME NEW s, IsSeq(s), NEW t, IsSeq(t)
  PROVE  /\ IsSeq(s \o t) /\ Len(s \o t) = Len(s) + Len(t)
         /\ \A i \in 1..Len(s) : (s \o t)[i] = s[i]
         /\ \A i \in 1..Len(t) : (s \o t)[Len(s) + i] = t[i]
<1>1. PICK S : s \in Seq(S) /\ t \in Seq(S)
  BY CommonSet
<1>2. /\ s \o t \in Seq(S)
      /\ Len(s \o t) = Len(s) + Len(t)
      /\ \A i \in 1 .. Len(s) + Len(t) : (s \o t)[i] =
            IF i <= Len(s) THEN s[i] ELSE t[i - Len(s)]
  BY <1>1, ConcatProperties
<1>3. IsSeq(s \o t)
  BY <1>2, OwnElements
<1>4. Len(s) \in Nat /\ Len(t) \in Nat
  BY SeqFacts
<1>5. ASSUME NEW i \in 1..Len(s)
      PROVE  (s \o t)[i] = s[i]
  BY ONLY <1>2, <1>4, <1>5
<1>6. ASSUME NEW i \in 1..Len(t)
      PROVE  (s \o t)[Len(s) + i] = t[i]
  <2>1. Len(s) + i \in 1..(Len(s) + Len(t)) /\ ~(Len(s) + i <= Len(s)) /\ Len(s) + i - Len(s) = i
    BY ONLY <1>4, <1>6
  <2> QED
    BY ONLY <1>2, <2>1
<1> QED
  BY <1>2, <1>3, <1>5, <1>6

LEMMA SeqSub ==
  ASSUME NEW s, IsSeq(s), NEW a \in Nat, NEW b \in Nat, a >= 1, b <= Len(s), a <= b + 1
  PROVE  /\ IsSeq(SubSeq(s, a, b)) /\ Len(SubSeq(s, a, b)) = b - a + 1
         /\ \A i \in 1..(b - a + 1) : SubSeq(s, a, b)[i] = s[a + i - 1]
<1> DEFINE S == {s[i] : i \in DOMAIN s}
<1>1. s \in Seq(S)
  BY DEF IsSeq
<1>2. Len(s) \in Nat /\ DOMAIN s = 1..Len(s)
  BY SeqFacts
<1>3. \A i \in a..b : s[i] \in S
  BY <1>2
<1> HIDE DEF S
<1>4. /\ SubSeq(s, a, b) \in Seq(S)
      /\ Len(SubSeq(s, a, b)) = IF a <= b THEN b - a + 1 ELSE 0
      /\ \A i \in 1 .. b - a + 1 : SubSeq(s, a, b)[i] = s[a + i - 1]
  BY <1>3, SubSeqProperties
<1>5. (IF a <= b THEN b - a + 1 ELSE 0) = b - a + 1
  OBVIOUS
<1> QED
  BY <1>4, <1>5, OwnElements

LEMMA SeqEmpty == IsSeq(<<>>) /\ Len(<<>>) = 0
<1>1. <<>> \in Seq({})
  BY EmptySeq
<1> QED
  BY <1>1, OwnElements

LEMMA SeqOne ==
  ASSUME NEW x
  PROVE  IsSeq(<<x>>) /\ Len(<<x>>) = 1 /\ <<x>>[1] = x
<1>1. <<x>> \in Seq({x})
  OBVIOUS
<1> QED
  BY <1>1, OwnElements

LEMMA SeqAppend ==
  ASSUME NEW s, IsSeq(s), NEW x
  PROVE  /\ IsSeq(Append(s, x)) /\ Len(Append(s, x)) = Len(s) + 1
         /\ \A i \in 1..Len(s) : Append(s, x)[i] = s[i]
         /\ Append(s, x)[Len(s) + 1] = x
<1> DEFINE S == {s[i] : i \in DOMAIN s}
<1>1. s \in Seq(S)
  BY DEF IsSeq
<1> HIDE DEF S
<1>2. s \in Seq(S \cup {x}) /\ x \in S \cup {x}
  BY <1>1, SeqMonotonic
<1>3. /\ Append(s, x) \in Seq(S \cup {x})
      /\ Len(Append(s, x)) = Len(s) + 1
      /\ \A i \in 1..Len(s) : Append(s, x)[i] = s[i]
      /\ Append(s, x)[Len(s) + 1] = x
  BY <1>2, AppendProperties
<1> QED
  BY <1>3, OwnElements

\* The minimum of a set of natural numbers that is not empty is one of them.
LEMMA MinFacts ==
  ASSUME NEW T, T \subseteq Nat, T # {}
  PROVE  Min(T) \in T
<1>1. PICK x \in T : \A y \in T : ~(<<y, x>> \in OpToRel(<, Nat))
  BY NatLessThanWellFounded, WFMin
<1>2. \A y \in T : x <= y
  <2> TAKE y \in T
  <2>1. ~(y < x)
    BY <1>1 DEF OpToRel
  <2> QED
    BY <2>1
<1> QED
  BY <1>2 DEF Min

-----------------------------------------------------------------------------
(* One direction of a connection, before and after a step.                 *)

\* What ipc_recv has returned at the end of wire w.
Value(w) ==
  CASE w.receiver = "done" ->
         Req!Message(w.got[1].type, SubSeq(w.got, HEADER_SIZE + 1, Len(w.got)))
    [] w.receiver = "failed" -> [state |-> "error"]
    [] OTHER -> NoResult

\* One write of write_full, and one read of read_full.
Writes(w, v) ==
  \E n \in 1..Req!AtMost(Len(w.todo), SOCKET_BUFFER - Len(w.buffer)) :
    v = [w EXCEPT !.buffer = @ \o SubSeq(w.todo, 1, n),
                  !.todo = SubSeq(@, n + 1, Len(@))]
Reads(w, v) ==
  /\ w.receiver = "reading"
  /\ \E n \in 1..Req!AtMost(Len(w.buffer), Req!Wanted(w.got)) :
       LET got == w.got \o SubSeq(w.buffer, 1, n)
       IN v = [w EXCEPT !.got = got, !.receiver = Req!AfterRead(got),
                        !.buffer = SubSeq(@, n + 1, Len(@))]

\* What a step looks like to Delivery.
Delivers(w, v) ==
  \/ v.message = w.message /\ Value(v) = Value(w)
  \/ w.message = NoResult /\ v.message.state = "message" /\ Value(v) = Value(w)
  \/ /\ w.message.state = "message" /\ v.message = w.message
     /\ Value(w) = NoResult /\ Value(v) = w.message
  \/ v.message = w.message /\ Value(w) = NoResult /\ Value(v) = [state |-> "error"]
  \/ (v.message = NoResult \/ v.message.state = "message") /\ Value(v) = NoResult

LEMMA ValueFacts ==
  ASSUME NEW w
  PROVE  /\ w.receiver = "done" =>
              Value(w) = Req!Message(w.got[1].type,
                                     SubSeq(w.got, HEADER_SIZE + 1, Len(w.got)))
         /\ w.receiver = "failed" => Value(w) = [state |-> "error"]
         /\ w.receiver \notin {"done", "failed"} => Value(w) = NoResult
  BY DEF Value

\* The cells of a message: its header, and then its payload.
LEMMA CellFacts ==
  ASSUME NEW m, IsSeq(m.payload)
  PROVE  /\ Len(m.payload) \in Nat
         /\ \A i \in 1..HEADER_SIZE : /\ Cells(m)[i].type = m.type
                                      /\ Cells(m)[i].payload_len = Len(m.payload)
         /\ \A i \in 1..Len(m.payload) : Cells(m)[HEADER_SIZE + i] = m.payload[i]
         /\ IsSeq(Cells(m)) /\ Len(Cells(m)) = HEADER_SIZE + Len(m.payload)
<1> PICK p : p = m.payload
  OBVIOUS
<1> PICK h : h = Req!Header(m)
  OBVIOUS
<1>1. HEADER_SIZE \in Nat
  BY IpcAssumption
<1>2. h = [i \in 1..HEADER_SIZE |-> h[i]]
  BY DEF Req!Header
<1>3. IsSeq(h) /\ Len(h) = HEADER_SIZE
  BY <1>1, <1>2, SeqOfFunction
<1>4. \A i \in 1..HEADER_SIZE : h[i].type = m.type /\ h[i].payload_len = Len(m.payload)
  BY DEF Req!Header
<1>8. IsSeq(p)
  OBVIOUS
<1>5. /\ IsSeq(h \o p) /\ Len(h \o p) = Len(h) + Len(p)
      /\ \A i \in 1..Len(h) : (h \o p)[i] = h[i]
      /\ \A i \in 1..Len(p) : (h \o p)[Len(h) + i] = p[i]
  <2>1. /\ IsSeq(h \o p) /\ Len(h \o p) = Len(h) + Len(p)
        /\ \A i \in 1..Len(h) : (h \o p)[i] = h[i]
    BY ONLY <1>3, <1>8, SeqConcat, Zenon
  <2>2. \A i \in 1..Len(p) : (h \o p)[Len(h) + i] = p[i]
    BY ONLY <1>3, <1>8, SeqConcat, SMT
  <2> QED
    BY <2>1, <2>2
<1>6. Cells(m) = h \o p
  BY DEF Cells
<1>7. Len(m.payload) \in Nat
  BY SeqFacts
<1> QED
  BY <1>3, <1>4, <1>5, <1>6, <1>7

\* A message that was read to its end is the message that was sent.
LEMMA ReceivedIsSent ==
  ASSUME NEW w, WireInv(w), w.receiver = "done"
  PROVE  Value(w) = w.message /\ w.message # NoResult /\ w.message.state = "message"
<1> PICK m : m = w.message
  OBVIOUS
<1> PICK p : p = m.payload
  OBVIOUS
<1> PICK g : g = w.got
  OBVIOUS
<1>1. /\ m # NoResult /\ m = Req!Message(m.type, p) /\ IsSeq(p) /\ IsSeq(g)
      /\ Len(g) = HEADER_SIZE + Len(p)
      /\ \A i \in 1..Len(g) : g[i] = Cells(m)[i]
  BY DEF WireInv, Placed
<1>2. /\ Len(p) \in Nat
      /\ \A i \in 1..HEADER_SIZE : Cells(m)[i].type = m.type
      /\ \A i \in 1..Len(p) : Cells(m)[HEADER_SIZE + i] = p[i]
  BY <1>1, CellFacts
<1>3. HEADER_SIZE \in Nat /\ HEADER_SIZE >= 1
  BY IpcAssumption
<1>4. g[1].type = m.type
  <2>1. 1 \in 1..Len(g) /\ 1 \in 1..HEADER_SIZE
    BY <1>1, <1>2, <1>3
  <2> QED
    BY <2>1, <1>1, <1>2
<1>5. SubSeq(g, HEADER_SIZE + 1, Len(g)) = p
  <2> PICK q : q = SubSeq(g, HEADER_SIZE + 1, Len(g))
    OBVIOUS
  <2>a. PICK a : a = HEADER_SIZE + 1
    OBVIOUS
  <2>b. PICK b : b = Len(g)
    OBVIOUS
  <2>1. a \in Nat /\ b \in Nat /\ a >= 1 /\ b <= Len(g) /\ a <= b + 1 /\ b - a + 1 = Len(p)
    BY ONLY <1>1, <1>2, <1>3, <2>a, <2>b
  <2>2. /\ IsSeq(q) /\ Len(q) = Len(p)
        /\ \A i \in 1..Len(p) : q[i] = g[a + i - 1]
    <3>1. /\ IsSeq(SubSeq(g, a, b)) /\ Len(SubSeq(g, a, b)) = b - a + 1
          /\ \A i \in 1..(b - a + 1) : SubSeq(g, a, b)[i] = g[a + i - 1]
      BY ONLY <1>1, <2>1, SeqSub
    <3> QED
      BY <3>1, <2>1, <2>a, <2>b
  <2>3. ASSUME NEW i \in 1..Len(p)
        PROVE  q[i] = p[i]
    <3>1. a + i - 1 = HEADER_SIZE + i /\ HEADER_SIZE + i \in 1..Len(g)
      BY ONLY <1>1, <1>2, <1>3, <2>3, <2>a
    <3> QED
      BY ONLY <3>1, <2>2, <2>3, <1>1, <1>2
  <2>4. q = [i \in 1..Len(q) |-> q[i]] /\ p = [i \in 1..Len(p) |-> p[i]]
    BY <1>1, <2>2, SeqFacts
  <2>5. q = [i \in 1..Len(p) |-> p[i]]
    BY <2>2, <2>3, <2>4
  <2> QED
    BY <2>4, <2>5
<1>6. Value(w) = Req!Message(m.type, p)
  BY <1>4, <1>5, ValueFacts
<1>7. m.state = "message"
  BY <1>1 DEF Req!Message
<1> QED
  BY <1>1, <1>6, <1>7

\* The first n cells of t are moved to the end of b.
Moves(t, b, n, t2, b2) == b2 = b \o SubSeq(t, 1, n) /\ t2 = SubSeq(t, n + 1, Len(t))

\* Moving n cells from the front of t to the end of b leaves every cell at
\* its place in the message.
LEMMA Moved ==
  ASSUME NEW b, IsSeq(b), NEW t, IsSeq(t), NEW n \in Nat, 1 <= n, n <= Len(t),
         NEW m, NEW k \in Nat, Placed(b, m, k), Placed(t, m, k + Len(b)),
         NEW c, NEW y, Moves(t, b, n, y, c)
  PROVE  /\ IsSeq(c) /\ Len(c) = Len(b) + n /\ IsSeq(y) /\ Len(y) = Len(t) - n
         /\ Placed(c, m, k) /\ Placed(y, m, k + Len(c))
<1>1. PICK x : x = SubSeq(t, 1, n)
  OBVIOUS
<1>C. PICK C : C = Cells(m)
  OBVIOUS
<1>P. /\ \A i \in 1..Len(b) : b[i] = C[k + i]
      /\ \A i \in 1..Len(t) : t[i] = C[k + Len(b) + i]
  BY <1>C DEF Placed
<1>2. Len(t) \in Nat /\ Len(b) \in Nat
  BY ONLY IsSeq(t), IsSeq(b), SeqFacts
<1>3. /\ IsSeq(x) /\ Len(x) = n
      /\ \A i \in 1..n : x[i] = t[i]
  <2>1. PICK a : a = 1
    OBVIOUS
  <2>2. a \in Nat /\ a >= 1 /\ a <= n + 1
    BY ONLY <2>1, n \in Nat, 1 <= n
  <2>3. /\ IsSeq(SubSeq(t, a, n)) /\ Len(SubSeq(t, a, n)) = n - a + 1
        /\ \A i \in 1..(n - a + 1) : SubSeq(t, a, n)[i] = t[a + i - 1]
    BY ONLY IsSeq(t), n \in Nat, n <= Len(t), <2>2, SeqSub
  <2>4. n - a + 1 = n /\ \A i \in 1..n : a + i - 1 = i
    BY ONLY <2>1, n \in Nat
  <2>5. /\ Len(SubSeq(t, a, n)) = n
        /\ \A i \in 1..n : SubSeq(t, a, n)[i] = t[i]
    BY ONLY <2>3, <2>4
  <2> QED
    BY ONLY <1>1, <2>1, <2>3, <2>5
<1>4. /\ IsSeq(y) /\ Len(y) = Len(t) - n
      /\ \A i \in 1..(Len(t) - n) : y[i] = t[n + i]
  <2>1. PICK a : a = n + 1
    OBVIOUS
  <2>2. a \in Nat /\ a >= 1 /\ a <= Len(t) + 1 /\ Len(t) <= Len(t)
    BY ONLY <1>2, <2>1, n \in Nat, n <= Len(t)
  <2>3. /\ IsSeq(SubSeq(t, a, Len(t)))
        /\ Len(SubSeq(t, a, Len(t))) = Len(t) - a + 1
        /\ \A i \in 1..(Len(t) - a + 1) : SubSeq(t, a, Len(t))[i] = t[a + i - 1]
    BY ONLY IsSeq(t), <1>2, <2>2, SeqSub
  <2>4. Len(t) - a + 1 = Len(t) - n /\ \A i \in 1..(Len(t) - n) : a + i - 1 = n + i
    BY ONLY <1>2, <2>1, n \in Nat
  <2>5. /\ Len(SubSeq(t, a, Len(t))) = Len(t) - n
        /\ \A i \in 1..(Len(t) - n) : SubSeq(t, a, Len(t))[i] = t[n + i]
    BY ONLY <2>3, <2>4
  <2>6. y = SubSeq(t, a, Len(t))
    BY <2>1 DEF Moves
  <2> QED
    BY ONLY <2>6, <2>3, <2>5
<1>5. /\ IsSeq(c) /\ Len(c) = Len(b) + n
      /\ \A i \in 1..Len(b) : c[i] = b[i]
      /\ \A i \in 1..n : c[Len(b) + i] = t[i]
  <2>1. /\ IsSeq(b \o x) /\ Len(b \o x) = Len(b) + Len(x)
        /\ \A i \in 1..Len(b) : (b \o x)[i] = b[i]
    BY ONLY IsSeq(b), <1>3, SeqConcat, Zenon
  <2>2. \A i \in 1..Len(x) : (b \o x)[Len(b) + i] = x[i]
    BY ONLY IsSeq(b), <1>3, SeqConcat, SMT
  <2>3. c = b \o x
    BY <1>1 DEF Moves
  <2> QED
    BY ONLY <2>1, <2>2, <2>3, <1>3
<1>6. ASSUME NEW i \in 1..Len(c)
      PROVE  c[i] = C[k + i]
  <2>1. CASE i <= Len(b)
    <3>1. i \in 1..Len(b)
      BY ONLY <2>1, <1>2, <1>6
    <3> QED
      BY ONLY <3>1, <1>5, <1>P
  <2>2. CASE i > Len(b)
    <3>1. PICK j : j = i - Len(b)
      OBVIOUS
    <3>2. j \in 1..n /\ j \in 1..Len(t) /\ i = Len(b) + j /\ k + Len(b) + j = k + i
      BY ONLY <2>2, <1>2, <1>5, <1>6, <3>1, n \in Nat, n <= Len(t), k \in Nat
    <3> QED
      BY ONLY <3>2, <1>5, <1>P
  <2> QED
    BY ONLY <2>1, <2>2, <1>2, <1>6
<1>7. ASSUME NEW i \in 1..Len(y)
      PROVE  y[i] = C[k + Len(c) + i]
  <2>1. n + i \in 1..Len(t) /\ i \in 1..(Len(t) - n) /\ k + Len(b) + (n + i) = k + Len(c) + i
    BY ONLY <1>2, <1>4, <1>5, <1>7, n \in Nat, k \in Nat
  <2> QED
    BY ONLY <2>1, <1>4, <1>P
<1> QED
  BY ONLY <1>4, <1>5, <1>6, <1>7, <1>C DEF Placed

\* A write moves cells from the sender into the kernel.
LEMMA WriteStep ==
  ASSUME NEW w, NEW v, WireInv(w), Writes(w, v)
  PROVE  WireInv(v) /\ Delivers(w, v) /\ v.message = w.message
<1>1. PICK n \in 1..Req!AtMost(Len(w.todo), SOCKET_BUFFER - Len(w.buffer)) :
        v = [w EXCEPT !.buffer = @ \o SubSeq(w.todo, 1, n),
                      !.todo = SubSeq(@, n + 1, Len(@))]
  BY DEF Writes
<1> PICK m : m = w.message
  OBVIOUS
<1> PICK t : t = w.todo
  OBVIOUS
<1> PICK b : b = w.buffer
  OBVIOUS
<1> PICK g : g = w.got
  OBVIOUS
<1>2. PICK y : y = SubSeq(t, n + 1, Len(t))
  OBVIOUS
<1>3. PICK c : c = b \o SubSeq(t, 1, n)
  OBVIOUS
<1>4. /\ w = [message |-> m, todo |-> t, buffer |-> b, got |-> g,
              sender |-> w.sender, receiver |-> w.receiver]
      /\ IsSeq(t) /\ IsSeq(b) /\ IsSeq(g)
  BY DEF WireInv
<1>5. v = [message |-> m, todo |-> y, buffer |-> c, got |-> g,
           sender |-> w.sender, receiver |-> w.receiver]
  BY <1>1, <1>2, <1>3, <1>4
<1>6. Len(t) \in Nat /\ Len(b) \in Nat /\ Len(g) \in Nat
  BY <1>4, SeqFacts
<1>7. n \in Nat /\ 1 <= n /\ n <= Len(t)
  BY <1>1, <1>6, IpcAssumption DEF Req!AtMost
<1>8. m # NoResult
  BY <1>6, <1>7, SeqEmpty DEF WireInv
<1>9. /\ m = Req!Message(m.type, m.payload) /\ IsSeq(m.payload)
      /\ Len(m.payload) <= MAX_PAYLOAD_SIZE
      /\ Len(g) + Len(b) + Len(t) <= HEADER_SIZE + Len(m.payload)
      /\ Placed(g, m, 0) /\ Placed(b, m, Len(g)) /\ Placed(t, m, Len(g) + Len(b))
      /\ w.receiver = "done" => Len(g) = HEADER_SIZE + Len(m.payload)
  BY <1>8 DEF WireInv
<1>10. /\ IsSeq(c) /\ Len(c) = Len(b) + n /\ IsSeq(y) /\ Len(y) = Len(t) - n
       /\ Placed(c, m, Len(g)) /\ Placed(y, m, Len(g) + Len(c))
  <2>1. Moves(t, b, n, y, c)
    BY ONLY <1>2, <1>3 DEF Moves
  <2> QED
    BY ONLY <1>4, <1>6, <1>7, <1>9, <2>1, Moved
<1>11. Len(g) + Len(c) + Len(y) <= HEADER_SIZE + Len(m.payload)
  <2>1. Len(g) + Len(c) + Len(y) = Len(g) + Len(b) + Len(t)
    BY ONLY <1>6, <1>7, <1>10
  <2> QED
    BY <2>1, <1>9
<1>12. /\ v.message = m /\ v.todo = y /\ v.buffer = c /\ v.got = g
       /\ v.sender = w.sender /\ v.receiver = w.receiver
       /\ v = [message |-> v.message, todo |-> v.todo, buffer |-> v.buffer, got |-> v.got,
               sender |-> v.sender, receiver |-> v.receiver]
  BY <1>5
<1>13. w.sender \in {"open", "closed"} /\ w.receiver \in {"reading", "done", "failed", "closed"}
  BY DEF WireInv
<1>14. WireInv(v)
  BY ONLY <1>4, <1>8, <1>9, <1>10, <1>11, <1>12, <1>13 DEF WireInv
<1>15. v.message = w.message /\ Value(v) = Value(w)
  BY <1>12 DEF Value
<1> QED
  BY <1>14, <1>15 DEF Delivers

\* A read moves cells from the kernel to the receiver, which takes the
\* message for complete only when it is.
LEMMA ReadStep ==
  ASSUME NEW w, NEW v, WireInv(w), Reads(w, v)
  PROVE  WireInv(v) /\ Delivers(w, v) /\ v.message = w.message
<1>1. PICK n \in 1..Req!AtMost(Len(w.buffer), Req!Wanted(w.got)) :
        v = [w EXCEPT !.got = w.got \o SubSeq(w.buffer, 1, n),
                      !.receiver = Req!AfterRead(w.got \o SubSeq(w.buffer, 1, n)),
                      !.buffer = SubSeq(@, n + 1, Len(@))]
  BY DEF Reads
<1> PICK m : m = w.message
  OBVIOUS
<1> PICK t : t = w.todo
  OBVIOUS
<1> PICK b : b = w.buffer
  OBVIOUS
<1> PICK g : g = w.got
  OBVIOUS
<1>2. PICK y : y = SubSeq(b, n + 1, Len(b))
  OBVIOUS
<1>3. PICK c : c = g \o SubSeq(b, 1, n)
  OBVIOUS
<1>4. /\ w = [message |-> m, todo |-> t, buffer |-> b, got |-> g,
              sender |-> w.sender, receiver |-> w.receiver]
      /\ IsSeq(t) /\ IsSeq(b) /\ IsSeq(g)
  BY DEF WireInv
<1>5. v = [message |-> m, todo |-> t, buffer |-> y, got |-> c,
           sender |-> w.sender, receiver |-> Req!AfterRead(c)]
  BY <1>1, <1>2, <1>3, <1>4
<1>6. Len(t) \in Nat /\ Len(b) \in Nat /\ Len(g) \in Nat
  BY <1>4, SeqFacts
<1>7. m # NoResult
  <2> SUFFICES ASSUME m = NoResult PROVE FALSE
    OBVIOUS
  <2>1. Len(b) = 0 /\ Len(g) = 0
    BY SeqEmpty DEF WireInv
  <2>2. Req!Wanted(g) = HEADER_SIZE
    BY <2>1, IpcAssumption DEF Req!Wanted
  <2>3. Req!AtMost(Len(b), Req!Wanted(g)) = 0
    BY <2>1, <2>2, IpcAssumption DEF Req!AtMost
  <2> QED
    BY <1>1, <2>3
<1>8. /\ m = Req!Message(m.type, m.payload) /\ IsSeq(m.payload)
      /\ Len(m.payload) <= MAX_PAYLOAD_SIZE
      /\ Len(g) + Len(b) + Len(t) <= HEADER_SIZE + Len(m.payload)
      /\ Placed(g, m, 0) /\ Placed(b, m, Len(g)) /\ Placed(t, m, Len(g) + Len(b))
  BY <1>7 DEF WireInv
<1>9. PICK L : L = Len(m.payload)
  OBVIOUS
<1>10. /\ L \in Nat /\ HEADER_SIZE \in Nat /\ HEADER_SIZE >= 1
       /\ \A i \in 1..HEADER_SIZE : Cells(m)[i].payload_len = L
  <2>1. /\ Len(m.payload) \in Nat
        /\ \A i \in 1..HEADER_SIZE : Cells(m)[i].payload_len = Len(m.payload)
    BY ONLY <1>8, CellFacts
  <2> QED
    BY <1>9, <2>1, IpcAssumption
<1>11. Req!Wanted(g) = IF Len(g) < HEADER_SIZE THEN HEADER_SIZE - Len(g)
                       ELSE HEADER_SIZE + L - Len(g)
  <2>1. CASE Len(g) < HEADER_SIZE
    BY <2>1 DEF Req!Wanted
  <2>2. CASE ~(Len(g) < HEADER_SIZE)
    <3>1. HEADER_SIZE \in 1..Len(g) /\ HEADER_SIZE \in 1..HEADER_SIZE
      BY ONLY <1>6, <1>10, <2>2
    <3>2. g[HEADER_SIZE].payload_len = L
      <4>1. g[HEADER_SIZE] = Cells(m)[0 + HEADER_SIZE] /\ 0 + HEADER_SIZE = HEADER_SIZE
        BY ONLY <3>1, <1>8, <1>10 DEF Placed
      <4> QED
        BY ONLY <4>1, <3>1, <1>10
    <3> QED
      BY <2>2, <3>2 DEF Req!Wanted
  <2> QED
    BY <2>1, <2>2
<1>12. n \in Nat /\ 1 <= n /\ n <= Len(b)
  <2>1. Req!Wanted(g) \in Int
    BY ONLY <1>6, <1>10, <1>11
  <2>2. PICK a : a = Req!Wanted(g)
    OBVIOUS
  <2>3. n \in 1..Req!AtMost(Len(b), a)
    BY <1>1, <2>2
  <2> QED
    BY ONLY <1>6, <2>1, <2>2, <2>3 DEF Req!AtMost
<1>13. /\ IsSeq(c) /\ Len(c) = Len(g) + n /\ IsSeq(y) /\ Len(y) = Len(b) - n
       /\ Placed(c, m, 0) /\ Placed(y, m, Len(c))
  <2>1. 0 \in Nat /\ 0 + Len(g) = Len(g)
    BY ONLY <1>6
  <2>2. /\ IsSeq(c) /\ Len(c) = Len(g) + n /\ IsSeq(y) /\ Len(y) = Len(b) - n
        /\ Placed(c, m, 0) /\ Placed(y, m, 0 + Len(c))
    <3>1. Moves(b, g, n, y, c)
      BY ONLY <1>2, <1>3 DEF Moves
    <3>2. Placed(b, m, 0 + Len(g))
      BY ONLY <2>1, <1>8
    <3> QED
      BY ONLY <1>4, <1>8, <1>12, <2>1, <3>1, <3>2, Moved
  <2>3. 0 + Len(c) = Len(c)
    BY ONLY <1>6, <1>12, <2>2
  <2> QED
    BY ONLY <2>2, <2>3
<1>14. Len(c) \in Nat /\ Len(c) + Len(y) = Len(g) + Len(b)
  BY ONLY <1>6, <1>12, <1>13
<1>15. Placed(t, m, Len(c) + Len(y))
  BY ONLY <1>8, <1>14
<1>16. /\ Len(c) + Len(y) + Len(t) <= HEADER_SIZE + Len(m.payload)
       /\ Len(c) <= HEADER_SIZE + L
  <2>1. Len(y) \in Nat
    BY ONLY <1>6, <1>12, <1>13
  <2>2. Len(g) + Len(b) + Len(t) <= HEADER_SIZE + L
    BY ONLY <1>8, <1>9
  <2>3. Len(c) + Len(y) + Len(t) <= HEADER_SIZE + L
    BY ONLY <1>14, <2>2
  <2>4. Len(c) <= HEADER_SIZE + L
    BY ONLY <1>6, <1>10, <1>14, <2>1, <2>3
  <2> QED
    BY ONLY <1>9, <2>3, <2>4
<1>17. /\ Req!AfterRead(c) \in {"reading", "done"}
       /\ Req!AfterRead(c) = "done" => Len(c) = HEADER_SIZE + L
  <2>1. CASE Len(c) < HEADER_SIZE
    BY <2>1, <1>10, <1>14 DEF Req!AfterRead
  <2>2. CASE ~(Len(c) < HEADER_SIZE)
    <3>1. HEADER_SIZE \in 1..Len(c) /\ HEADER_SIZE \in 1..HEADER_SIZE
      BY ONLY <1>10, <1>14, <2>2
    <3>2. c[HEADER_SIZE].payload_len = L
      <4>1. c[HEADER_SIZE] = Cells(m)[0 + HEADER_SIZE] /\ 0 + HEADER_SIZE = HEADER_SIZE
        BY ONLY <3>1, <1>10, <1>13 DEF Placed
      <4> QED
        BY ONLY <4>1, <3>1, <1>10
    <3>3. Req!Wanted(c) = HEADER_SIZE + L - Len(c)
      BY ONLY <2>2, <3>2 DEF Req!Wanted
    <3>4. ~(L > MAX_PAYLOAD_SIZE)
      BY <1>8, <1>9, <1>10, IpcAssumption
    <3>5. Req!AfterRead(c) = IF HEADER_SIZE + L - Len(c) = 0 THEN "done" ELSE "reading"
      BY ONLY <1>10, <1>14, <2>2, <3>2, <3>3, <3>4 DEF Req!AfterRead
    <3> QED
      BY ONLY <1>10, <1>14, <3>5
  <2> QED
    BY <2>1, <2>2
<1>18. /\ v.message = m /\ v.todo = t /\ v.buffer = y /\ v.got = c
       /\ v.sender = w.sender /\ v.receiver = Req!AfterRead(c)
       /\ v = [message |-> v.message, todo |-> v.todo, buffer |-> v.buffer, got |-> v.got,
               sender |-> v.sender, receiver |-> v.receiver]
  BY <1>5
<1>19. w.sender \in {"open", "closed"}
  BY DEF WireInv
<1>20. WireInv(v)
  BY ONLY <1>4, <1>7, <1>8, <1>9, <1>13, <1>15, <1>16, <1>17, <1>18, <1>19 DEF WireInv
<1>21. Value(w) = NoResult
  BY ValueFacts DEF Reads
<1>22. m.state = "message"
  BY <1>8 DEF Req!Message
<1>23. CASE v.receiver = "done"
  <2>1. Value(v) = m
    BY <1>18, <1>20, <1>23, ReceivedIsSent
  <2> QED
    BY <1>18, <1>20, <1>21, <1>22, <2>1 DEF Delivers
<1>24. CASE v.receiver = "reading"
  <2>1. Value(v) = NoResult
    BY <1>24, ValueFacts
  <2> QED
    BY <1>18, <1>20, <1>21, <2>1 DEF Delivers
<1> QED
  BY <1>17, <1>18, <1>23, <1>24

\* The end of the connection, or either end closed by its process.
LEMMA CloseStep ==
  ASSUME NEW w, NEW v, WireInv(w),
         \/ w.receiver = "reading" /\ v = [w EXCEPT !.receiver = "failed"]
         \/ v = Req!CloseSender(w)
         \/ v = Req!CloseReceiver(w)
  PROVE  WireInv(v) /\ Delivers(w, v) /\ v.message = w.message
<1>1. /\ w = [message |-> w.message, todo |-> w.todo, buffer |-> w.buffer, got |-> w.got,
              sender |-> w.sender, receiver |-> w.receiver]
      /\ Len(w.got) \in Nat /\ Len(w.buffer) \in Nat /\ Len(w.todo) \in Nat
  BY SeqFacts DEF WireInv
<1>2. CASE w.receiver = "reading" /\ v = [w EXCEPT !.receiver = "failed"]
  <2>1. v = [message |-> w.message, todo |-> w.todo, buffer |-> w.buffer, got |-> w.got,
             sender |-> w.sender, receiver |-> "failed"]
    BY <1>1, <1>2
  <2>2. WireInv(v)
    BY <2>1 DEF WireInv
  <2>3. Value(w) = NoResult /\ Value(v) = [state |-> "error"]
    BY <1>2, <2>1, ValueFacts
  <2> QED
    BY <2>1, <2>2, <2>3 DEF Delivers
<1>3. CASE v = Req!CloseSender(w)
  <2>1. v = [message |-> w.message, todo |-> <<>>, buffer |-> w.buffer, got |-> w.got,
             sender |-> "closed", receiver |-> w.receiver]
    BY <1>1, <1>3 DEF Req!CloseSender
  <2>2. WireInv(v)
    <3>1. CASE w.message = NoResult
      BY <2>1, <3>1, SeqEmpty DEF WireInv
    <3>2. CASE w.message # NoResult
      <4>1. IsSeq(w.message.payload)
        BY <3>2 DEF WireInv
      <4>2. Len(w.message.payload) \in Nat /\ HEADER_SIZE \in Nat
        BY <4>1, SeqFacts, IpcAssumption
      <4>3. Len(w.got) + Len(w.buffer) + Len(<<>>) <= HEADER_SIZE + Len(w.message.payload)
        BY <1>1, <3>2, <4>2, SeqEmpty DEF WireInv
      <4> QED
        BY <2>1, <3>2, <4>3, SeqEmpty DEF WireInv, Placed
    <3> QED
      BY <3>1, <3>2
  <2>3. Value(v) = Value(w)
    BY <2>1 DEF Value
  <2> QED
    BY <2>1, <2>2, <2>3 DEF Delivers
<1>4. CASE v = Req!CloseReceiver(w)
  <2>1. v = [message |-> w.message, todo |-> w.todo, buffer |-> w.buffer, got |-> w.got,
             sender |-> w.sender,
             receiver |-> IF w.receiver = "reading" THEN "closed" ELSE w.receiver]
    BY <1>1, <1>4 DEF Req!CloseReceiver
  <2>2. WireInv(v)
    BY <2>1 DEF WireInv
  <2>3. Value(v) = Value(w)
    <3>1. CASE w.receiver = "reading"
      BY <2>1, <3>1, ValueFacts
    <3>2. CASE w.receiver # "reading"
      BY <1>1, <2>1, <3>2
    <3> QED
      BY <3>1, <3>2
  <2> QED
    BY <2>1, <2>2, <2>3 DEF Delivers
<1> QED
  BY <1>2, <1>3, <1>4

LEMMA NewWireFacts ==
  /\ WireInv(Req!NewWire) /\ Req!NewWire.message = NoResult
  /\ Resp!NewWire = Req!NewWire
  /\ Value(Req!NewWire) = NoResult
<1>1. WireInv(Req!NewWire) /\ Req!NewWire.message = NoResult
  BY SeqEmpty DEF WireInv, Req!NewWire, Req!Nothing, NoResult
<1>2. Resp!NewWire = Req!NewWire
  BY DEF Resp!NewWire, Req!NewWire, Resp!Nothing, Req!Nothing
<1>3. Value(Req!NewWire) = NoResult
  <2>1. Req!NewWire.receiver = "reading"
    BY DEF Req!NewWire
  <2> QED
    BY <2>1, ValueFacts
<1> QED
  BY <1>1, <1>2, <1>3

\* ipc_send puts all cells of the message on a wire that had none, or leaves
\* the wire alone.
LEMMA SendStep ==
  ASSUME NEW w, WireInv(w), w.message = NoResult,
         NEW m, m = Req!Message(m.type, m.payload), IsSeq(m.payload),
         NEW v, v = Req!ipc_send(w, m)
  PROVE  /\ WireInv(v) /\ Delivers(w, v)
         /\ v = w \/ (v # w /\ v.message = m)
         /\ v.message \in {NoResult, m} /\ Value(v) = Value(w)
<1>1. w = [message |-> NoResult, todo |-> <<>>, buffer |-> <<>>, got |-> <<>>,
           sender |-> w.sender, receiver |-> w.receiver]
  BY DEF WireInv
<1>2. m.state = "message" /\ m # NoResult
  BY DEF Req!Message, NoResult
<1>3. CASE Len(m.payload) > MAX_PAYLOAD_SIZE
  BY <1>3 DEF Req!ipc_send, Delivers
<1>4. CASE ~(Len(m.payload) > MAX_PAYLOAD_SIZE)
  <2>1. v = [message |-> m, todo |-> Cells(m), buffer |-> <<>>, got |-> <<>>,
             sender |-> w.sender, receiver |-> w.receiver]
    <3>1. PICK c : c = Cells(m)
      OBVIOUS
    <3>2. v = [w EXCEPT !.message = m, !.todo = c]
      BY <1>4, <3>1, Zenon DEF Req!ipc_send, Cells
    <3>3. v = [message |-> m, todo |-> c, buffer |-> <<>>, got |-> <<>>,
               sender |-> w.sender, receiver |-> w.receiver]
      <4>1. PICK s : s = w.sender
        OBVIOUS
      <4>2. PICK x : x = w.receiver
        OBVIOUS
      <4>3. PICK e : e = <<>>
        OBVIOUS
      <4>4. w = [message |-> NoResult, todo |-> e, buffer |-> e, got |-> e,
                 sender |-> s, receiver |-> x]
        BY <1>1, <4>1, <4>2, <4>3
      <4>5. v = [message |-> m, todo |-> c, buffer |-> e, got |-> e, sender |-> s, receiver |-> x]
        BY ONLY <4>4, <3>2
      <4> QED
        BY ONLY <4>1, <4>2, <4>3, <4>5
    <3> QED
      BY ONLY <3>1, <3>3
  <2>2. /\ IsSeq(Cells(m)) /\ Len(Cells(m)) = HEADER_SIZE + Len(m.payload)
        /\ Len(m.payload) \in Nat
    BY CellFacts
  <2>3. Len(m.payload) <= MAX_PAYLOAD_SIZE
    BY <1>4, <2>2, IpcAssumption
  <2>4. Placed(Cells(m), m, 0 + 0)
    BY <2>2, IpcAssumption DEF Placed
  <2>5. 0 + 0 + Len(Cells(m)) <= HEADER_SIZE + Len(m.payload)
    BY <2>2, IpcAssumption
  <2>6. Placed(<<>>, m, 0)
    BY SeqEmpty DEF Placed
  <2>7. /\ w.sender \in {"open", "closed"} /\ w.receiver \in {"reading", "failed", "closed"}
    BY DEF WireInv
  <2>8. /\ v.message = m /\ v.todo = Cells(m) /\ v.buffer = <<>> /\ v.got = <<>>
        /\ v.sender = w.sender /\ v.receiver = w.receiver
    BY <2>1
  <2>9. WireInv(v)
    <3>1. v = [message |-> v.message, todo |-> v.todo, buffer |-> v.buffer, got |-> v.got,
               sender |-> v.sender, receiver |-> v.receiver]
      BY <2>1
    <3> QED
      BY <1>2, <2>2, <2>3, <2>4, <2>5, <2>6, <2>7, <2>8, <3>1, SeqEmpty DEF WireInv
  <2>10. Value(v) = Value(w)
    BY <2>7, <2>8, ValueFacts
  <2> QED
    BY <1>2, <2>8, <2>9, <2>10 DEF Delivers
<1> QED
  BY <1>3, <1>4

-----------------------------------------------------------------------------
(* Both wires.                                                             *)

LEMMA RequestSteps ==
  /\ Req!Write => Writes(request, request')
  /\ Req!Read => Reads(request, request')
  /\ Req!Received = Value(request)
<1>1. Req!Write => Writes(request, request')
  BY DEF Req!Write, Writes
<1>2. Req!Read => Reads(request, request')
  BY DEF Req!Read, Reads
<1>3. Req!Received = Value(request)
  BY DEF Req!Received, Value, Req!Nothing, NoResult
<1> QED
  BY <1>1, <1>2, <1>3

LEMMA ResponseSteps ==
  /\ Resp!Write => Writes(response, response')
  /\ Resp!Read => Reads(response, response')
  /\ Resp!EndOfStream => /\ response.receiver = "reading"
                         /\ response' = [response EXCEPT !.receiver = "failed"]
  /\ Resp!Received = Value(response)
<1>1. Resp!Write => Writes(response, response')
  BY DEF Resp!Write, Writes, Resp!AtMost, Req!AtMost
<1>2. Resp!Read => Reads(response, response')
  <2>1. ASSUME NEW g PROVE Resp!AfterRead(g) = Req!AfterRead(g) /\ Resp!Wanted(g) = Req!Wanted(g)
    BY DEF Resp!AfterRead, Req!AfterRead, Resp!Wanted, Req!Wanted
  <2>2. ASSUME NEW a, NEW b PROVE Resp!AtMost(a, b) = Req!AtMost(a, b)
    BY DEF Resp!AtMost, Req!AtMost
  <2> QED
    BY <2>1, <2>2 DEF Resp!Read, Reads
<1>3. Resp!EndOfStream => /\ response.receiver = "reading"
                         /\ response' = [response EXCEPT !.receiver = "failed"]
  BY DEF Resp!EndOfStream
<1>4. Resp!Received = Value(response)
  BY DEF Resp!Received, Value, Resp!Nothing, NoResult, Resp!Message, Req!Message
<1> QED
  BY <1>1, <1>2, <1>3, <1>4

\* What the two wires show is what Delivery allows.
LEMMA RequestDelivers ==
  /\ request = Req!NewWire => Req!D!Init
  /\ Delivers(request, request') => [Req!D!Next]_(Req!D!vars)
<1>1. request = Req!NewWire => Req!D!Init
  BY RequestSteps, NewWireFacts DEF Req!D!Init, Req!D!Nothing, NoResult
<1>2. Req!Received = Value(request) /\ Req!Received' = Value(request')
  BY DEF Req!Received, Value, Req!Nothing, NoResult
<1>3. Delivers(request, request') => [Req!D!Next]_(Req!D!vars)
  BY <1>2 DEF Delivers, NoResult, Req!D!Next, Req!D!vars, Req!D!Send, Req!D!Deliver, Req!D!Fail,
              Req!D!Connect, Req!D!IsMessage, Req!D!Nothing, Req!D!Error
<1> QED
  BY <1>1, <1>3

LEMMA ResponseDelivers ==
  /\ response = Resp!NewWire => Resp!D!Init
  /\ Delivers(response, response') => [Resp!D!Next]_(Resp!D!vars)
<1>1. response = Resp!NewWire => Resp!D!Init
  BY ResponseSteps, NewWireFacts DEF Resp!D!Init, Resp!D!Nothing, NoResult
<1>2. Resp!Received = Value(response) /\ Resp!Received' = Value(response')
  BY DEF Resp!Received, Value, Resp!Nothing, NoResult, Resp!Message, Req!Message
<1>3. Delivers(response, response') => [Resp!D!Next]_(Resp!D!vars)
  BY <1>2 DEF Delivers, NoResult, Resp!D!Next, Resp!D!vars, Resp!D!Send, Resp!D!Deliver, Resp!D!Fail,
              Resp!D!Connect, Resp!D!IsMessage, Resp!D!Nothing, Resp!D!Error
<1> QED
  BY <1>1, <1>3

-----------------------------------------------------------------------------
(* Snapshots.                                                              *)

LEMMA SnapshotCases ==
  ASSUME NEW c, NEW h, NEW t, NEW p
  PROVE  IsSnapshot(c, h, t, p) <=>
           /\ t = "ERR" =>
                \/ \E i \in 1..Len(chain) : ~Serialisable(chain[i])
                \/ \A i \in Starts(c.query) : i > h
                \/ c.type = "QUERY_BLOCK" /\ c.query.by = "all"
           /\ t # "ERR" /\ c.type = "QUERY_BLOCK" =>
                \E i \in Starts(c.query) \cap 1..Len(chain) :
                  p = <<LineCell(block_to_csv(chain[i]).line)>>
           /\ t # "ERR" /\ c.type # "QUERY_BLOCK" =>
                \E i \in Starts(c.query), n \in h..Len(chain) :
                  SavedFile(p) = blockchain_save_csv(SubSeq(chain, i, n))
<1>1. CASE t = "ERR"
  BY <1>1 DEF IsSnapshot
<1>2. CASE t # "ERR" /\ c.type = "QUERY_BLOCK"
  BY <1>2 DEF IsSnapshot
<1>3. CASE t # "ERR" /\ c.type # "QUERY_BLOCK"
  BY <1>3 DEF IsSnapshot
<1> QED
  BY <1>1, <1>2, <1>3

\* Where a query starts is within the chain, but for the whole of an empty one.
LEMMA StartsFacts ==
  ASSUME NEW q, IsSeq(chain)
  PROVE  \A i \in Starts(q) : i \in Nat /\ i >= 1
<1>1. Len(chain) \in Nat
  BY SeqFacts
<1>2. CASE q.by = "all"
  BY <1>2 DEF Starts
<1>3. CASE q.by # "all"
  BY <1>1, <1>3 DEF Starts
<1> QED
  BY <1>2, <1>3

\* A part of a chain is the same part of a longer one.
LEMMA PartKept ==
  ASSUME NEW s, IsSeq(s), NEW t, IsSeq(t), Len(s) <= Len(t),
         \A i \in 1..Len(s) : t[i] = s[i],
         NEW a \in Nat, a >= 1, NEW b \in Nat, b <= Len(s)
  PROVE  SubSeq(t, a, b) = SubSeq(s, a, b)
<1>0. Len(s) \in Nat /\ Len(t) \in Nat
  BY SeqFacts
<1>1. CASE b < a
  BY <1>1, SubSeqEmpty
<1>2. CASE a <= b
  <2>1. b <= Len(t) /\ a <= b + 1
    BY <1>0, <1>2
  <2>2. /\ IsSeq(SubSeq(s, a, b)) /\ Len(SubSeq(s, a, b)) = b - a + 1
        /\ \A i \in 1..(b - a + 1) : SubSeq(s, a, b)[i] = s[a + i - 1]
    BY <2>1, SeqSub
  <2>3. /\ IsSeq(SubSeq(t, a, b)) /\ Len(SubSeq(t, a, b)) = b - a + 1
        /\ \A i \in 1..(b - a + 1) : SubSeq(t, a, b)[i] = t[a + i - 1]
    BY <2>1, SeqSub
  <2>4. \A i \in 1..(b - a + 1) : a + i - 1 \in 1..Len(s)
    BY <1>0, <1>2
  <2>5. PICK x : x = SubSeq(s, a, b)
    OBVIOUS
  <2>6. PICK y : y = SubSeq(t, a, b)
    OBVIOUS
  <2>7. PICK k : k = b - a + 1
    OBVIOUS
  <2>8. \A i \in 1..k : x[i] = y[i]
    BY <2>2, <2>3, <2>4, <2>5, <2>6, <2>7
  <2>9. x = [i \in 1..k |-> x[i]] /\ y = [i \in 1..k |-> y[i]]
    BY <2>2, <2>3, <2>5, <2>6, <2>7, SeqFacts
  <2>10. x = y
    BY ONLY <2>8, <2>9
  <2> QED
    BY <2>5, <2>6, <2>10
<1> QED
  BY <1>1, <1>2

\* A snapshot remains one while the chain grows.
LEMMA SnapshotGrows ==
  ASSUME IsSeq(chain), IsSeq(chain'), Len(chain) <= Len(chain'),
         \A i \in 1..Len(chain) : chain'[i] = chain[i],
         NEW CONSTANT c, NEW CONSTANT h, NEW CONSTANT t, NEW CONSTANT p,
         h \in 0..Len(chain), IsSnapshot(c, h, t, p)
  PROVE  IsSnapshot(c, h, t, p)'
<1>0. Len(chain) \in Nat /\ Len(chain') \in Nat
  BY SeqFacts
<1>1. /\ Starts(c.query) \subseteq Starts(c.query)'
      /\ \A i \in Starts(c.query)' : i \in Starts(c.query) \/ i > Len(chain)
  <2>1. CASE c.query.by = "all"
    BY <2>1 DEF Starts
  <2>2. CASE c.query.by # "all"
    <3>1. /\ Starts(c.query) = {i \in 1..Len(chain) : Matches(chain[i], c.query)}
          /\ Starts(c.query)' = {i \in 1..Len(chain') : Matches(chain'[i], c.query)}
      BY <2>2 DEF Starts
    <3>2. 1..Len(chain) \subseteq 1..Len(chain') /\ \A i \in 1..Len(chain') : i \in 1..Len(chain) \/ i > Len(chain)
      BY <1>0
    <3> QED
      BY <3>1, <3>2
  <2> QED
    BY <2>1, <2>2
<1>2. CASE t = "ERR"
  <2>1. CASE \E i \in 1..Len(chain) : ~Serialisable(chain[i])
    <3>1. \E i \in 1..Len(chain') : ~Serialisable(chain'[i])
      BY <1>0, <2>1
    <3> QED
      BY <1>2, <3>1 DEF IsSnapshot
  <2>2. CASE \A i \in Starts(c.query) : i > h
    <3>1. \A i \in Starts(c.query)' : i > h
      <4> TAKE i \in Starts(c.query)'
      <4>1. CASE i \in Starts(c.query)
        BY <2>2, <4>1
      <4>2. CASE i > Len(chain) /\ i \notin Starts(c.query)
        <5>1. c.query.by # "all"
          BY <4>2 DEF Starts
        <5>2. i \in 1..Len(chain')
          BY <5>1 DEF Starts
        <5> QED
          BY <1>0, <4>2, <5>2
      <4> QED
        BY <1>1, <4>1, <4>2
    <3> QED
      BY <1>2, <3>1 DEF IsSnapshot
  <2>3. CASE c.type = "QUERY_BLOCK" /\ c.query.by = "all"
    BY <1>2, <2>3 DEF IsSnapshot
  <2> QED
    BY <1>2, <2>1, <2>2, <2>3, SnapshotCases
<1>3. CASE t # "ERR" /\ c.type = "QUERY_BLOCK"
  <2>1. PICK i \in Starts(c.query) \cap 1..Len(chain) :
          p = <<LineCell(block_to_csv(chain[i]).line)>>
    BY <1>3, SnapshotCases
  <2>2. i \in 1..Len(chain) /\ i \in 1..Len(chain')
    BY <1>0, <2>1
  <2>3. chain'[i] = chain[i] /\ i \in Starts(c.query)'
    BY <1>1, <2>1, <2>2
  <2>4. p = <<LineCell(block_to_csv(chain'[i]).line)>>
    BY <2>1, <2>3
  <2>5. \E j \in Starts(c.query)' \cap 1..Len(chain') :
          p = <<LineCell(block_to_csv(chain'[j]).line)>>
    BY <2>2, <2>3, <2>4
  <2> QED
    BY <1>3, <2>5 DEF IsSnapshot
<1>4. CASE t # "ERR" /\ c.type # "QUERY_BLOCK"
  <2>1. PICK i \in Starts(c.query), n \in h..Len(chain) :
          SavedFile(p) = blockchain_save_csv(SubSeq(chain, i, n))
    BY <1>4, SnapshotCases
  <2>2. i \in Nat /\ i >= 1 /\ n \in Nat /\ n <= Len(chain) /\ n \in h..Len(chain')
    BY <1>0, <2>1, StartsFacts
  <2>3. SubSeq(chain', i, n) = SubSeq(chain, i, n)
    BY <2>2, PartKept
  <2>4. SavedFile(p) = blockchain_save_csv(SubSeq(chain', i, n))
    BY <2>1, <2>3
  <2>5. \E j \in Starts(c.query)', k \in h..Len(chain') :
          SavedFile(p) = blockchain_save_csv(SubSeq(chain', j, k))
    BY <1>1, <2>1, <2>2, <2>4
  <2> QED
    BY <1>4, <2>5 DEF IsSnapshot
<1> QED
  BY <1>2, <1>3, <1>4

\* What a query finds: a block that matches, or nothing if there is none.
LEMMA FindFacts ==
  ASSUME IsSeq(chain), NEW q
  PROVE  \/ Find(q) = 0 /\ (q.by # "all" => Starts(q) = {})
         \/ Find(q) \in Starts(q) \cap 1..Len(chain) /\ Find(q) # 0 /\ q.by # "all"
<1>0. Len(chain) \in Nat
  BY SeqFacts
<1>1. CASE q.by = "index"
  <2>1. PICK F : F = {i \in 1..Len(chain) : chain[i].index = q.index}
    OBVIOUS
  <2>2. Find(q) = IF F = {} THEN 0 ELSE Min(F)
    BY <1>1, <2>1 DEF Find, blockchain_get_by_index
  <2>3. Starts(q) = F
    BY <1>1, <2>1 DEF Starts, Matches
  <2>5. F \subseteq 1..Len(chain) /\ F \subseteq Nat /\ 0 \notin F
    BY <1>0, <2>1
  <2>4. F # {} => Min(F) \in F
    BY ONLY <2>5, MinFacts
  <2> QED
    BY <1>1, <2>2, <2>3, <2>4, <2>5
<1>2. CASE q.by = "hash"
  <2>1. PICK F : F = {i \in 1..Len(chain) : calculate_block_hash(chain[i]) = q.hash}
    OBVIOUS
  <2>2. Find(q) = IF F = {} THEN 0 ELSE Min(F)
    BY <1>2, <2>1 DEF Find, blockchain_get_by_hash
  <2>3. Starts(q) = F
    BY <1>2, <2>1 DEF Starts, Matches
  <2>5. F \subseteq 1..Len(chain) /\ F \subseteq Nat /\ 0 \notin F
    BY <1>0, <2>1
  <2>4. F # {} => Min(F) \in F
    BY ONLY <2>5, MinFacts
  <2> QED
    BY <1>2, <2>2, <2>3, <2>4, <2>5
<1>3. CASE q.by # "index" /\ q.by # "hash"
  <2>1. Find(q) = 0
    BY <1>3 DEF Find
  <2>2. q.by # "all" => Starts(q) = {}
    BY <1>3 DEF Starts, Matches
  <2> QED
    BY <2>1, <2>2
<1> QED
  BY <1>1, <1>2, <1>3

\* What handle_query_block builds: a message, and a snapshot of the chain.
LEMMA BlockAnswer ==
  ASSUME IsSeq(chain), NEW q, NEW a, a = handle_query_block(q)
  PROVE  /\ a = Req!Message(a.type, a.payload) /\ IsSeq(a.payload)
         /\ \A c, h : c.query = q /\ c.type = "QUERY_BLOCK" => IsSnapshot(c, h, a.type, a.payload)
<1>1. PICK i : i = Find(q)
  OBVIOUS
<1>2. CASE i # 0 /\ Serialisable(chain[i])
  <2>1. PICK p : p = <<LineCell(block_to_csv(chain[i]).line)>>
    OBVIOUS
  <2>2. a = Req!Message("OK", p)
    BY <1>1, <1>2, <2>1 DEF handle_query_block, Answer, Resp!Message, Req!Message
  <2>3. a.type = "OK" /\ a.payload = p /\ a = Req!Message(a.type, a.payload)
    BY <2>2 DEF Req!Message
  <2>4. IsSeq(p)
    BY <2>1, SeqOne
  <2>5. i \in Starts(q) \cap 1..Len(chain)
    BY <1>1, <1>2, FindFacts
  <2>6. ASSUME NEW c, NEW h, c.query = q, c.type = "QUERY_BLOCK"
        PROVE  IsSnapshot(c, h, "OK", p)
    BY <2>1, <2>5, <2>6, SnapshotCases
  <2> QED
    BY <2>3, <2>4, <2>6
<1>3. CASE ~(i # 0 /\ Serialisable(chain[i]))
  <2>1. a = Req!Message("ERR", ErrorText)
    BY <1>1, <1>3 DEF handle_query_block, Answer, Resp!Message, Req!Message
  <2>2. a.type = "ERR" /\ a.payload = ErrorText /\ a = Req!Message(a.type, a.payload)
    BY <2>1 DEF Req!Message
  <2>3. IsSeq(ErrorText)
    BY SeqOne DEF ErrorText
  <2>4. ASSUME NEW c, NEW h, c.query = q, c.type = "QUERY_BLOCK"
        PROVE  IsSnapshot(c, h, "ERR", ErrorText)
    <3>1. CASE i = 0 /\ q.by # "all"
      <4>1. Starts(q) = {}
        BY <1>1, <3>1, FindFacts
      <4> QED
        BY <2>4, <4>1, SnapshotCases
    <3>2. CASE i = 0 /\ q.by = "all"
      BY <2>4, <3>2, SnapshotCases
    <3>3. CASE i # 0
      <4>1. i \in 1..Len(chain) /\ ~Serialisable(chain[i])
        BY <1>1, <1>3, <3>3, FindFacts
      <4> QED
        BY <4>1, SnapshotCases
    <3> QED
      BY <3>1, <3>2, <3>3
  <2> QED
    BY <2>2, <2>3, <2>4
<1> QED
  BY <1>2, <1>3

\* The lines of a part of the chain are the file that saving it would write.
LEMMA LinesAreFile ==
  ASSUME NEW s, IsSeq(s), \A i \in 1..Len(s) : Serialisable(s[i]),
         NEW p, p = <<CsvHeader>> \o [i \in 1..Len(s) |-> LineCell(block_to_csv(s[i]).line)]
  PROVE  IsSeq(p) /\ SavedFile(p) = blockchain_save_csv(s)
<1>0. Len(s) \in Nat
  BY SeqFacts
<1>1. PICK f : f = [i \in 1..Len(s) |-> LineCell(block_to_csv(s[i]).line)]
  OBVIOUS
<1>2. IsSeq(f) /\ Len(f) = Len(s)
  BY <1>0, <1>1, SeqOfFunction
<1>3. PICK e : e = <<CsvHeader>>
  OBVIOUS
<1>4. IsSeq(e) /\ Len(e) = 1 /\ e[1] = CsvHeader
  BY <1>3, SeqOne
<1>5. p = e \o f
  BY <1>1, <1>3
<1>6. /\ IsSeq(e \o f) /\ Len(e \o f) = Len(e) + Len(f)
      /\ \A i \in 1..Len(e) : (e \o f)[i] = e[i]
  BY ONLY <1>2, <1>4, SeqConcat, Zenon
<1>7. \A i \in 1..Len(f) : (e \o f)[Len(e) + i] = f[i]
  <2>1. IsSeq(e) /\ IsSeq(f)
    BY <1>2, <1>4
  <2> QED
    BY ONLY <2>1, SeqConcat, SMT
<1>8. /\ IsSeq(p) /\ Len(p) = 1 + Len(s) /\ p[1] = CsvHeader
      /\ \A i \in 1..Len(s) : p[i + 1] = f[i]
  BY ONLY <1>0, <1>2, <1>4, <1>5, <1>6, <1>7
<1>9. SavedFile(p) = [header |-> TRUE, lines |-> [i \in 1..(Len(p) - 1) |-> p[i + 1].line]]
  BY <1>8 DEF SavedFile
<1>10. \A i \in 1..Len(s) : p[i + 1].line = block_to_csv(s[i]).line
  BY <1>1, <1>8 DEF LineCell
<1>11. Len(p) - 1 = Len(s)
  BY <1>0, <1>8
<1>12. SavedFile(p) = [header |-> TRUE, lines |-> [i \in 1..Len(s) |-> block_to_csv(s[i]).line]]
  BY <1>9, <1>10, <1>11
<1>13. {i \in 1..Len(s) : ~Serialisable(s[i])} = {}
  OBVIOUS
<1>14. blockchain_save_csv(s) =
         [header |-> TRUE, lines |-> [i \in 1..Len(s) |-> block_to_csv(s[i]).line]]
  BY <1>13 DEF blockchain_save_csv
<1> QED
  BY <1>8, <1>12, <1>14

\* What handle_query_chain builds: a message, and a snapshot of the chain.
LEMMA ChainAnswer ==
  ASSUME IsSeq(chain), NEW q, NEW a, a = handle_query_chain(q)
  PROVE  /\ a = Req!Message(a.type, a.payload) /\ IsSeq(a.payload)
         /\ \A c : \A h \in 0..Len(chain) :
              c.query = q /\ c.type = "QUERY_CHAIN" => IsSnapshot(c, h, a.type, a.payload)
<1>0. Len(chain) \in Nat
  BY SeqFacts
<1>1. PICK first : first = IF q.by = "all" THEN 1 ELSE Find(q)
  OBVIOUS
<1>2. PICK part : part = SubSeq(chain, first, Len(chain))
  OBVIOUS
<1>3. first # 0 => first \in Starts(q) /\ first \in Nat /\ first >= 1 /\ first <= Len(chain) + 1
  <2>1. CASE q.by = "all"
    BY <1>0, <1>1, <2>1 DEF Starts
  <2>2. CASE q.by # "all" /\ first # 0
    <3>1. first \in Starts(q) \cap 1..Len(chain)
      BY <1>1, <2>2, FindFacts
    <3> QED
      BY <1>0, <3>1
  <2> QED
    BY <2>1, <2>2
<1>4. first # 0 => /\ IsSeq(part) /\ Len(part) = Len(chain) - first + 1
                   /\ \A i \in 1..Len(part) : part[i] = chain[first + i - 1]
  <2> SUFFICES ASSUME first # 0
               PROVE  /\ IsSeq(part) /\ Len(part) = Len(chain) - first + 1
                      /\ \A i \in 1..Len(part) : part[i] = chain[first + i - 1]
    OBVIOUS
  <2>1. PICK b : b = Len(chain)
    OBVIOUS
  <2>2. /\ b \in Nat /\ b <= Len(chain) /\ first \in Nat /\ first >= 1 /\ first <= b + 1
    BY <1>0, <1>3, <2>1
  <2>3. /\ IsSeq(SubSeq(chain, first, b)) /\ Len(SubSeq(chain, first, b)) = b - first + 1
        /\ \A i \in 1..(b - first + 1) : SubSeq(chain, first, b)[i] = chain[first + i - 1]
    BY <2>2, SeqSub
  <2> QED
    BY <1>2, <2>1, <2>3
<1>5. CASE first # 0 /\ \A i \in 1..Len(part) : Serialisable(part[i])
  <2>1. PICK p : p = <<CsvHeader>> \o [i \in 1..Len(part) |-> LineCell(block_to_csv(part[i]).line)]
    OBVIOUS
  <2>2. a = Req!Message("OK", p)
    BY <1>1, <1>2, <1>5, <2>1, Zenon DEF handle_query_chain, Answer, Resp!Message, Req!Message
  <2>3. a.type = "OK" /\ a.payload = p /\ a = Req!Message(a.type, a.payload)
    BY <2>2 DEF Req!Message
  <2>4. IsSeq(p) /\ SavedFile(p) = blockchain_save_csv(part)
    BY <1>4, <1>5, <2>1, LinesAreFile
  <2>5. ASSUME NEW c, NEW h \in 0..Len(chain), c.query = q, c.type = "QUERY_CHAIN"
        PROVE  IsSnapshot(c, h, "OK", p)
    <3>1. Len(chain) \in h..Len(chain) /\ first \in Starts(q)
      BY <1>0, <1>3, <1>5
    <3>2. \E i \in Starts(c.query), n \in h..Len(chain) :
            SavedFile(p) = blockchain_save_csv(SubSeq(chain, i, n))
      BY <1>2, <2>4, <2>5, <3>1
    <3> QED
      BY <2>5, <3>2, SnapshotCases
  <2> QED
    BY <2>3, <2>4, <2>5
<1>6. CASE ~(first # 0 /\ \A i \in 1..Len(part) : Serialisable(part[i]))
  <2>1. a = Req!Message("ERR", ErrorText)
    BY <1>1, <1>2, <1>6, Zenon DEF handle_query_chain, Answer, Resp!Message, Req!Message
  <2>2. a.type = "ERR" /\ a.payload = ErrorText /\ a = Req!Message(a.type, a.payload)
    BY <2>1 DEF Req!Message
  <2>3. IsSeq(ErrorText)
    BY SeqOne DEF ErrorText
  <2>4. ASSUME NEW c, NEW h \in 0..Len(chain), c.query = q, c.type = "QUERY_CHAIN"
        PROVE  IsSnapshot(c, h, "ERR", ErrorText)
    <3>1. CASE first = 0
      <4>1. Starts(q) = {}
        BY <1>1, <3>1, FindFacts
      <4> QED
        BY <2>4, <4>1, SnapshotCases
    <3>2. CASE first # 0
      <4>1. PICK i \in 1..Len(part) : ~Serialisable(part[i])
        BY <1>6, <3>2
      <4>2. first + i - 1 \in 1..Len(chain) /\ part[i] = chain[first + i - 1]
        BY <1>0, <1>3, <1>4, <3>2, <4>1
      <4>3. \E j \in 1..Len(chain) : ~Serialisable(chain[j])
        BY <4>1, <4>2
      <4> QED
        BY <4>3, SnapshotCases
    <3> QED
      BY <3>1, <3>2
  <2> QED
    BY <2>2, <2>3, <2>4
<1> QED
  BY <1>5, <1>6

-----------------------------------------------------------------------------
(* The invariant, step by step.                                            *)

\* What a step shows: the invariant holds after it, and each wire has made a
\* step of Delivery.
Kept == IInv' /\ Delivers(request, request') /\ Delivers(response, response')

LEMMA Stutters ==
  ASSUME NEW w
  PROVE  Delivers(w, w)
  BY DEF Delivers

\* A step that only moves cells, or closes an end, leaves the rest alone.
LEMMA CommandFrame ==
  ASSUME IInv, request'.message = request.message, response'.message = response.message,
         UNCHANGED <<disk, chain, boot, result>>, node' = node \/ node' # "init"
  PROVE  CommandInv'
  BY DEF IInv, CommandInv, AnswerIsSnapshot, Answered, IsSnapshot, Starts

LEMMA CellsMove ==
  ASSUME IInv, WireInv(request'), WireInv(response'),
         Delivers(request, request'), Delivers(response, response'),
         request'.message = request.message, response'.message = response.message,
         UNCHANGED <<disk, chain, boot, result>>, node' = node \/ node' # "init"
  PROVE  Kept
<1>1. CommandInv'
  BY CommandFrame
<1>2. WireInv(request)' /\ WireInv(response)' /\ disk' \in Files /\ IsSeq(chain')
  BY DEF IInv
<1> QED
  BY <1>1, <1>2 DEF Kept, IInv

\* The end of node 0, at any moment.
LEMMA NodeEndsStep ==
  ASSUME IInv, NodeEnds
  PROVE  /\ WireInv(request') /\ WireInv(response')
         /\ Delivers(request, request') /\ Delivers(response, response')
         /\ request'.message = request.message /\ response'.message = response.message
<1>1. request' = Req!CloseReceiver(request) /\ response' = Req!CloseSender(response)
  BY DEF NodeEnds, Resp!CloseSender, Req!CloseSender
<1>2. WireInv(request) /\ WireInv(response)
  BY DEF IInv
<1>3. /\ WireInv(request') /\ Delivers(request, request')
      /\ request'.message = request.message
  BY <1>1, <1>2, CloseStep
<1>4. /\ WireInv(response') /\ Delivers(response, response')
      /\ response'.message = response.message
  BY <1>1, <1>2, CloseStep
<1> QED
  BY <1>3, <1>4

LEMMA KillNodeStep ==
  ASSUME IInv, KillNode
  PROVE  Kept
<1>1. NodeEnds /\ node' # "init" /\ UNCHANGED <<disk, chain, boot, result>>
  BY DEF KillNode, NodeEnds
<1> QED
  BY <1>1, NodeEndsStep, CellsMove

\* The chain that is loaded was not asked for before.
LEMMA NodeInitStep ==
  ASSUME IInv, NodeInit
  PROVE  Kept
<1>1. CASE NodeEnds /\ UNCHANGED chain
  <2>1. node' # "init" /\ UNCHANGED <<disk, chain, boot, result>>
    BY <1>1 DEF NodeInit, NodeEnds
  <2> QED
    BY <1>1, <2>1, NodeEndsStep, CellsMove
<1>2. CASE node' = "up" /\ IsSeq(chain') /\ UNCHANGED <<request, response>>
  <2>1. /\ node = "init" /\ UNCHANGED <<disk, boot, result>>
    BY DEF NodeInit
  <2>2. /\ chain = <<>> /\ response.message = NoResult /\ ~Answered
    BY <2>1 DEF IInv, CommandInv
  <2>3. Len(chain) = 0 /\ Len(chain') \in Nat
    BY <1>2, <2>2, SeqEmpty, SeqFacts
  <2>4. 0..Len(chain) \subseteq 0..Len(chain')
    BY <2>3
  <2>5. ~Answered'
    BY <2>1, <2>2 DEF Answered
  <2>6. boot.pc = "request" =>
          /\ boot.height \in 0..Len(chain)
          /\ boot.command.type \in {"QUERY_CHAIN", "QUERY_BLOCK"}
          /\ boot.command.query.by = "all" => boot.command.query = [by |-> "all"]
          /\ request.message # NoResult =>
               request.message = Req!Message(boot.command.type, Payload(boot.command.query))
    BY DEF IInv, CommandInv
  <2>7. CommandInv'
    BY <1>2, <2>1, <2>2, <2>4, <2>5, <2>6 DEF CommandInv, AnswerIsSnapshot
  <2>8. WireInv(request)' /\ WireInv(response)' /\ disk' \in Files
    BY <1>2, <2>1 DEF IInv
  <2>9. Delivers(request, request') /\ Delivers(response, response')
    BY <1>2, Stutters
  <2> QED
    BY <1>2, <2>7, <2>8, <2>9 DEF Kept, IInv
<1>3. CASE disk # NoFile /\ blockchain_load_csv(disk).ok
  <2>1. PICK P : P = ParsedLines(disk)
    OBVIOUS
  <2>2. Len(disk.lines) \in Nat
    BY <1>3, FileAssumption, SeqFacts DEF IInv
  <2>3. P = [i \in 1..Len(disk.lines) |-> P[i]]
    BY <2>1 DEF ParsedLines
  <2>4. Len(P) \in Nat
    BY <2>2, <2>3, SeqOfFunction
  <2>5. blockchain_load_csv(disk) = [ok |-> TRUE, chain |-> [i \in 1..Len(P) |-> P[i].block]]
    <3>1. ~Failed.ok
      BY DEF Failed
    <3>2. CASE disk.header /\ P # <<>> /\ \A i \in 1..Len(P) : P[i].ok
      BY <2>1, <3>2 DEF blockchain_load_csv
    <3>3. CASE ~(disk.header /\ P # <<>> /\ \A i \in 1..Len(P) : P[i].ok)
      <4>1. blockchain_load_csv(disk) = Failed
        BY <2>1, <3>3 DEF blockchain_load_csv
      <4> QED
        BY ONLY <1>3, <3>1, <4>1
    <3> QED
      BY <3>2, <3>3
  <2>6. PICK f : f = [i \in 1..Len(P) |-> P[i].block]
    OBVIOUS
  <2>7. IsSeq(f)
    BY <2>4, <2>6, SeqOfFunction
  <2>8. chain' = f /\ node' = "up" /\ UNCHANGED <<request, response>>
    BY <1>3, <2>5, <2>6 DEF NodeInit
  <2> QED
    BY <1>2, <2>7, <2>8
<1>4. CASE disk = NoFile
  BY <1>2, <1>4, SeqEmpty DEF NodeInit
<1>5. CASE disk # NoFile /\ ~blockchain_load_csv(disk).ok
  BY <1>1, <1>5 DEF NodeInit
<1> QED
  BY <1>3, <1>4, <1>5

\* A block is appended while a command may be under way.
LEMMA AppendBlockStep ==
  ASSUME IInv, AppendBlock
  PROVE  Kept
<1>1. PICK b : chain' = Append(chain, b)
  BY DEF AppendBlock, blockchain_append
<1>2. IsSeq(chain)
  BY DEF IInv
<1>3. /\ IsSeq(chain') /\ Len(chain') = Len(chain) + 1
      /\ \A i \in 1..Len(chain) : chain'[i] = chain[i]
  BY <1>1, <1>2, SeqAppend
<1>4. Len(chain) \in Nat /\ Len(chain) <= Len(chain') /\ 0..Len(chain) \subseteq 0..Len(chain')
  BY <1>2, <1>3, SeqFacts
<1>5. node # "init" /\ UNCHANGED <<disk, node, boot, result, request, response>>
  BY DEF AppendBlock
<1>6. ASSUME boot.pc = "request"
      PROVE  /\ boot.height \in 0..Len(chain')
             /\ response.message # NoResult =>
                  IsSnapshot(boot.command, boot.height, response.message.type,
                             response.message.payload)'
  <2>1. PICK h : h = boot.height
    OBVIOUS
  <2>2. h \in 0..Len(chain) /\ boot'.height = h
    BY <1>5, <1>6, <2>1 DEF IInv, CommandInv
  <2>3. ASSUME response.message # NoResult
        PROVE  IsSnapshot(boot.command, boot.height, response.message.type,
                          response.message.payload)'
    <3>1. PICK c : c = boot.command
      OBVIOUS
    <3>2. PICK t : t = response.message.type
      OBVIOUS
    <3>3. PICK p : p = response.message.payload
      OBVIOUS
    <3>4. IsSnapshot(c, h, t, p)
      BY <1>6, <2>1, <2>3, <3>1, <3>2, <3>3 DEF IInv, CommandInv
    <3>5. IsSnapshot(c, h, t, p)'
      BY <1>2, <1>3, <1>4, <2>2, <3>4, SnapshotGrows
    <3>6. /\ boot'.command = c /\ boot'.height = h
          /\ response'.message.type = t /\ response'.message.payload = p
      BY <1>5, <2>2, <3>1, <3>2, <3>3
    <3> QED
      BY <3>5, <3>6
  <2> QED
    BY <1>4, <2>1, <2>2, <2>3
<1>7. ASSUME Answered
      PROVE  /\ result.height \in 0..Len(chain')
             /\ IsSnapshot(result.command, result.height, result.type, result.payload)'
  <2>1. PICK h : h = result.height
    OBVIOUS
  <2>2. PICK c : c = result.command
    OBVIOUS
  <2>3. PICK t : t = result.type
    OBVIOUS
  <2>4. PICK p : p = result.payload
    OBVIOUS
  <2>5. IsSnapshot(c, h, t, p) /\ h \in 0..Len(chain)
    BY <1>7, <2>1, <2>2, <2>3, <2>4 DEF IInv, CommandInv, AnswerIsSnapshot
  <2>6. IsSnapshot(c, h, t, p)'
    BY <1>2, <1>3, <1>4, <2>5, SnapshotGrows
  <2>7. result'.command = c /\ result'.height = h /\ result'.type = t /\ result'.payload = p
    BY <1>5, <2>1, <2>2, <2>3, <2>4
  <2> QED
    BY <1>4, <2>1, <2>5, <2>6, <2>7
<1>8. Answered' <=> Answered
  BY <1>5 DEF Answered
<1>9. boot.pc = "request" =>
        /\ boot.command.type \in {"QUERY_CHAIN", "QUERY_BLOCK"}
        /\ boot.command.query.by = "all" => boot.command.query = [by |-> "all"]
        /\ request.message # NoResult =>
             request.message = Req!Message(boot.command.type, Payload(boot.command.query))
  BY DEF IInv, CommandInv
<1>10. CommandInv'
  BY <1>5, <1>6, <1>7, <1>8, <1>9 DEF CommandInv, AnswerIsSnapshot
<1>11. WireInv(request)' /\ WireInv(response)' /\ disk' \in Files
  BY <1>5 DEF IInv
<1>12. Delivers(request, request') /\ Delivers(response, response')
  BY <1>5, Stutters
<1> QED
  BY <1>3, <1>10, <1>11, <1>12 DEF Kept, IInv

\* One read of the request by node 0, one write of the response, or the end
\* of the connection.
LEMMA NodeMovesStep ==
  ASSUME IInv, ReceiveRequest \/ SendResponse \/ CloseConnection
  PROVE  Kept
<1>0. WireInv(request) /\ WireInv(response)
  BY DEF IInv
<1>1. CASE ReceiveRequest
  <2>1. Reads(request, request') /\ UNCHANGED <<disk, node, chain, boot, result, response>>
    BY <1>1, RequestSteps DEF ReceiveRequest
  <2>2. WireInv(request') /\ Delivers(request, request') /\ request'.message = request.message
    BY <1>0, <2>1, ReadStep
  <2> QED
    BY <1>0, <2>1, <2>2, Stutters, CellsMove
<1>2. CASE SendResponse
  <2>1. Writes(response, response') /\ UNCHANGED <<disk, node, chain, boot, result, request>>
    BY <1>2, ResponseSteps DEF SendResponse
  <2>2. WireInv(response') /\ Delivers(response, response') /\ response'.message = response.message
    BY <1>0, <2>1, WriteStep
  <2> QED
    BY <1>0, <2>1, <2>2, Stutters, CellsMove
<1>3. CASE CloseConnection
  <2>1. /\ response' = Req!CloseSender(response)
        /\ UNCHANGED <<disk, node, chain, boot, result, request>>
    BY <1>3 DEF CloseConnection, Resp!CloseSender, Req!CloseSender
  <2>2. WireInv(response') /\ Delivers(response, response') /\ response'.message = response.message
    BY <1>0, <2>1, CloseStep
  <2> QED
    BY <1>0, <2>1, <2>2, Stutters, CellsMove
<1> QED
  BY <1>1, <1>2, <1>3

\* One write of the request by the bootstrap, one read of the response, the
\* end of the connection, or SIGPIPE.
LEMMA BootMovesStep ==
  ASSUME IInv, SendRequest \/ ReceiveResponse \/ BootstrapKilled
  PROVE  Kept
<1>0. WireInv(request) /\ WireInv(response)
  BY DEF IInv
<1>1. CASE SendRequest
  <2>1. Writes(request, request') /\ UNCHANGED <<disk, node, chain, boot, result, response>>
    BY <1>1, RequestSteps DEF SendRequest
  <2>2. WireInv(request') /\ Delivers(request, request') /\ request'.message = request.message
    BY <1>0, <2>1, WriteStep
  <2> QED
    BY <1>0, <2>1, <2>2, Stutters, CellsMove
<1>2. CASE ReceiveResponse
  <2>1. UNCHANGED <<disk, node, chain, boot, result, request>>
    BY <1>2 DEF ReceiveResponse
  <2>2. \/ Reads(response, response')
        \/ response.receiver = "reading" /\ response' = [response EXCEPT !.receiver = "failed"]
    BY <1>2, ResponseSteps DEF ReceiveResponse
  <2>3. WireInv(response') /\ Delivers(response, response') /\ response'.message = response.message
    BY <1>0, <2>2, ReadStep, CloseStep
  <2> QED
    BY <1>0, <2>1, <2>3, Stutters, CellsMove
<1>3. CASE BootstrapKilled
  <2>1. /\ boot' = [pc |-> "killed"]
        /\ UNCHANGED <<disk, node, chain, result, request, response>>
    BY <1>3 DEF BootstrapKilled
  <2>2. boot'.pc # "request"
    BY <2>1
  <2>3. CommandInv'
    BY <2>1, <2>2 DEF IInv, CommandInv, AnswerIsSnapshot, Answered, IsSnapshot, Starts
  <2> QED
    BY <2>1, <2>3, Stutters DEF Kept, IInv
<1> QED
  BY <1>1, <1>2, <1>3

\* The command is over: what it prints or saves is the response.
LEMMA FinishStep ==
  ASSUME IInv, Finish
  PROVE  Kept
<1>0. WireInv(request) /\ WireInv(response)
  BY DEF IInv
<1>1. /\ boot.pc = "request" /\ boot'.pc # "request"
      /\ UNCHANGED <<disk, node, chain, request, response>>
  BY DEF Finish, Prompt
<1>2. \/ result'.state \in {"no response", "not written"}
      \/ /\ response.receiver = "done"
         /\ result' = [state |-> "answered", command |-> boot.command, height |-> boot.height,
                       type |-> Value(response).type, payload |-> Value(response).payload]
  <2>1. CASE response.receiver = "failed" /\ result' = [state |-> "no response"]
    BY <2>1
  <2>2. CASE result' = [state |-> "not written"]
    BY <2>2
  <2>3. CASE /\ response.receiver = "done"
             /\ result' = [state |-> "answered", command |-> boot.command, height |-> boot.height,
                           type |-> Resp!Received.type, payload |-> Resp!Received.payload]
    BY <2>3, ResponseSteps
  <2> QED
    BY <2>1, <2>2, <2>3, Zenon DEF Finish
<1>3. CASE result'.state \in {"no response", "not written"}
  <2>1. ~Answered'
    BY <1>3 DEF Answered
  <2>2. CommandInv'
    BY <1>1, <2>1 DEF IInv, CommandInv, AnswerIsSnapshot
  <2> QED
    BY <1>1, <2>2, Stutters DEF Kept, IInv
<1>4. CASE /\ response.receiver = "done"
           /\ result' = [state |-> "answered", command |-> boot.command, height |-> boot.height,
                         type |-> Value(response).type, payload |-> Value(response).payload]
  <2>1. Value(response) = response.message /\ response.message # NoResult
    BY <1>0, <1>4, ReceivedIsSent
  <2>2. /\ node # "init" /\ boot.height \in 0..Len(chain)
        /\ IsSnapshot(boot.command, boot.height, response.message.type, response.message.payload)
    BY <1>1, <2>1 DEF IInv, CommandInv
  <2>3. /\ result'.command = boot.command /\ result'.height = boot.height
        /\ result'.type = response.message.type /\ result'.payload = response.message.payload
    BY <1>4, <2>1
  <2>4. IsSnapshot(result.command, result.height, result.type, result.payload)'
    BY <1>1, <2>2, <2>3 DEF IsSnapshot, Starts
  <2>5. CommandInv'
    BY <1>1, <2>2, <2>3, <2>4 DEF CommandInv, AnswerIsSnapshot
  <2> QED
    BY <1>1, <2>5, Stutters DEF Kept, IInv
<1> QED
  BY <1>2, <1>3, <1>4

\* A command is typed: both wires are new.
LEMMA TypeCommandStep ==
  ASSUME IInv, TypeCommand
  PROVE  Kept
<1>0. WireInv(request) /\ WireInv(response)
  BY DEF IInv
<1>1. CASE node = "dead"
  <2>1. /\ result' = [state |-> "unreachable"]
        /\ UNCHANGED <<disk, node, chain, boot, request, response>>
    BY <1>1 DEF TypeCommand
  <2>2. ~Answered'
    BY <2>1 DEF Answered
  <2>3. CommandInv'
    BY <2>1, <2>2 DEF IInv, CommandInv, AnswerIsSnapshot, IsSnapshot, Starts
  <2> QED
    BY <2>1, <2>3, Stutters DEF Kept, IInv
<1>2. CASE node # "dead"
  <2>1. PICK c \in CommandSet :
          /\ boot' = [pc |-> "request", command |-> c, height |-> Len(chain)]
          /\ result' = NoResult
          /\ request' = Req!ipc_send(Req!NewWire, Req!Message(c.type, Payload(c.query)))
          /\ response' = Req!NewWire
          /\ UNCHANGED <<disk, node, chain>>
    BY <1>2, NewWireFacts DEF TypeCommand
  <2>2. /\ c.type \in {"QUERY_CHAIN", "QUERY_BLOCK"}
        /\ c.query.by = "all" => c.query = [by |-> "all"]
    BY DEF CommandSet, Queries
  <2>3. PICK m : m = Req!Message(c.type, Payload(c.query))
    OBVIOUS
  <2>4. m = Req!Message(m.type, m.payload) /\ m.payload = Payload(c.query) /\ m.state = "message"
    BY <2>3 DEF Req!Message
  <2>5. IsSeq(m.payload)
    BY <2>4, SeqOne, SeqEmpty DEF Payload
  <2>6. PICK w : w = Req!NewWire
    OBVIOUS
  <2>7. /\ WireInv(w) /\ w.message = NoResult /\ Value(w) = NoResult
    BY <2>6, NewWireFacts
  <2>8. /\ WireInv(request') /\ request'.message \in {NoResult, m} /\ Value(request') = NoResult
    <3>1. request' = Req!ipc_send(w, m)
      BY <2>1, <2>3, <2>6
    <3> QED
      BY <2>4, <2>5, <2>7, <3>1, SendStep
  <2>9. WireInv(response') /\ response'.message = NoResult /\ Value(response') = NoResult
    BY <2>1, <2>6, <2>7
  <2>10. Delivers(request, request') /\ Delivers(response, response')
    BY <2>4, <2>8, <2>9 DEF Delivers
  <2>11. Len(chain) \in Nat /\ Len(chain) \in 0..Len(chain)
    BY SeqFacts DEF IInv
  <2>12. ~Answered'
    BY <2>1 DEF Answered, NoResult
  <2>13. node' = "init" => chain' = <<>>
    BY <2>1 DEF IInv, CommandInv
  <2>14. CommandInv'
    BY <2>1, <2>2, <2>3, <2>8, <2>9, <2>11, <2>12, <2>13 DEF CommandInv, AnswerIsSnapshot
  <2> QED
    BY <2>1, <2>8, <2>9, <2>10, <2>14 DEF Kept, IInv
<1> QED
  BY <1>1, <1>2

\* The query is handled: the answer is a snapshot, of the command that was
\* typed, because the request has arrived whole.
LEMMA HandleQueryStep ==
  ASSUME IInv, HandleQuery
  PROVE  Kept
<1>0. WireInv(request) /\ WireInv(response) /\ IsSeq(chain)
  BY DEF IInv
<1>1. /\ node # "init" /\ request.receiver = "done" /\ response.message = NoResult
      /\ UNCHANGED <<disk, node, chain, boot, result, request>>
  BY DEF HandleQuery
<1>2. PICK r : r = request.message
  OBVIOUS
<1>3. Req!Received = r /\ r # NoResult
  BY <1>0, <1>1, <1>2, RequestSteps, ReceivedIsSent
<1>4. PICK q : q = IF r.payload = <<>> THEN [by |-> "all"] ELSE r.payload[1]
  OBVIOUS
<1>5. PICK a : a = IF r.type = "QUERY_CHAIN" THEN handle_query_chain(q) ELSE handle_query_block(q)
  OBVIOUS
<1>6. a = Req!Message(a.type, a.payload) /\ IsSeq(a.payload)
  BY <1>0, <1>5, ChainAnswer, BlockAnswer
<1>7. PICK v : v = Req!ipc_send(response, a)
  OBVIOUS
<1>8. response' = IF v = response THEN Req!CloseSender(response) ELSE v
  BY <1>3, <1>4, <1>5, <1>7
  DEF HandleQuery, Resp!ipc_send, Req!ipc_send, Resp!Header, Req!Header,
      Resp!CloseSender, Req!CloseSender
<1>9. /\ WireInv(v) /\ Delivers(response, v) /\ (v = response \/ (v # response /\ v.message = a))
  BY <1>0, <1>1, <1>6, <1>7, SendStep
<1>10. CASE v = response
  <2>1. /\ WireInv(response') /\ Delivers(response, response')
        /\ response'.message = response.message
    BY <1>0, <1>8, <1>10, CloseStep
  <2> QED
    BY <1>0, <1>1, <2>1, Stutters, CellsMove
<1>11. CASE v # response
  <2>1. response' = v /\ v.message = a
    BY <1>8, <1>9, <1>11
  <2>2. ASSUME boot.pc = "request"
        PROVE  IsSnapshot(boot.command, boot.height, a.type, a.payload)
    <3>1. PICK c : c = boot.command
      OBVIOUS
    <3>2. PICK h : h = boot.height
      OBVIOUS
    <3>3. /\ h \in 0..Len(chain) /\ c.type \in {"QUERY_CHAIN", "QUERY_BLOCK"}
          /\ c.query.by = "all" => c.query = [by |-> "all"]
          /\ r = Req!Message(c.type, Payload(c.query))
      BY <1>2, <1>3, <2>2, <3>1, <3>2 DEF IInv, CommandInv
    <3>4. r.type = c.type /\ r.payload = Payload(c.query)
      BY <3>3 DEF Req!Message
    <3>5. q = c.query
      <4>1. CASE c.query.by = "all"
        BY <1>4, <3>3, <3>4, <4>1 DEF Payload
      <4>2. CASE c.query.by # "all"
        <5>1. r.payload = <<c.query>>
          BY <3>4, <4>2 DEF Payload
        <5>2. <<c.query>> # <<>> /\ <<c.query>>[1] = c.query
          BY SeqOne, SeqEmpty
        <5> QED
          BY <1>4, <5>1, <5>2
      <4> QED
        BY <4>1, <4>2
    <3>6. IsSnapshot(c, h, a.type, a.payload)
      <4>1. CASE c.type = "QUERY_CHAIN"
        BY <1>0, <1>5, <3>3, <3>4, <3>5, <4>1, ChainAnswer
      <4>2. CASE c.type = "QUERY_BLOCK"
        BY <1>0, <1>5, <3>4, <3>5, <4>2, BlockAnswer
      <4> QED
        BY <3>3, <4>1, <4>2
    <3> QED
      BY <3>1, <3>2, <3>6
  <2>3. boot.pc = "request" =>
          IsSnapshot(boot.command, boot.height, response.message.type,
                     response.message.payload)'
    BY <1>1, <2>1, <2>2 DEF IsSnapshot, Starts
  <2>4. CommandInv'
    BY <1>1, <2>3 DEF IInv, CommandInv, AnswerIsSnapshot, Answered, IsSnapshot, Starts
  <2>5. Delivers(request, request') /\ Delivers(response, response')
    BY <1>1, <1>9, <2>1, Stutters
  <2> QED
    BY <1>0, <1>1, <1>9, <2>1, <2>4, <2>5 DEF Kept, IInv
<1> QED
  BY <1>10, <1>11

LEMMA Step ==
  ASSUME IInv, [Next]_vars
  PROVE  Kept
<1>1. CASE UNCHANGED vars
  <2>1. UNCHANGED <<disk, node, chain, boot, result, request, response>>
    BY <1>1 DEF vars
  <2> QED
    BY <2>1, Stutters, CellsMove DEF IInv
<1>2. CASE NodeStep
  BY <1>2, NodeInitStep, NodeMovesStep, HandleQueryStep DEF NodeStep
<1>3. CASE BootStep
  BY <1>3, BootMovesStep, FinishStep DEF BootStep
<1>4. CASE AppendBlock
  BY <1>4, AppendBlockStep
<1>5. CASE KillNode
  BY <1>5, KillNodeStep
<1>6. CASE TypeCommand
  BY <1>6, TypeCommandStep
<1> QED
  BY <1>1, <1>2, <1>3, <1>4, <1>5, <1>6 DEF Next

LEMMA Begins == Init => IInv
<1> SUFFICES ASSUME Init PROVE IInv
  OBVIOUS
<1>1. WireInv(request) /\ WireInv(response) /\ response.message = NoResult
  BY NewWireFacts DEF Init
<1>2. IsSeq(chain) /\ disk \in Files
  BY SeqEmpty DEF Init
<1>3. ~Answered /\ boot.pc # "request"
  BY DEF Init, Answered, NoResult, Prompt
<1> QED
  BY <1>1, <1>2, <1>3 DEF IInv, CommandInv, AnswerIsSnapshot, Init

-----------------------------------------------------------------------------
(* Theorems.                                                               *)

\* The invariant of wires and commands, for every size of headers, buffers
\* and payloads, every chain and every number of commands.
THEOREM Invariance == Spec => []IInv
<1>1. IInv /\ [Next]_vars => IInv'
  BY Step DEF Kept
<1> QED
  BY <1>1, Begins, PTL DEF Spec

\* An answer that the bootstrap prints or saves is a snapshot of node 0's
\* chain, although handlers, miners and the socket interleave.
THEOREM AnswersAreSnapshots == Spec => []AnswerIsSnapshot
<1>1. IInv => AnswerIsSnapshot
  BY DEF IInv, CommandInv
<1> QED
  BY <1>1, Invariance, PTL

\* ipc_send and ipc_recv implement the delivery of a whole message or of
\* nothing in both directions, however write and read cut it up.
THEOREM WiresDeliver == Spec => DeliversAllOrNothing
<1>1. Init => Req!D!Init /\ Resp!D!Init
  BY RequestDelivers, ResponseDelivers DEF Init
<1>2. IInv /\ [Next]_vars => [Req!D!Next]_(Req!D!vars) /\ [Resp!D!Next]_(Resp!D!vars)
  BY Step, RequestDelivers, ResponseDelivers DEF Kept
<1>3. Spec => Req!D!Spec
  BY <1>1, <1>2, Invariance, PTL DEF Spec, Req!D!Spec
<1>4. Spec => Resp!D!Spec
  BY <1>1, <1>2, Invariance, PTL DEF Spec, Resp!D!Spec
<1> QED
  BY <1>3, <1>4 DEF DeliversAllOrNothing, Req!DeliversAllOrNothing, Resp!DeliversAllOrNothing
=============================================================================
