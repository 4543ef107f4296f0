------------------------- MODULE PayloadPathProofs -------------------------
(***************************************************************************)
(* For every size of header, signature, payload, frame, buffer and block   *)
(* that satisfies the assumptions of PayloadPath: however the frames are   *)
(* cut, what is authenticated, hashed, decrypted and written is what the   *)
(* whole stream, taken at once, would give.                                *)
(***************************************************************************)
EXTENDS PayloadPath, FlashCallsProofs

(* A buffer of at most one unit and the blocks that have left it.          *)
Buffer(S) == [buf : Seq(S), out : Seq(Seq(S))]

(* Where a stream is after m blocks, and before block b.  The products     *)
(* stay under these names, so that the provers need no multiplication.     *)
At(m, unit) == m * unit
Before(b, unit) == (b - 1) * unit

(* After its first p blocks the buffer st holds the stream w cut into m    *)
(* blocks of a unit and a rest that is shorter.                            *)
Cut(st, p, m, w, unit) ==
    /\ Len(st.out) = p + m /\ Len(st.buf) < unit
    /\ \A b \in 1..m : /\ Len(st.out[p + b]) = unit
                       /\ \A k \in 1..unit : st.out[p + b][k] = w[Before(b, unit) + k]
    /\ \A k \in 1..Len(st.buf) : st.buf[k] = w[At(m, unit) + k]

(* This is w[1], ..., w[n].                                                *)
CutAfter(st, p, w, n, unit) ==
    \E m \in Nat : n = At(m, unit) + Len(st.buf) /\ Cut(st, p, m, w, unit)

(* The blocks of a are the first blocks of b.                              *)
Extends(a, b) ==
    Len(a.out) <= Len(b.out) /\ \A i \in 1..Len(a.out) : b.out[i] = a.out[i]

(* A block leaves the buffer.                                              *)
Emit(st, block) == [buf |-> <<>>, out |-> Append(st.out, block)]

(* One more unit.                                                          *)
LEMMA NextAt ==
    ASSUME NEW m \in Nat, NEW u \in Nat
    PROVE  /\ At(m, u) \in Nat /\ At(m + 1, u) = At(m, u) + u /\ At(0, u) = 0
           /\ Before(m + 1, u) = At(m, u)
  BY SMT DEF At, Before

(* The lengths of a buffer.                                                *)
LEMMA BufferTyped ==
    ASSUME NEW S, NEW st \in Buffer(S)
    PROVE  /\ st.buf \in Seq(S) /\ st.out \in Seq(Seq(S))
           /\ Len(st.buf) \in Nat /\ Len(st.out) \in Nat
  <1>1. st.buf \in Seq(S) /\ st.out \in Seq(Seq(S))
    BY DEF Buffer
  <1> QED BY <1>1, LenProperties

(* The rest of the buffer, completed to a block that leaves it.            *)
LEMMA BlockCuts ==
    ASSUME NEW S, NEW unit \in Nat \ {0}, NEW st \in Buffer(S), NEW p \in Nat, NEW m \in Nat,
           NEW w, Cut(st, p, m, w, unit), NEW block \in Seq(S), Len(block) = unit,
           \A k \in 1..unit : block[k] = w[At(m, unit) + k]
    PROVE  /\ Emit(st, block) \in Buffer(S) /\ Extends(st, Emit(st, block))
           /\ Cut(Emit(st, block), p, m + 1, w, unit)
           /\ CutAfter(Emit(st, block), p, w, At(m, unit) + unit, unit)
  <1> DEFINE r == Emit(st, block)
  <1>1. /\ st.buf \in Seq(S) /\ st.out \in Seq(Seq(S))
        /\ Len(st.buf) \in Nat /\ Len(st.out) \in Nat /\ Len(st.out) = p + m
    BY BufferTyped DEF Cut
  <1>2. /\ r.out \in Seq(Seq(S)) /\ Len(r.out) = Len(st.out) + 1
        /\ \A i \in 1..Len(st.out) : r.out[i] = st.out[i]
        /\ r.out[Len(st.out) + 1] = block
    BY <1>1, AppendProperties DEF Emit
  <1>3. r.buf = <<>> /\ Len(r.buf) = 0 /\ r \in Buffer(S)
    BY <1>1, AppendProperties, EmptySeq DEF Buffer, Emit
  <1> HIDE DEF r
  <1>4. Extends(st, r)
    <2>1. Len(st.out) <= Len(r.out)
      BY <1>1, <1>2, SMT
    <2> QED BY <1>2, <2>1 DEF Extends
  <1>5. ASSUME NEW b \in 1..m + 1
        PROVE  Len(r.out[p + b]) = unit /\ \A k \in 1..unit : r.out[p + b][k] = w[Before(b, unit) + k]
    <2>1. CASE b = m + 1
      <3>1. p + b = Len(st.out) + 1 /\ Before(b, unit) = At(m, unit)
        BY <1>1, <2>1, NextAt
      <3> QED BY <1>2, <3>1
    <2>2. CASE b \in 1..m
      <3>1. p + b \in 1..Len(st.out)
        BY <2>2, <1>1
      <3>2. r.out[p + b] = st.out[p + b]
        BY <3>1, <1>2
      <3>3. /\ Len(st.out[p + b]) = unit
            /\ \A k \in 1..unit : st.out[p + b][k] = w[Before(b, unit) + k]
        BY <2>2 DEF Cut
      <3> QED BY <3>2, <3>3
    <2> QED BY <2>1, <2>2
  <1>6. Cut(r, p, m + 1, w, unit)
    <2>1. Len(r.out) = p + (m + 1) /\ Len(r.buf) < unit
      BY <1>1, <1>2, <1>3, SMT
    <2>2. \A k \in 1..Len(r.buf) : r.buf[k] = w[At(m + 1, unit) + k]
      BY <1>3, SMT
    <2> QED BY <2>1, <2>2, <1>5 DEF Cut
  <1>7. CutAfter(r, p, w, At(m, unit) + unit, unit)
    <2> DEFINE v == At(m, unit) + unit
    <2>1. v = At(m + 1, unit)
      BY NextAt
    <2> HIDE DEF v
    <2>2. v = At(m + 1, unit) + Len(r.buf)
      <3>1. m + 1 \in Nat
        OBVIOUS
      <3>2. At(m + 1, unit) \in Nat
        BY <3>1, NextAt
      <3> QED BY <2>1, <3>2, <1>3
    <2>3. CutAfter(r, p, w, v, unit)
      BY <1>6, <2>2 DEF CutAfter
    <2> QED BY <2>3 DEF v
  <1> QED BY <1>3, <1>4, <1>6, <1>7 DEF r

(* More of the stream goes into the buffer; a block that is full leaves.   *)
LEMMA FillCuts ==
    ASSUME NEW S, NEW unit \in Nat \ {0}, NEW st \in Buffer(S), NEW p \in Nat, NEW n \in Nat,
           NEW w, CutAfter(st, p, w, n, unit), NEW piece \in Seq(S),
           Len(st.buf) + Len(piece) <= unit,
           \A k \in 1..Len(piece) : piece[k] = w[n + k]
    PROVE  /\ Fill(st, piece, unit) \in Buffer(S)
           /\ Extends(st, Fill(st, piece, unit))
           /\ CutAfter(Fill(st, piece, unit), p, w, n + Len(piece), unit)
  <1> DEFINE l == Len(st.buf)
             e == Len(piece)
             b == st.buf \o piece
             r == Fill(st, piece, unit)
             v == n + e
  <1>1. /\ st.buf \in Seq(S) /\ st.out \in Seq(Seq(S))
        /\ l \in Nat /\ e \in Nat /\ l + e <= unit /\ Len(st.out) \in Nat
    BY BufferTyped, LenProperties
  <1>2. PICK m \in Nat : n = At(m, unit) + l /\ Cut(st, p, m, w, unit)
    BY DEF CutAfter
  <1> DEFINE q == At(m, unit)
  <1>3. n = q + l /\ q \in Nat
    BY <1>2, NextAt
  <1>4. b \in Seq(S) /\ Len(b) = l + e
        /\ \A i \in 1..l + e : b[i] = IF i <= l THEN st.buf[i] ELSE piece[i - l]
    BY <1>1, ConcatProperties
  <1>5. \A k \in 1..e : piece[k] = w[n + k]
    OBVIOUS
  <1>6. \A k \in 1..l : st.buf[k] = w[q + k]
    BY <1>2 DEF Cut
  <1>7. r = IF l + e = unit THEN Emit(st, b) ELSE [buf |-> b, out |-> st.out]
    BY <1>4 DEF Fill, Emit
  <1> HIDE DEF l, e, b, r, v, q
  <1>8. \A k \in 1..l + e : b[k] = w[q + k]
    <2> SUFFICES ASSUME NEW k \in 1..l + e PROVE b[k] = w[q + k]
      OBVIOUS
    <2>1. CASE k <= l
      <3>1. k \in 1..l /\ b[k] = st.buf[k]
        BY <1>1, <1>4, <2>1, SMT
      <3> QED BY <3>1, <1>6
    <2>2. CASE ~(k <= l)
      <3>1. k - l \in 1..e /\ n + (k - l) = q + k
        BY <1>1, <1>3, <2>2, SMTT(30)
      <3>2. b[k] = piece[k - l]
        BY <1>4, <2>2
      <3>3. piece[k - l] = w[n + (k - l)]
        BY <1>5, <3>1
      <3> QED BY <3>1, <3>2, <3>3
    <2> QED BY <2>1, <2>2
  <1>9. CASE l + e = unit
    <2>1. r = Emit(st, b) /\ Len(b) = unit /\ \A k \in 1..unit : b[k] = w[At(m, unit) + k]
      BY <1>4, <1>7, <1>8, <1>9 DEF q
    <2>2. v = q + unit
      BY <1>1, <1>3, <1>9, SMT DEF v
    <2>3. r \in Buffer(S) /\ Extends(st, r) /\ CutAfter(r, p, w, At(m, unit) + unit, unit)
      <3>1. Cut(st, p, m, w, unit) /\ b \in Seq(S)
        BY <1>2, <1>4
      <3>2. /\ Emit(st, b) \in Buffer(S) /\ Extends(st, Emit(st, b))
            /\ CutAfter(Emit(st, b), p, w, At(m, unit) + unit, unit)
        BY <2>1, <3>1, BlockCuts, SMTT(60)
      <3> QED BY <2>1, <3>2
    <2> QED BY <2>2, <2>3 DEF r, v, e, q
  <1>10. CASE l + e # unit
    <2>1. r.out = st.out /\ r.buf = b /\ r \in Buffer(S) /\ Len(r.buf) = l + e
      BY <1>1, <1>4, <1>7, <1>10 DEF Buffer
    <2>2. Extends(st, r)
      BY <1>1, <2>1 DEF Extends
    <2>3. v = At(m, unit) + Len(r.buf)
      <3>1. v = q + (l + e)
        BY <1>1, <1>3, SMT DEF v
      <3> QED BY <2>1, <3>1 DEF q
    <2>4. \A k \in 1..Len(r.buf) : r.buf[k] = w[At(m, unit) + k]
      BY <1>8, <2>1 DEF q
    <2>5. Len(r.out) = p + m /\ Len(r.buf) < unit
      <3>1. Len(st.out) = p + m
        BY <1>2 DEF Cut
      <3>2. l + e < unit
        <4>1. l \in Nat /\ e \in Nat /\ unit \in Nat /\ l + e <= unit /\ l + e # unit
          BY <1>1, <1>10
        <4> QED BY <4>1, SMT
      <3> QED BY <2>1, <3>1, <3>2
    <2>6. \A i \in 1..m :
            Len(r.out[p + i]) = unit /\ \A k \in 1..unit : r.out[p + i][k] = w[Before(i, unit) + k]
      BY <1>2, <2>1, SMTT(30) DEF Cut
    <2>7. Cut(r, p, m, w, unit)
      BY <2>4, <2>5, <2>6 DEF Cut
    <2>8. CutAfter(r, p, w, v, unit)
      BY <2>3, <2>7 DEF CutAfter
    <2> QED BY <2>1, <2>2, <2>8 DEF r, v, e
  <1> QED BY <1>9, <1>10

(* The state of the loop of Absorb after i rounds.                         *)
IsRun(run, st, data, unit, n) ==
    run = [i \in 0..n |-> IF i = 0 THEN [st |-> st, at |-> 0] ELSE Round(run[i - 1], data, unit)]

(* There is one, for any number of rounds.                                 *)
LEMMA RunExists ==
    ASSUME NEW st, NEW data, NEW unit
    PROVE  \A n \in Nat : \E run : IsRun(run, st, data, unit, n)
  <1> DEFINE S == {n \in Nat : \E run : IsRun(run, st, data, unit, n)}
  <1>1. 0 \in S
    <2> DEFINE run == [i \in 0..0 |-> [st |-> st, at |-> 0]]
    <2>1. run = [i \in 0..0 |-> IF i = 0 THEN [st |-> st, at |-> 0] ELSE Round(run[i - 1], data, unit)]
      OBVIOUS
    <2> HIDE DEF run
    <2> QED BY <2>1 DEF IsRun
  <1>2. ASSUME NEW n \in Nat, n \in S PROVE n + 1 \in S
    <2>1. PICK run : IsRun(run, st, data, unit, n)
      BY <1>2
    <2> DEFINE longer == [i \in 0..n + 1 |-> IF i = n + 1 THEN Round(run[n], data, unit) ELSE run[i]]
    <2>2. \A i \in 0..n : longer[i] = run[i]
      OBVIOUS
    <2>3. longer[n + 1] = Round(run[n], data, unit)
      OBVIOUS
    <2>4. \A i \in 0..n : run[i] = IF i = 0 THEN [st |-> st, at |-> 0] ELSE Round(run[i - 1], data, unit)
      BY <2>1, Zenon DEF IsRun
    <2>5. longer \in [0..n + 1 -> {longer[i] : i \in 0..n + 1}]
      OBVIOUS
    <2> HIDE DEF longer
    <2>6. ASSUME NEW i \in 0..n + 1
          PROVE  longer[i] = IF i = 0 THEN [st |-> st, at |-> 0] ELSE Round(longer[i - 1], data, unit)
      <3>1. CASE i = n + 1
        <4>1. i # 0 /\ i - 1 = n /\ n \in 0..n
          BY <3>1, SMT
        <4>2. longer[i] = Round(run[n], data, unit) /\ longer[i - 1] = run[n]
          BY <2>2, <2>3, <3>1, <4>1
        <4> QED BY <4>1, <4>2
      <3>2. CASE i \in 0..n /\ i # 0
        <4>1. i - 1 \in 0..n
          BY <3>2, SMT
        <4> QED BY <2>2, <2>4, <3>2, <4>1
      <3>3. CASE i = 0
        BY <2>2, <2>4, <3>3
      <3> QED BY <3>1, <3>2, <3>3
    <2>7. IsRun(longer, st, data, unit, n + 1)
      BY <2>5, <2>6, Zenon DEF IsRun
    <2> QED BY <2>7
  <1> HIDE DEF S
  <1>3. \A n \in Nat : n \in S
    BY <1>1, <1>2, SetInduction
  <1> QED BY <1>3 DEF S

(* So what the recursive function of Absorb computes is a run.             *)
LEMMA AbsorbRuns ==
    ASSUME NEW st, NEW data, NEW unit, Len(data) \in Nat
    PROVE  \E run : IsRun(run, st, data, unit, Len(data)) /\ Absorb(st, data, unit) = run[Len(data)].st
  <1> DEFINE run == CHOOSE run : IsRun(run, st, data, unit, Len(data))
  <1>1. IsRun(run, st, data, unit, Len(data))
    BY RunExists
  <1>2. Absorb(st, data, unit) = run[Len(data)].st
    BY Zenon DEF Absorb, IsRun
  <1> QED BY <1>1, <1>2

(* What left the buffer first stays first, step after step.                *)
LEMMA ExtendsFurther ==
    ASSUME NEW S, NEW a \in Buffer(S), NEW b \in Buffer(S), NEW c \in Buffer(S),
           Extends(a, b), Extends(b, c)
    PROVE  Extends(a, c)
  <1>1. Len(a.out) \in Nat /\ Len(b.out) \in Nat /\ Len(c.out) \in Nat
    BY BufferTyped
  <1>2. Len(a.out) <= Len(b.out) /\ Len(b.out) <= Len(c.out)
    BY DEF Extends
  <1>3. \A i \in 1..Len(a.out) : i \in 1..Len(b.out)
    BY <1>1, <1>2, SMT
  <1>4. Len(a.out) <= Len(c.out)
    BY <1>1, <1>2, SMT
  <1> QED BY <1>3, <1>4 DEF Extends

(* What holds of the buffer between two rounds, s.at bytes of data taken.  *)
Taken(s, st, data, p, w, n, unit, S) ==
    /\ s.st \in Buffer(S) /\ s.at \in 0..Len(data)
    /\ Extends(st, s.st)
    /\ CutAfter(s.st, p, w, n + s.at, unit)

(* A round takes a byte at least, if there is one.                         *)
LEMMA RoundTakes ==
    ASSUME NEW S, NEW unit \in Nat \ {0}, NEW st \in Buffer(S), NEW p \in Nat, NEW n \in Nat,
           NEW w, NEW data \in Seq(S), \A k \in 1..Len(data) : data[k] = w[n + k],
           NEW s, Taken(s, st, data, p, w, n, unit, S)
    PROVE  /\ Taken(Round(s, data, unit), st, data, p, w, n, unit, S)
           /\ s.at <= Round(s, data, unit).at
           /\ s.at < Len(data) => s.at < Round(s, data, unit).at
  <1> DEFINE l == Len(s.st.buf)
             d == Len(data)
             take == Least(unit - l, d - s.at)
             piece == SubSeq(data, s.at + 1, s.at + take)
             r == Round(s, data, unit)
  <1>1. s.st \in Buffer(S) /\ s.at \in 0..d /\ Extends(st, s.st) /\ CutAfter(s.st, p, w, n + s.at, unit)
    BY DEF Taken
  <1>2. d \in Nat /\ l \in Nat /\ s.at \in Nat /\ s.at <= d
    BY <1>1, BufferTyped, LenProperties
  <1>3. l < unit
    BY <1>1 DEF CutAfter, Cut
  <1> HIDE DEF l, d
  <1>4. take \in Nat /\ take <= unit - l /\ s.at + take <= d
        /\ (s.at = d => take = 0) /\ (s.at # d => take > 0)
    BY <1>2, <1>3, SMTT(30) DEF Least
  <1>5. r = [st |-> IF s.at = d THEN s.st ELSE Fill(s.st, piece, unit), at |-> s.at + take]
    BY DEF Round, l, d
  <1> HIDE DEF take, r
  <1>6. CASE s.at = d
    <2>1. r.st = s.st /\ r.at = s.at
      BY <1>2, <1>4, <1>5, <1>6
    <2> QED BY <1>1, <1>2, <1>6, <2>1 DEF Taken, d, r
  <1>7. CASE s.at # d
    <2>1. r.st = Fill(s.st, piece, unit) /\ r.at = s.at + take
      BY <1>5, <1>7
    <2>2. \A k \in s.at + 1..s.at + take : k \in 1..d /\ data[k] \in S
      <3>1. \A k \in s.at + 1..s.at + take : k \in 1..d
        BY <1>2, <1>4, SMT
      <3> QED BY <3>1, ElementOfSeq DEF d
    <2>3. s.at + 1 \in Int /\ s.at + take \in Int /\ s.at + 1 <= s.at + take
          /\ (s.at + take) - (s.at + 1) + 1 = take
      BY <1>2, <1>4, <1>7, SMT
    <2>4. piece \in Seq(S) /\ Len(piece) = take /\ \A i \in 1..take : piece[i] = data[s.at + 1 + i - 1]
      BY <2>2, <2>3, SubSeqProperties, SMTT(30)
    <2> HIDE DEF piece
    <2>5. \A k \in 1..Len(piece) : piece[k] = w[n + s.at + k]
      <3> SUFFICES ASSUME NEW k \in 1..take PROVE piece[k] = w[n + s.at + k]
        BY <2>4
      <3>1. s.at + 1 + k - 1 = s.at + k /\ s.at + k \in 1..d /\ n + (s.at + k) = n + s.at + k
        BY <1>2, <1>4, SMTT(30)
      <3>2. piece[k] = data[s.at + k]
        BY <2>4, <3>1
      <3>3. data[s.at + k] = w[n + (s.at + k)]
        BY <3>1 DEF d
      <3> QED BY <3>1, <3>2, <3>3
    <2>6. Len(s.st.buf) + Len(piece) <= unit /\ n + s.at \in Nat
      BY <1>2, <1>4, <2>4, SMTT(30) DEF l
    <2> DEFINE v == n + s.at
    <2>7. /\ CutAfter(s.st, p, w, v, unit) /\ v \in Nat
          /\ \A k \in 1..Len(piece) : piece[k] = w[v + k]
      BY <1>1, <2>5, <2>6
    <2> HIDE DEF v
    <2>8. r.st \in Buffer(S) /\ Extends(s.st, r.st) /\ CutAfter(r.st, p, w, v + take, unit)
      <3>1. s.st \in Buffer(S) /\ piece \in Seq(S) /\ Len(s.st.buf) + Len(piece) <= unit
        BY <1>1, <2>4, <2>6
      <3>2. /\ Fill(s.st, piece, unit) \in Buffer(S) /\ Extends(s.st, Fill(s.st, piece, unit))
            /\ CutAfter(Fill(s.st, piece, unit), p, w, v + Len(piece), unit)
        BY <2>7, <3>1, FillCuts
      <3> QED BY <2>1, <2>4, <3>2
    <2>9. v + take = n + r.at /\ r.at \in 0..d /\ s.at < r.at
      BY <1>2, <1>4, <1>7, <2>1, SMTT(30) DEF v
    <2>10. Extends(st, r.st)
      BY <1>1, <2>8, ExtendsFurther
    <2> QED BY <1>2, <2>8, <2>9, <2>10 DEF Taken, d, r
  <1> QED BY <1>6, <1>7

(* However long the data and the rest in the buffer, the loops cut the     *)
(* stream into the same blocks.                                            *)
LEMMA AbsorbCuts ==
    ASSUME NEW S, NEW unit \in Nat \ {0}, NEW st \in Buffer(S), NEW p \in Nat, NEW n \in Nat,
           NEW w, CutAfter(st, p, w, n, unit), NEW data \in Seq(S),
           \A k \in 1..Len(data) : data[k] = w[n + k]
    PROVE  /\ Absorb(st, data, unit) \in Buffer(S)
           /\ Extends(st, Absorb(st, data, unit))
           /\ CutAfter(Absorb(st, data, unit), p, w, n + Len(data), unit)
  <1> DEFINE d == Len(data)
             G(s) == Taken(s, st, data, p, w, n, unit, S)
  <1>1. d \in Nat
    BY LenProperties
  <1>2. PICK run : IsRun(run, st, data, unit, d) /\ Absorb(st, data, unit) = run[d].st
    BY <1>1, AbsorbRuns
  <1>3. \A i \in 0..d : run[i] = IF i = 0 THEN [st |-> st, at |-> 0] ELSE Round(run[i - 1], data, unit)
    BY <1>2, Zenon DEF IsRun
  <1> DEFINE T == {i \in Nat : i <= d => G(run[i]) /\ i <= run[i].at}
  <1> HIDE DEF d
  <1>4. 0 \in T
    <2>1. run[0] = [st |-> st, at |-> 0]
      BY <1>1, <1>3
    <2>2. run[0].st = st /\ run[0].at = 0 /\ 0 \in 0..d
      BY <1>1, <2>1
    <2>3. n + 0 = n
      OBVIOUS
    <2>4. Extends(st, st)
      BY BufferTyped DEF Extends
    <2> QED BY <2>2, <2>3, <2>4 DEF Taken
  <1>5. ASSUME NEW i \in Nat, i \in T PROVE i + 1 \in T
    <2> SUFFICES ASSUME i + 1 <= d PROVE G(run[i + 1]) /\ i + 1 <= run[i + 1].at
      OBVIOUS
    <2>1. i <= d /\ i + 1 \in 0..d /\ i + 1 # 0 /\ (i + 1) - 1 = i
      BY <1>1, SMT
    <2>2. G(run[i]) /\ i <= run[i].at
      BY <1>5, <2>1
    <2>3. run[i + 1] = Round(run[i], data, unit)
      BY <1>3, <2>1
    <2>4. /\ G(run[i + 1]) /\ run[i].at <= run[i + 1].at
          /\ run[i].at < d => run[i].at < run[i + 1].at
      <3> DEFINE s == run[i]
      <3>1. Taken(s, st, data, p, w, n, unit, S)
        BY <2>2
      <3> HIDE DEF s
      <3>2. /\ Taken(Round(s, data, unit), st, data, p, w, n, unit, S)
            /\ s.at <= Round(s, data, unit).at
            /\ s.at < Len(data) => s.at < Round(s, data, unit).at
        BY <3>1, RoundTakes
      <3> QED BY <2>3, <3>2 DEF s, d
    <2>5. run[i].at \in 0..d /\ run[i + 1].at \in 0..d
      BY <2>2, <2>4 DEF Taken, d
    <2> HIDE DEF G
    <2>6. i + 1 <= run[i + 1].at
      <3> DEFINE a == run[i].at
                 b == run[i + 1].at
      <3>1. a \in 0..d /\ b \in 0..d /\ i <= a /\ a <= b /\ (a < d => a < b) /\ i + 1 <= d
        BY <2>2, <2>4, <2>5
      <3> HIDE DEF a, b
      <3>2. i + 1 <= b
        BY <1>1, <3>1, SMT
      <3> QED BY <3>2 DEF b
    <2> QED BY <2>4, <2>6
  <1> HIDE DEF T
  <1>6. \A i \in Nat : i \in T
    BY <1>4, <1>5, SetInduction
  <1>7. G(run[d]) /\ d <= run[d].at
    BY <1>1, <1>6 DEF T
  <1>8. run[d].at = d
    <2>1. run[d].at \in 0..d
      BY <1>7 DEF Taken, d
    <2> QED BY <1>1, <1>7, <2>1, SMT
  <1> QED BY <1>2, <1>7, <1>8 DEF Taken, d

-----------------------------------------------------------------------------
(* A function on 1..n is a sequence.                                       *)
LEMMA FunctionIsSeq ==
    ASSUME NEW S, NEW n \in Nat, NEW f \in [1..n -> S]
    PROVE  f \in Seq(S) /\ Len(f) = n
  OBVIOUS

(* A block ends where the next one begins, inside the stream.              *)
LEMMA BlockInside ==
    ASSUME NEW unit \in Nat \ {0}, NEW m \in Nat, NEW b \in 1..m
    PROVE  /\ Before(b, unit) \in Nat /\ At(m, unit) \in Nat
           /\ At(b, unit) = Before(b, unit) + unit
           /\ At(b, unit) <= At(m, unit)
  <1>1. PICK c \in Nat : b = c + 1
    <2>1. b - 1 \in Nat /\ b = (b - 1) + 1
      OBVIOUS
    <2> QED BY <2>1
  <1>2. Before(b, unit) \in Nat /\ At(b, unit) = Before(b, unit) + unit /\ At(m, unit) \in Nat
        /\ At(b, unit) \in Nat
    <2>1. /\ At(c, unit) \in Nat /\ At(c + 1, unit) = At(c, unit) + unit
          /\ Before(c + 1, unit) = At(c, unit) /\ At(m, unit) \in Nat
      BY NextAt
    <2> QED BY <1>1, <2>1
  <1>3. b < m => At(b, unit) + unit <= At(m, unit)
    BY <1>1, Multiples DEF At
  <1>4. b = m \/ b < m
    BY SMT
  <1> QED BY <1>2, <1>3, <1>4, SMT

(* A block of a stream of m units.                                         *)
Block(w, b, unit) == SubSeq(w, Before(b, unit) + 1, At(b, unit))

(* One block of a stream, byte by byte.                                    *)
LEMMA OneBlock ==
    ASSUME NEW S, NEW unit \in Nat \ {0}, NEW w \in Seq(S), NEW m \in Nat, Len(w) = At(m, unit),
           NEW b \in 1..m
    PROVE  /\ Block(w, b, unit) \in Seq(S) /\ Len(Block(w, b, unit)) = unit
           /\ \A k \in 1..unit : Block(w, b, unit)[k] = w[Before(b, unit) + k]
  <1> DEFINE x == Before(b, unit)
             y == At(b, unit)
             s == SubSeq(w, x + 1, y)
  <1>1. x \in Nat /\ y = x + unit /\ y <= Len(w)
    BY BlockInside
  <1>2. Len(w) \in Nat
    BY LenProperties
  <1> HIDE DEF x, y
  <1>3. \A i \in x + 1..y : i \in 1..Len(w)
    BY <1>1, <1>2, SMT
  <1>4. \A i \in x + 1..y : w[i] \in S
    BY <1>3, ElementOfSeq
  <1>5. x + 1 \in Int /\ y \in Int /\ x + 1 <= y /\ y - (x + 1) + 1 = unit
    BY <1>1, SMT
  <1>6. s \in Seq(S) /\ Len(s) = unit /\ \A k \in 1..unit : s[k] = w[x + 1 + k - 1]
    BY <1>4, <1>5, SubSeqProperties
  <1>7. \A k \in 1..unit : x + 1 + k - 1 = x + k
    BY <1>1, SMT
  <1> HIDE DEF s
  <1>8. s \in Seq(S) /\ Len(s) = unit /\ \A k \in 1..unit : s[k] = w[x + k]
    BY <1>6, <1>7
  <1> QED BY <1>8 DEF s, x, y, Block

(* The blocks of such a stream.                                            *)
LEMMA BlocksForm ==
    ASSUME NEW S, NEW unit \in Nat \ {0}, NEW w \in Seq(S), NEW m \in Nat, Len(w) = At(m, unit)
    PROVE  Blocks(w, unit) = [b \in 1..m |-> Block(w, b, unit)]
  <1>1. Len(w) = m * unit + 0 /\ 0 \in 0..unit - 1
    BY NextAt DEF At
  <1>2. Len(w) \div unit = m
    BY <1>1, DivUnique
  <1> QED BY <1>2 DEF Blocks, Block, At, Before

(* Blocks cuts a stream of m units into m blocks.                          *)
LEMMA BlocksTyped ==
    ASSUME NEW S, NEW unit \in Nat \ {0}, NEW w \in Seq(S), NEW m \in Nat, Len(w) = At(m, unit)
    PROVE  Blocks(w, unit) \in Seq(Seq(S)) /\ Len(Blocks(w, unit)) = m
  <1> DEFINE f == [b \in 1..m |-> Block(w, b, unit)]
  <1>1. f \in [1..m -> Seq(S)]
    BY OneBlock
  <1>2. Blocks(w, unit) = f
    BY BlocksForm
  <1> HIDE DEF f
  <1>3. f \in Seq(Seq(S)) /\ Len(f) = m
    BY <1>1, FunctionIsSeq
  <1> QED BY <1>2, <1>3

(* The b-th of them is the b-th unit of the stream.                        *)
LEMMA BlocksOf ==
    ASSUME NEW S, NEW unit \in Nat \ {0}, NEW w \in Seq(S), NEW m \in Nat, Len(w) = At(m, unit),
           NEW b \in 1..m
    PROVE  /\ Len(Blocks(w, unit)[b]) = unit
           /\ \A k \in 1..unit : Blocks(w, unit)[b][k] = w[Before(b, unit) + k]
  <1> DEFINE x == Block(w, b, unit)
             y == Blocks(w, unit)[b]
  <1>1. y = x
    BY BlocksForm
  <1>2. Len(x) = unit /\ \A k \in 1..unit : x[k] = w[Before(b, unit) + k]
    BY OneBlock
  <1> HIDE DEF x, y
  <1>3. Len(y) = unit /\ \A k \in 1..unit : y[k] = w[Before(b, unit) + k]
    BY <1>1, <1>2
  <1> QED BY <1>3 DEF y

(* The cut of a stream of whole units is its blocks.                       *)
LEMMA CutIsBlocks ==
    ASSUME NEW S, NEW unit \in Nat \ {0}, NEW st \in Buffer(S), NEW p \in Nat, NEW m \in Nat,
           NEW w \in Seq(S), Cut(st, p, m, w, unit), Len(w) = At(m, unit)
    PROVE  /\ Len(Blocks(w, unit)) = m
           /\ \A b \in 1..m : st.out[p + b] = Blocks(w, unit)[b]
           /\ p = 0 => st.out = Blocks(w, unit)
  <1> DEFINE B == Blocks(w, unit)
  <1>0. B \in Seq(Seq(S)) /\ Len(B) = m
    BY BlocksTyped
  <1>1. \A b \in 1..m : Len(B[b]) = unit /\ \A k \in 1..unit : B[b][k] = w[Before(b, unit) + k]
    BY BlocksOf
  <1>2. st.out \in Seq(Seq(S)) /\ Len(st.out) \in Nat /\ Len(st.out) = p + m
    BY BufferTyped DEF Cut
  <1> HIDE DEF B
  <1>3. ASSUME NEW b \in 1..m PROVE st.out[p + b] = B[b]
    <2>1. p + b \in 1..Len(st.out)
      BY <1>2
    <2>2. st.out[p + b] \in Seq(S)
      BY <1>2, <2>1, ElementOfSeq
    <2>3. B[b] \in Seq(S)
      BY <1>0, ElementOfSeq
    <2>4. Len(st.out[p + b]) = unit /\ \A k \in 1..unit : st.out[p + b][k] = w[Before(b, unit) + k]
      BY DEF Cut
    <2> DEFINE s == st.out[p + b]
               t == B[b]
    <2>5. Len(s) = Len(t) /\ \A i \in 1..Len(s) : s[i] = t[i]
      BY <1>1, <2>4
    <2> HIDE DEF s, t
    <2>6. s = t
      BY <2>2, <2>3, <2>5, SeqEqual DEF s, t
    <2> QED BY <2>6 DEF s, t
  <1>4. ASSUME p = 0 PROVE st.out = B
    <2>1. Len(st.out) = Len(B) /\ \A i \in 1..Len(st.out) : st.out[i] = B[i]
      BY <1>0, <1>2, <1>3, <1>4
    <2> QED BY <1>0, <1>2, <2>1, SeqEqual
  <1> QED BY <1>0, <1>3, <1>4 DEF B

(* What lies behind the cut does not matter.                               *)
LEMMA SameStream ==
    ASSUME NEW S, NEW unit \in Nat \ {0}, NEW st \in Buffer(S), NEW p \in Nat, NEW m \in Nat,
           NEW w, NEW x, Cut(st, p, m, w, unit),
           \A k \in 1..At(m, unit) + Len(st.buf) : w[k] = x[k]
    PROVE  Cut(st, p, m, x, unit)
  <1>1. Len(st.buf) \in Nat /\ At(m, unit) \in Nat
    BY BufferTyped, NextAt
  <1>2. ASSUME NEW b \in 1..m, NEW k \in 1..unit
        PROVE  st.out[p + b][k] = x[Before(b, unit) + k]
    <2> DEFINE i == Before(b, unit) + k
    <2>1. Before(b, unit) \in Nat /\ Before(b, unit) + unit <= At(m, unit)
      BY BlockInside
    <2>2. i \in 1..At(m, unit) + Len(st.buf)
      BY <1>1, <2>1, SMT
    <2>3. st.out[p + b][k] = w[i]
      BY DEF Cut
    <2> HIDE DEF i
    <2>4. w[i] = x[i]
      BY <2>2
    <2> QED BY <2>3, <2>4 DEF i
  <1>3. ASSUME NEW k \in 1..Len(st.buf) PROVE st.buf[k] = x[At(m, unit) + k]
    <2>1. At(m, unit) + k \in 1..At(m, unit) + Len(st.buf)
      BY <1>1, SMT
    <2>2. st.buf[k] = w[At(m, unit) + k]
      BY DEF Cut
    <2> QED BY <2>1, <2>2
  <1>4. /\ Len(st.out) = p + m /\ Len(st.buf) < unit
        /\ \A b \in 1..m : Len(st.out[p + b]) = unit
    BY DEF Cut
  <1> QED BY <1>2, <1>3, <1>4 DEF Cut

-----------------------------------------------------------------------------
(* n zeros.                                                                *)
LEMMA ZerosTyped ==
    ASSUME NEW S, Zero \in S, NEW n \in Nat
    PROVE  Zeros(n) \in Seq(S) /\ Len(Zeros(n)) = n /\ \A k \in 1..n : Zeros(n)[k] = Zero
  <1>1. Zeros(n) \in [1..n -> S]
    BY DEF Zeros
  <1>2. \A k \in 1..n : Zeros(n)[k] = Zero
    BY DEF Zeros
  <1> QED BY <1>1, <1>2, FunctionIsSeq

(* The remainder of m units and a rest.                                    *)
LEMMA RestOf ==
    ASSUME NEW unit \in Nat \ {0}, NEW m \in Nat, NEW l \in 0..unit - 1
    PROVE  (At(m, unit) + l) % unit = l
  <1> DEFINE x == m * unit + l
  <1>1. x = m * unit + l
    OBVIOUS
  <1> HIDE DEF x
  <1>2. x % unit = l
    BY <1>1, DivUnique
  <1> QED BY <1>2 DEF At, x

(* How much ZeroPadded adds to m units and a rest of l.                    *)
LEMMA PadLength ==
    ASSUME NEW unit \in Nat \ {0}, NEW m \in Nat, NEW l \in 0..unit - 1, NEW n,
           n = At(m, unit) + l
    PROVE  /\ (unit - (n % unit)) % unit \in Nat
           /\ (unit - (n % unit)) % unit = IF l = 0 THEN 0 ELSE unit - l
  <1>1. n % unit = l
    BY RestOf
  <1> DEFINE x == unit - l
  <1>2. x \in Nat /\ x < 2 * unit /\ (l = 0 => x = unit) /\ (l # 0 => x < unit)
    BY SMT
  <1> HIDE DEF x
  <1>3. (x < unit => x % unit = x) /\ (x >= unit => x % unit = x - unit)
    BY <1>2, WrapsOnce
  <1>4. x % unit = IF l = 0 THEN 0 ELSE x
    BY <1>2, <1>3, SMT
  <1> QED BY <1>1, <1>2, <1>4 DEF x

(* Padding the buffer pads the stream.                                     *)
LEMMA PadCuts ==
    ASSUME NEW S, Zero \in S, NEW unit \in Nat \ {0}, NEW st \in Buffer(S), NEW p \in Nat,
           NEW data \in Seq(S), CutAfter(st, p, data, Len(data), unit)
    PROVE  /\ PadBlock(st, unit) \in Buffer(S) /\ PadBlock(st, unit).buf = <<>>
           /\ Extends(st, PadBlock(st, unit))
           /\ \E m \in Nat : /\ ZeroPadded(data, unit) \in Seq(S)
                             /\ Len(ZeroPadded(data, unit)) = At(m, unit)
                             /\ Cut(PadBlock(st, unit), p, m, ZeroPadded(data, unit), unit)
  <1> DEFINE d == Len(data)
             l == Len(st.buf)
             r == PadBlock(st, unit)
             z == ZeroPadded(data, unit)
  <1>1. st.buf \in Seq(S) /\ l \in Nat /\ d \in Nat
    BY BufferTyped, LenProperties
  <1>2. PICK m \in Nat : d = At(m, unit) + l /\ Cut(st, p, m, data, unit)
    BY DEF CutAfter
  <1>3. l < unit /\ At(m, unit) \in Nat /\ l \in 0..unit - 1
    <2>1. l < unit
      BY <1>2 DEF Cut
    <2> HIDE DEF l
    <2>2. l \in 0..unit - 1
      BY <1>1, <2>1, SMT
    <2> QED BY <2>1, <2>2, NextAt
  <1> DEFINE pad == IF l = 0 THEN 0 ELSE unit - l
  <1>4. z = data \o Zeros(pad)
    <2> HIDE DEF l, d
    <2>1. (unit - (d % unit)) % unit = pad
      BY <1>2, <1>3, PadLength
    <2> QED BY <2>1 DEF ZeroPadded, d
  <1>5. pad \in Nat
    <2> HIDE DEF l
    <2> QED BY <1>1, <1>3, SMT
  <1>6. Zeros(pad) \in Seq(S) /\ Len(Zeros(pad)) = pad /\ \A k \in 1..pad : Zeros(pad)[k] = Zero
    BY <1>5, ZerosTyped, Zenon
  <1> HIDE DEF d, l, r, z, pad
  <1>7. z \in Seq(S) /\ Len(z) = d + pad
        /\ \A k \in 1..d + pad : z[k] = IF k <= d THEN data[k] ELSE Zeros(pad)[k - d]
    BY <1>4, <1>6, ConcatProperties DEF d
  <1>8. CASE l = 0
    <2>1. pad = 0
      BY <1>8 DEF pad
    <2>2. st.buf = <<>>
      BY <1>1, <1>8, EmptySeq DEF l
    <2>3. r = st
      BY <2>2 DEF PadBlock, r
    <2>4. Len(z) = At(m, unit)
      BY <1>1, <1>2, <1>3, <1>7, <1>8, <2>1, SMT
    <2>5. \A k \in 1..d : data[k] = z[k]
      BY <1>1, <1>7, <2>1, SMT
    <2>6. Cut(st, p, m, z, unit)
      BY <1>2, <2>5, SameStream DEF l
    <2>7. Extends(st, st)
      BY BufferTyped DEF Extends
    <2> QED BY <1>7, <2>2, <2>3, <2>4, <2>6, <2>7 DEF r, z
  <1>9. CASE l # 0
    <2> DEFINE block == st.buf \o Zeros(pad)
    <2>1. pad = unit - l /\ l + pad = unit
      BY <1>1, <1>3, <1>9, SMT DEF pad
    <2>2. block \in Seq(S) /\ Len(block) = unit
          /\ \A k \in 1..unit : block[k] = IF k <= l THEN st.buf[k] ELSE Zeros(pad)[k - l]
      <3> DEFINE zeros == Zeros(pad)
      <3>1. zeros \in Seq(S) /\ Len(zeros) = pad /\ st.buf \in Seq(S) /\ Len(st.buf) = l
        BY <1>1, <1>6 DEF l
      <3> HIDE DEF zeros
      <3>2. /\ st.buf \o zeros \in Seq(S) /\ Len(st.buf \o zeros) = l + pad
            /\ \A k \in 1..l + pad : (st.buf \o zeros)[k] = IF k <= l THEN st.buf[k] ELSE zeros[k - l]
        BY <3>1, ConcatProperties, ZenonT(60)
      <3> QED BY <2>1, <3>2 DEF zeros
    <2> HIDE DEF block
    <2>3. r = Emit(st, block)
      BY <1>9, <2>1, EmptySeq DEF PadBlock, Emit, r, l, block
    <2>4. \A k \in 1..d : data[k] = z[k]
      BY <1>1, <1>5, <1>7, SMT
    <2>5. Cut(st, p, m, z, unit)
      BY <1>2, <2>4, SameStream DEF l
    <2>6. d + pad = At(m, unit) + unit
      BY <1>1, <1>2, <1>3, <2>1, SMT
    <2>7. ASSUME NEW k \in 1..unit PROVE block[k] = z[At(m, unit) + k]
      <3> DEFINE i == At(m, unit) + k
      <3>1. i \in 1..d + pad
        BY <1>3, <2>6, SMT
      <3>2. CASE k <= l
        <4>1. i <= d /\ k \in 1..l
          BY <1>1, <1>2, <1>3, <3>2, SMT
        <4>2. z[i] = data[i]
          BY <1>7, <3>1, <4>1
        <4>3. st.buf[k] = data[i]
          BY <1>2, <4>1 DEF Cut, l
        <4> QED BY <2>2, <3>2, <4>2, <4>3
      <3>3. CASE ~(k <= l)
        <4>1. ~(i <= d) /\ i - d = k - l
          BY <1>1, <1>2, <1>3, <3>3, SMT
        <4> HIDE DEF i
        <4>2. z[i] = Zeros(pad)[i - d]
          BY <1>7, <3>1, <4>1
        <4>3. block[k] = Zeros(pad)[k - l]
          BY <2>2, <3>3
        <4> QED BY <4>1, <4>2, <4>3 DEF i
      <3> QED BY <3>2, <3>3
    <2>8. r \in Buffer(S) /\ Extends(st, r) /\ Cut(r, p, m + 1, z, unit)
      BY <2>2, <2>3, <2>5, <2>7, BlockCuts
    <2>9. r.buf = <<>> /\ m + 1 \in Nat
      BY <2>3 DEF Emit
    <2>10. Len(z) = At(m + 1, unit)
      BY <1>7, <2>6, NextAt
    <2> QED BY <1>7, <2>8, <2>9, <2>10 DEF r, z
  <1> QED BY <1>8, <1>9

-----------------------------------------------------------------------------
(* A message with zeros and the length behind it.                          *)
Ended(c, z, n) == c \o Zeros(z) \o [i \in 1..ShaTail |-> LengthOf(n)]

(* The padded end of the message, byte by byte.                            *)
LEMMA EndedForm ==
    ASSUME NEW S, Zero \in S, NEW n \in Nat, LengthOf(n) \in S, NEW c \in Seq(S), NEW z \in Nat
    PROVE  /\ Ended(c, z, n) \in Seq(S) /\ Len(Ended(c, z, n)) = Len(c) + z + ShaTail
           /\ \A k \in 1..Len(c) + z + ShaTail :
                Ended(c, z, n)[k] = IF k <= Len(c) THEN c[k]
                                    ELSE IF k <= Len(c) + z THEN Zero ELSE LengthOf(n)
  <1> DEFINE t == [i \in 1..ShaTail |-> LengthOf(n)]
             y == Zeros(z)
             cz == c \o y
             e == cz \o t
             l == Len(c)
  <1>1. ShaTail \in Nat /\ l \in Nat
    BY PathAssumption, LenProperties
  <1>2. t \in [1..ShaTail -> S] /\ \A k \in 1..ShaTail : t[k] = LengthOf(n)
    OBVIOUS
  <1>3. y \in Seq(S) /\ Len(y) = z /\ \A k \in 1..z : y[k] = Zero
    BY ZerosTyped
  <1> HIDE DEF t, y
  <1>4. t \in Seq(S) /\ Len(t) = ShaTail
    BY <1>1, <1>2, FunctionIsSeq
  <1>5. cz \in Seq(S) /\ Len(cz) = l + z
        /\ \A k \in 1..l + z : cz[k] = IF k <= l THEN c[k] ELSE y[k - l]
    BY <1>3, ConcatProperties
  <1> HIDE DEF cz
  <1>6. e \in Seq(S) /\ Len(e) = l + z + ShaTail
        /\ \A k \in 1..l + z + ShaTail : e[k] = IF k <= l + z THEN cz[k] ELSE t[k - (l + z)]
    <2> HIDE DEF l
    <2>1. /\ cz \o t \in Seq(S) /\ Len(cz \o t) = Len(cz) + Len(t)
          /\ \A k \in 1..Len(cz) + Len(t) :
               (cz \o t)[k] = IF k <= Len(cz) THEN cz[k] ELSE t[k - Len(cz)]
      BY <1>4, <1>5, ConcatProperties
    <2> QED BY <1>4, <1>5, <2>1
  <1> HIDE DEF e, l
  <1>7. ASSUME NEW k \in 1..l + z + ShaTail
        PROVE  e[k] = IF k <= l THEN c[k] ELSE IF k <= l + z THEN Zero ELSE LengthOf(n)
    <2>1. CASE k <= l
      <3>1. k \in 1..l + z /\ k <= l + z
        BY <1>1, <2>1, SMT
      <3> QED BY <1>5, <1>6, <2>1, <3>1
    <2>2. CASE ~(k <= l) /\ k <= l + z
      <3>1. k \in 1..l + z /\ k - l \in 1..z
        BY <1>1, <2>2, SMT
      <3> QED BY <1>3, <1>5, <1>6, <2>2, <3>1
    <2>3. CASE ~(k <= l + z)
      <3>1. k - (l + z) \in 1..ShaTail /\ ~(k <= l)
        BY <1>1, <2>3, SMT
      <3> QED BY <1>2, <1>6, <2>3, <3>1
    <2> QED BY <2>1, <2>2, <2>3
  <1>8. e = Ended(c, z, n)
    BY DEF Ended, e, cz, y, t
  <1> QED BY <1>6, <1>7, <1>8 DEF l

(* The number of zeros is unique.                                          *)
LEMMA OneFiller ==
    ASSUME NEW u \in Nat \ {0}, NEW x \in Nat, NEW a \in 0..u - 1, NEW b \in 0..u - 1,
           (x + a) % u = 0, (x + b) % u = 0
    PROVE  a = b
  <1>1. ASSUME NEW c \in 0..u - 1, NEW d \in 0..u - 1, (x + c) % u = 0, (x + d) % u = 0, d <= c
        PROVE  c = d
    <2> DEFINE e == c - d
    <2>1. x + c \in Nat /\ x + d \in Nat /\ x + d <= x + c /\ (x + c) - (x + d) = e
      BY <1>1, SMT
    <2>2. e \in Nat /\ e < u /\ e < 2 * u
      BY <1>1, SMT
    <2>3. ((x + c) - (x + d)) % u = 0
      BY <1>1, <2>1, MultiplesAdd
    <2>4. e % u = 0
      BY <2>1, <2>3
    <2> HIDE DEF e
    <2>5. e = 0
      BY <2>2, <2>4, WrapsOnce
    <2> QED BY <1>1, <2>5, SMT DEF e
  <1>2. a <= b \/ b <= a
    BY SMT
  <1> QED BY <1>1, <1>2

(* With the right number of zeros, ShaReference is what it says.           *)
LEMMA ReferenceForm ==
    ASSUME NEW S, NEW data \in Seq(S), Mark \in S, NEW z \in 0..ShaBlock - 1, NEW m \in Nat,
           Len(data) + 1 + z + ShaTail = At(m, ShaBlock)
    PROVE  ShaReference(data) = Blocks(Ended(Append(data, Mark), z, Len(data)), ShaBlock)
  <1> DEFINE d == Len(data)
             T == ShaTail
             zeros == CHOOSE n \in 0..ShaBlock - 1 : (d + 1 + n + T) % ShaBlock = 0
  <1>1. d \in Nat /\ ShaBlock \in Nat \ {0} /\ T \in Nat
    BY LenProperties, PathAssumption
  <1>2. (d + 1 + z + T) % ShaBlock = 0
    <2>1. (m * ShaBlock) % ShaBlock = 0
      BY <1>1, Divides
    <2> QED BY <2>1 DEF At
  <1> HIDE DEF d, T
  <1>3. ASSUME NEW n \in 0..ShaBlock - 1, (d + 1 + n + T) % ShaBlock = 0 PROVE n = z
    <2> DEFINE x == d + 1 + T
    <2>1. x \in Nat /\ d + 1 + n + T = x + n /\ d + 1 + z + T = x + z
      BY <1>1, SMT
    <2> HIDE DEF x
    <2>2. (x + n) % ShaBlock = 0 /\ (x + z) % ShaBlock = 0
      BY <1>2, <1>3, <2>1
    <2> QED BY <1>1, <2>1, <2>2, OneFiller
  <1>4. zeros = z
    BY <1>2, <1>3
  <1>5. data \o <<Mark>> = Append(data, Mark)
    BY AppendIsConcat
  <1> QED BY <1>4, <1>5 DEF ShaReference, Ended, d, T

(* SHA-256: the one or two last blocks are those of the padded message.    *)
LEMMA ShaFinalIsReference ==
    ASSUME NEW S, Zero \in S, Mark \in S, NEW data \in Seq(S), LengthOf(Len(data)) \in S,
           NEW st \in Buffer(S), CutAfter(st, 0, data, Len(data), ShaBlock)
    PROVE  ShaFinal(st, Len(data)) = ShaReference(data)
  <1> DEFINE d == Len(data)
             l == Len(st.buf)
             B == ShaBlock
             T == ShaTail
             b == Append(st.buf, Mark)
             c == Append(data, Mark)
  <1>1. st.buf \in Seq(S) /\ l \in Nat /\ d \in Nat /\ B \in Nat \ {0} /\ T \in 1..B - 1
    BY BufferTyped, LenProperties, PathAssumption
  <1>2. PICK m \in Nat : d = At(m, B) + l /\ Cut(st, 0, m, data, B)
    BY DEF CutAfter
  <1> DEFINE a == At(m, B)
  <1>3. l < B /\ a \in Nat /\ At(m + 1, B) = a + B /\ At(m + 1 + 1, B) = a + B + B
    <2>1. l < B
      BY <1>2 DEF Cut
    <2> HIDE DEF l, B
    <2>2. a \in Nat /\ At(m + 1, B) = a + B
      BY <1>1, NextAt
    <2> DEFINE j == m + 1
    <2>3. j \in Nat
      OBVIOUS
    <2> HIDE DEF j, a
    <2>4. At(j + 1, B) = At(j, B) + B
      BY <1>1, <2>3, NextAt
    <2> QED BY <2>1, <2>2, <2>4 DEF j
  <1>4. b \in Seq(S) /\ Len(b) = l + 1 /\ b[l + 1] = Mark /\ \A k \in 1..l : b[k] = st.buf[k]
    BY <1>1, AppendProperties
  <1>5. c \in Seq(S) /\ Len(c) = d + 1 /\ c[d + 1] = Mark /\ \A k \in 1..d : c[k] = data[k]
    BY <1>1, AppendProperties
  <1>6. \A k \in 1..l : st.buf[k] = data[a + k]
    BY <1>2 DEF Cut
  <1>0. d = a + l
    BY <1>2
  <1> HIDE DEF d, l, B, T, b, c, a
  <1>7. ASSUME NEW k \in 1..l + 1 PROVE b[k] = c[a + k]
    <2>1. CASE k \in 1..l
      <3>1. a + k \in 1..d
        BY <1>0, <1>1, <1>3, <2>1, SMT
      <3>2. b[k] = st.buf[k] /\ st.buf[k] = data[a + k]
        BY <1>4, <1>6, <2>1
      <3>3. c[a + k] = data[a + k]
        BY <1>5, <3>1
      <3> QED BY <3>2, <3>3
    <2>2. CASE k = l + 1
      <3>1. a + k = d + 1
        BY <1>0, <1>1, <1>3, <2>2, SMT
      <3> QED BY <1>4, <1>5, <2>2, <3>1
    <2>3. k \in 1..l \/ k = l + 1
      BY <1>1, SMT
    <2> QED BY <2>1, <2>2, <2>3
  <1>8. CASE l + 1 <= B - T
    <2> DEFINE z == B - T - (l + 1)
               w == Ended(c, z, d)
               block == Ended(b, z, d)
    <2>1. z \in Nat /\ z \in 0..B - 1 /\ l + 1 + z + T = B /\ d + 1 + z + T = a + B
      BY <1>0, <1>1, <1>3, <1>8, SMT
    <2> HIDE DEF z
    <2>2. LengthOf(d) \in S
      BY DEF d
    <2>3. /\ w \in Seq(S) /\ Len(w) = d + 1 + z + T
          /\ \A k \in 1..d + 1 + z + T :
               w[k] = IF k <= d + 1 THEN c[k] ELSE IF k <= d + 1 + z THEN Zero ELSE LengthOf(d)
      <3>0. d \in Nat /\ c \in Seq(S) /\ z \in Nat
        BY <1>1, <1>5, <2>1
      <3>1. /\ w \in Seq(S) /\ Len(w) = Len(c) + z + ShaTail
            /\ \A k \in 1..Len(c) + z + ShaTail :
                 w[k] = IF k <= Len(c) THEN c[k] ELSE IF k <= Len(c) + z THEN Zero ELSE LengthOf(d)
        BY <3>0, <2>2, EndedForm, Zenon
      <3> HIDE DEF w
      <3> QED BY <1>5, <3>1, Zenon DEF T
    <2>4. /\ block \in Seq(S) /\ Len(block) = l + 1 + z + T
          /\ \A k \in 1..l + 1 + z + T :
               block[k] = IF k <= l + 1 THEN b[k] ELSE IF k <= l + 1 + z THEN Zero ELSE LengthOf(d)
      <3>0. d \in Nat /\ b \in Seq(S) /\ z \in Nat
        BY <1>1, <1>4, <2>1
      <3>1. /\ block \in Seq(S) /\ Len(block) = Len(b) + z + ShaTail
            /\ \A k \in 1..Len(b) + z + ShaTail :
                 block[k] = IF k <= Len(b) THEN b[k] ELSE IF k <= Len(b) + z THEN Zero ELSE LengthOf(d)
        BY <3>0, <2>2, EndedForm, Zenon
      <3> HIDE DEF block
      <3> QED BY <1>4, <3>1, Zenon DEF T
    <2> HIDE DEF w, block
    <2>5. ASSUME NEW k \in 1..B PROVE block[k] = w[a + k]
      <3>1. /\ k \in 1..l + 1 + z + T /\ a + k \in 1..d + 1 + z + T
            /\ (k <= l + 1 <=> a + k <= d + 1) /\ (k <= l + 1 + z <=> a + k <= d + 1 + z)
        BY <1>0, <1>1, <1>3, <2>1, SMT
      <3>2. k <= l + 1 => b[k] = c[a + k]
        BY <1>1, <1>7, SMT
      <3> QED BY <2>3, <2>4, <3>1, <3>2
    <2>6. ASSUME NEW k \in 1..a + l PROVE data[k] = w[k]
      <3>1. k \in 1..d /\ k \in 1..d + 1 + z + T /\ k <= d + 1
        BY <1>0, <1>1, <1>3, <2>1, SMT
      <3> QED BY <1>5, <2>3, <3>1
    <2>7. Cut(st, 0, m, w, B)
      BY <1>1, <1>2, <2>6, SameStream DEF a, l
    <2>8. Emit(st, block) \in Buffer(S) /\ Cut(Emit(st, block), 0, m + 1, w, B)
      BY <1>1, <2>1, <2>4, <2>5, <2>7, BlockCuts, SMTT(30) DEF a
    <2>9. Len(w) = At(m + 1, B) /\ m + 1 \in Nat
      BY <1>3, <2>1, <2>3
    <2>10. Emit(st, block).out = Blocks(w, B)
      BY <1>1, <2>3, <2>8, <2>9, CutIsBlocks
    <2>11. ShaReference(data) = Blocks(w, B)
      BY <1>1, <1>3, <2>1, <2>9, ReferenceForm DEF w, c, d, B, T, a
    <2>12. ShaFinal(st, d) = Append(st.out, block)
      <3>1. ~(Len(b) > B - T) /\ B - T - Len(b) = z
        BY <1>1, <1>4, <1>8, SMT DEF z
      <3> HIDE DEF z
      <3> QED BY <3>1 DEF ShaFinal, ShaPadding, Ended, B, T, b, block
    <2> QED BY <2>10, <2>11, <2>12 DEF Emit, d
  <1>9. CASE ~(l + 1 <= B - T)
    <2> DEFINE y == B - (l + 1)
               z == y + (B - T)
               w == Ended(c, z, d)
               first == b \o Zeros(y)
               second == Ended(<<>>, B - T, d)
    <2>1. /\ y \in Nat /\ B - T \in Nat /\ z \in Nat /\ z \in 0..B - 1 /\ l + 1 + y = B
          /\ d + 1 + z + T = a + B + B /\ z = y + (B - T) /\ B - T + T = B
      BY <1>0, <1>1, <1>3, <1>9, SMT
    <2>2. LengthOf(d) \in S
      BY DEF d
    <2>12. ShaFinal(st, d) = Append(Append(st.out, first), second)
      <3>1. Len(b) > B - T
        BY <1>1, <1>4, <1>9, SMT
      <3>2. Len(<<>>) = 0 /\ B - T - 0 = B - T
        BY <1>1, SMT
      <3> QED BY <1>4, <3>1, <3>2 DEF ShaFinal, ShaPadding, Ended, B, T, b
    <2> HIDE DEF z, y
    <2>3. /\ w \in Seq(S) /\ Len(w) = d + 1 + z + T
          /\ \A k \in 1..d + 1 + z + T :
               w[k] = IF k <= d + 1 THEN c[k] ELSE IF k <= d + 1 + z THEN Zero ELSE LengthOf(d)
      <3>0. d \in Nat /\ c \in Seq(S) /\ z \in Nat
        BY <1>1, <1>5, <2>1
      <3>1. /\ w \in Seq(S) /\ Len(w) = Len(c) + z + ShaTail
            /\ \A k \in 1..Len(c) + z + ShaTail :
                 w[k] = IF k <= Len(c) THEN c[k] ELSE IF k <= Len(c) + z THEN Zero ELSE LengthOf(d)
        BY <3>0, <2>2, EndedForm, Zenon
      <3> HIDE DEF w
      <3> QED BY <1>5, <3>1, Zenon DEF T
    <2>4. /\ second \in Seq(S) /\ Len(second) = B
          /\ \A k \in 1..B : second[k] = IF k <= B - T THEN Zero ELSE LengthOf(d)
      <3>1. <<>> \in Seq(S) /\ Len(<<>>) = 0
        BY EmptySeq
      <3> DEFINE f == B - T
      <3>2. f \in Nat /\ f + T = B
        BY <2>1
      <3> HIDE DEF f
      <3> DEFINE none == <<>>
                 g == Ended(none, f, d)
      <3>0. none \in Seq(S) /\ Len(none) = 0
        BY <3>1
      <3> HIDE DEF none
      <3>6. d \in Nat /\ none \in Seq(S) /\ f \in Nat
        BY <1>1, <3>0, <3>2
      <3>3. /\ g \in Seq(S) /\ Len(g) = Len(none) + f + ShaTail
            /\ \A k \in 1..Len(none) + f + ShaTail :
                 g[k] = IF k <= Len(none) THEN none[k]
                        ELSE IF k <= Len(none) + f THEN Zero ELSE LengthOf(d)
        BY <3>6, <2>2, EndedForm, Zenon
      <3> HIDE DEF g
      <3>4. Len(none) + f + T = B /\ Len(none) + f = f /\ \A k \in 1..B : ~(k <= Len(none))
        BY <1>1, <3>0, <3>2, SMT
      <3>5. /\ g \in Seq(S) /\ Len(g) = B
            /\ \A k \in 1..B : g[k] = IF k <= f THEN Zero ELSE LengthOf(d)
        BY <3>3, <3>4, Zenon DEF T
      <3> QED BY <3>5 DEF f, g, none
    <2>5. /\ first \in Seq(S) /\ Len(first) = B
          /\ \A k \in 1..B : first[k] = IF k <= l + 1 THEN b[k] ELSE Zero
      <3> DEFINE zeros == Zeros(y)
      <3>1. zeros \in Seq(S) /\ Len(zeros) = y /\ \A k \in 1..y : zeros[k] = Zero
        BY <2>1, ZerosTyped
      <3> HIDE DEF zeros
      <3>0. /\ b \o zeros \in Seq(S) /\ Len(b \o zeros) = Len(b) + Len(zeros)
            /\ \A k \in 1..Len(b) + Len(zeros) :
                 (b \o zeros)[k] = IF k <= Len(b) THEN b[k] ELSE zeros[k - Len(b)]
        BY <1>4, <3>1, ConcatProperties
      <3>2. /\ first \in Seq(S) /\ Len(first) = l + 1 + y
            /\ \A k \in 1..l + 1 + y : first[k] = IF k <= l + 1 THEN b[k] ELSE zeros[k - (l + 1)]
        BY <1>4, <3>0, <3>1, Zenon DEF zeros
      <3>3. \A k \in 1..B : k <= l + 1 \/ k - (l + 1) \in 1..y
        BY <1>1, <2>1, SMT
      <3> HIDE DEF first
      <3> QED BY <2>1, <3>1, <3>2, <3>3
    <2> HIDE DEF w, first, second
    <2>6. ASSUME NEW k \in 1..B PROVE first[k] = w[a + k]
      <3>1. /\ a + k \in 1..d + 1 + z + T /\ (k <= l + 1 <=> a + k <= d + 1)
            /\ a + k <= d + 1 + z
        BY <1>0, <1>1, <1>3, <2>1, SMT
      <3>2. k <= l + 1 => b[k] = c[a + k]
        BY <1>1, <1>7, SMT
      <3> QED BY <2>3, <2>5, <3>1, <3>2
    <2>7. ASSUME NEW k \in 1..B PROVE second[k] = w[At(m + 1, B) + k]
      <3>1. /\ a + B + k \in 1..d + 1 + z + T /\ ~(a + B + k <= d + 1)
            /\ (k <= B - T <=> a + B + k <= d + 1 + z)
        BY <1>0, <1>1, <1>3, <2>1, SMT
      <3> QED BY <1>3, <2>3, <2>4, <3>1
    <2>8. ASSUME NEW k \in 1..a + l PROVE data[k] = w[k]
      <3>1. k \in 1..d /\ k \in 1..d + 1 + z + T /\ k <= d + 1
        BY <1>0, <1>1, <1>3, <2>1, SMT
      <3> QED BY <1>5, <2>3, <3>1
    <2>9. Cut(st, 0, m, w, B)
      BY <1>1, <1>2, <2>8, SameStream DEF a, l
    <2> DEFINE s1 == Emit(st, first)
               s2 == Emit(s1, second)
               j == m + 1
    <2>10. s1 \in Buffer(S) /\ Cut(s1, 0, j, w, B) /\ j \in Nat
      BY <1>1, <2>5, <2>6, <2>9, BlockCuts DEF a
    <2>17. \A k \in 1..B : second[k] = w[At(j, B) + k]
      BY <2>7
    <2> HIDE DEF s1, j
    <2>18. s2 \in Buffer(S) /\ Cut(s2, 0, j + 1, w, B) /\ j + 1 \in Nat
      BY <1>1, <2>4, <2>10, <2>17, BlockCuts, SMTT(30)
    <2>11. s2 \in Buffer(S) /\ Cut(s2, 0, m + 1 + 1, w, B) /\ m + 1 + 1 \in Nat
      BY <2>18 DEF j
    <2> HIDE DEF s2
    <2>13. Len(w) = At(m + 1 + 1, B)
      BY <1>3, <2>1, <2>3
    <2>14. s2.out = Blocks(w, B)
      BY <1>1, <2>3, <2>11, <2>13, CutIsBlocks
    <2>15. ShaReference(data) = Blocks(w, B)
      BY <1>1, <1>3, <2>1, <2>11, <2>13, ReferenceForm DEF w, c, d, B, T, a
    <2>16. s2.out = Append(Append(st.out, first), second)
      BY DEF s2, s1, Emit
    <2> QED BY <2>12, <2>14, <2>15, <2>16 DEF d
  <1>10. (l + 1 <= B - T) \/ ~(l + 1 <= B - T)
    OBVIOUS
  <1> QED BY <1>8, <1>9, <1>10

(* A stream that is the same up to there.                                  *)
LEMMA SameStreamAfter ==
    ASSUME NEW S, NEW unit \in Nat \ {0}, NEW st \in Buffer(S), NEW p \in Nat, NEW n, NEW w, NEW x,
           CutAfter(st, p, w, n, unit), \A k \in 1..n : w[k] = x[k]
    PROVE  CutAfter(st, p, x, n, unit)
  <1>1. PICK m \in Nat : n = At(m, unit) + Len(st.buf) /\ Cut(st, p, m, w, unit)
    BY DEF CutAfter
  <1>2. \A k \in 1..At(m, unit) + Len(st.buf) : w[k] = x[k]
    BY <1>1
  <1>3. Cut(st, p, m, x, unit)
    BY <1>1, <1>2, SameStream
  <1> QED BY <1>1, <1>3 DEF CutAfter

(* Blocks in a row, as FlattenSeq joins them.                              *)
IsFlat(run, x, n) ==
    run = [i \in 1..n |-> IF i = 1 THEN x[i] ELSE run[i - 1] \o x[i]]

(* The function that FlattenSeq defines by recursion exists.               *)
LEMMA FlatExists ==
    ASSUME NEW x
    PROVE  \A n \in Nat : \E run : IsFlat(run, x, n)
  <1> DEFINE S == {n \in Nat : \E run : IsFlat(run, x, n)}
  <1>1. 0 \in S
    <2> DEFINE run == [i \in 1..0 |-> x]
    <2>1. run = [i \in 1..0 |-> IF i = 1 THEN x[i] ELSE run[i - 1] \o x[i]]
      OBVIOUS
    <2> HIDE DEF run
    <2> QED BY <2>1 DEF IsFlat
  <1>2. ASSUME NEW n \in Nat, n \in S PROVE n + 1 \in S
    <2>1. PICK run : IsFlat(run, x, n)
      BY <1>2
    <2> DEFINE latest == IF n + 1 = 1 THEN x[1] ELSE run[n] \o x[n + 1]
               longer == [i \in 1..n + 1 |-> IF i = n + 1 THEN latest ELSE run[i]]
    <2>2. \A i \in 1..n : longer[i] = run[i]
      OBVIOUS
    <2>3. longer[n + 1] = latest
      OBVIOUS
    <2>4. \A i \in 1..n : run[i] = IF i = 1 THEN x[i] ELSE run[i - 1] \o x[i]
      BY <2>1, Zenon DEF IsFlat
    <2>5. longer \in [1..n + 1 -> {longer[i] : i \in 1..n + 1}]
      OBVIOUS
    <2> HIDE DEF longer
    <2>6. ASSUME NEW i \in 1..n + 1
          PROVE  longer[i] = IF i = 1 THEN x[i] ELSE longer[i - 1] \o x[i]
      <3>1. CASE i = n + 1 /\ i # 1
        <4>1. i - 1 = n /\ n \in 1..n /\ n + 1 # 1
          BY <3>1, SMT
        <4>2. longer[i] = run[n] \o x[n + 1] /\ longer[i - 1] = run[n]
          BY <2>2, <2>3, <3>1, <4>1
        <4> QED BY <3>1, <4>1, <4>2
      <3>2. CASE i = n + 1 /\ i = 1
        BY <2>3, <3>2
      <3>3. CASE i \in 1..n /\ i # 1
        <4>1. i - 1 \in 1..n
          BY <3>3, SMT
        <4> QED BY <2>2, <2>4, <3>3, <4>1
      <3>4. CASE i \in 1..n /\ i = 1
        BY <2>2, <2>4, <3>4
      <3> QED BY <3>1, <3>2, <3>3, <3>4
    <2>7. IsFlat(longer, x, n + 1)
      BY <2>5, <2>6, Zenon DEF IsFlat
    <2> QED BY <2>7
  <1> HIDE DEF S
  <1>3. \A n \in Nat : n \in S
    BY <1>1, <1>2, SetInduction
  <1> QED BY <1>3 DEF S

(* FlattenSeq is the last value of that function.                          *)
LEMMA FlattenRuns ==
    ASSUME NEW x, Len(x) \in Nat \ {0}
    PROVE  \E run : IsFlat(run, x, Len(x)) /\ FlattenSeq(x) = run[Len(x)]
  <1> DEFINE run == CHOOSE run : IsFlat(run, x, Len(x))
  <1>1. IsFlat(run, x, Len(x))
    BY FlatExists
  <1>2. FlattenSeq(x) = run[Len(x)]
    BY Zenon DEF FlattenSeq, IsFlat
  <1> QED BY <1>1, <1>2

(* The blocks that have left the buffer, joined, are the stream again.     *)
LEMMA FlattenCut ==
    ASSUME NEW S, NEW unit \in Nat \ {0}, NEW st \in Buffer(S), NEW m \in Nat \ {0}, NEW w,
           Cut(st, 0, m, w, unit)
    PROVE  /\ FlattenSeq(st.out) \in Seq(S)
           /\ Len(FlattenSeq(st.out)) = At(m, unit)
           /\ \A k \in 1..At(m, unit) : FlattenSeq(st.out)[k] = w[k]
  <1> DEFINE x == st.out
             J(s, i) == /\ s \in Seq(S) /\ Len(s) = At(i, unit)
                        /\ \A k \in 1..At(i, unit) : s[k] = w[k]
  <1>1. x \in Seq(Seq(S)) /\ Len(x) = m
    <2>1. Len(x) = 0 + m
      BY DEF Cut
    <2> QED BY <2>1, BufferTyped
  <1>2. \A b \in 1..m : /\ Len(x[b]) = unit
                        /\ \A k \in 1..unit : x[b][k] = w[Before(b, unit) + k]
    <2>1. \A b \in 1..m : 0 + b = b
      OBVIOUS
    <2> QED BY <2>1 DEF Cut
  <1> HIDE DEF x
  <1>3. PICK run : IsFlat(run, x, m) /\ FlattenSeq(x) = run[m]
    BY <1>1, FlattenRuns
  <1>4. \A i \in 1..m : run[i] = IF i = 1 THEN x[i] ELSE run[i - 1] \o x[i]
    BY <1>3, Zenon DEF IsFlat
  <1> DEFINE T == {i \in Nat : i + 1 <= m => J(run[i + 1], i + 1)}
  <1>5. 0 \in T
    <2>1. 1 \in 1..m /\ 0 + 1 = 1
      OBVIOUS
    <2>2. run[1] = x[1] /\ x[1] \in Seq(S)
      BY <1>1, <1>4, <2>1, ElementOfSeq
    <2>3. Before(1, unit) = 0 /\ At(1, unit) = unit
      BY SMT DEF Before, At
    <2>4. \A k \in 1..unit : 0 + k = k
      OBVIOUS
    <2>5. J(run[1], 1)
      BY <1>2, <2>1, <2>2, <2>3, <2>4
    <2> HIDE DEF J
    <2> QED BY <2>1, <2>5
  <1>6. ASSUME NEW i \in Nat, i \in T PROVE i + 1 \in T
    <2> SUFFICES ASSUME i + 1 + 1 <= m PROVE J(run[i + 1 + 1], i + 1 + 1)
      OBVIOUS
    <2> DEFINE j == i + 1
               r == run[j]
               y == x[j + 1]
               a == At(j, unit)
    <2>1. J(r, j)
      BY <1>6, SMT
    <2>2. j \in 1..m /\ j + 1 \in 1..m /\ j + 1 # 1 /\ (j + 1) - 1 = j /\ j \in Nat
      BY SMT
    <2> HIDE DEF j
    <2>3. run[j + 1] = r \o y
      BY <1>4, <2>2
    <2>4. y \in Seq(S) /\ Len(y) = unit /\ \A k \in 1..unit : y[k] = w[a + k]
      <3>1. Before(j + 1, unit) = a
        BY <2>2, NextAt
      <3> QED BY <1>1, <1>2, <2>2, <3>1, ElementOfSeq
    <2>5. a \in Nat /\ At(j + 1, unit) = a + unit
      BY <2>2, NextAt
    <2>6. r \in Seq(S) /\ Len(r) = a /\ \A k \in 1..a : r[k] = w[k]
      BY <2>1
    <2> HIDE DEF r, y, a
    <2> DEFINE s == r \o y
    <2>7. s \in Seq(S) /\ Len(s) = a + unit
          /\ \A k \in 1..a + unit : s[k] = IF k <= a THEN r[k] ELSE y[k - a]
      <3>1. /\ r \o y \in Seq(S) /\ Len(r \o y) = Len(r) + Len(y)
            /\ \A k \in 1..Len(r) + Len(y) : (r \o y)[k] = IF k <= Len(r) THEN r[k] ELSE y[k - Len(r)]
        BY <2>4, <2>6, ConcatProperties
      <3> QED BY <2>4, <2>6, <3>1
    <2> HIDE DEF s
    <2>8. ASSUME NEW k \in 1..a + unit PROVE s[k] = w[k]
      <3>1. CASE k <= a
        <4>1. k \in 1..a
          BY <2>5, <3>1, SMT
        <4> QED BY <2>6, <2>7, <3>1, <4>1
      <3>2. CASE ~(k <= a)
        <4>1. k - a \in 1..unit /\ a + (k - a) = k
          BY <2>5, <3>2, SMT
        <4>2. y[k - a] = w[a + (k - a)]
          BY <2>4, <4>1
        <4> QED BY <2>7, <3>2, <4>1, <4>2
      <3> QED BY <3>1, <3>2
    <2>9. J(s, j + 1)
      BY <2>5, <2>7, <2>8
    <2> HIDE DEF J
    <2>10. run[j + 1] = s
      BY <2>3 DEF s
    <2> QED BY <2>9, <2>10 DEF j
  <1> HIDE DEF T, J
  <1>7. \A i \in Nat : i \in T
    BY <1>5, <1>6, SetInduction
  <1>8. J(run[m], m)
    <2>1. m - 1 \in Nat /\ (m - 1) + 1 = m /\ m <= m
      OBVIOUS
    <2> QED BY <1>7, <2>1 DEF T
  <1> QED BY <1>3, <1>8 DEF J, x

-----------------------------------------------------------------------------
(* The bytes of transfer t, whatever the transfer under way.               *)
CipherOf(t, i) == <<"c", t, i>>
PlainOf(t, k)  == <<"p", t, HeaderSize + SignatureSize + k,
                    2 + (k - 1) \div GcmBlock, (k - 1) % GcmBlock>>

CipherStream(t) == [k \in Nat |-> CipherOf(t, HeaderSize + SignatureSize + k)]
PlainStream(t)  == [k \in Nat |-> PlainOf(t, k)]

(* All of the tokens.                                                      *)
StreamByte == {Zero, Mark} \cup {LengthOf(n) : n \in Nat}
          \cup {CipherOf(t, i) : t \in Nat, i \in Nat} \cup {PlainOf(t, k) : t \in Nat, k \in Nat}

(* The tokens of the model are bytes.                                      *)
LEMMA ByteTyped ==
    /\ Zero \in StreamByte /\ Mark \in StreamByte
    /\ \A n \in Nat : LengthOf(n) \in StreamByte
    /\ \A t \in Nat, i \in Nat : CipherOf(t, i) \in StreamByte /\ PlainOf(t, i) \in StreamByte
  BY DEF StreamByte

(* Block and offset of a place in the stream.                              *)
LEMMA DivAt ==
    ASSUME NEW unit \in Nat \ {0}, NEW m \in Nat, NEW l \in 0..unit - 1, NEW n,
           n = At(m, unit) + l
    PROVE  n \div unit = m /\ n % unit = l
  <1>1. n = m * unit + l
    BY DEF At
  <1> QED BY <1>1, DivUnique

(* n bytes have been decrypted, and the key stream stands behind them.     *)
Keyed(counter_, used_, n) ==
    /\ used_ \in 0..GcmBlock
    /\ \E j \in Nat : counter_ = j + 2 /\ n + GcmBlock = At(j, GcmBlock) + used_

(* One byte: block and offset of the key stream are those of CTR mode.     *)
LEMMA ByteDecrypts ==
    ASSUME NEW s, NEW n \in Nat, Keyed(s.counter, s.used, n), transfer \in Nat,
           NEW c, c[3] = HeaderSize + SignatureSize + (n + 1)
    PROVE  /\ Keyed(DecryptByte(s, c).counter, DecryptByte(s, c).used, n + 1)
           /\ DecryptByte(s, c).plain = Append(s.plain, PlainOf(transfer, n + 1))
  <1> DEFINE G == GcmBlock
             r == DecryptByte(s, c)
             fresh == s.used = G
             e == IF fresh THEN s.counter + 1 ELSE s.counter
             o == IF fresh THEN 0 ELSE s.used
  <1>1. r = [counter |-> e, used |-> o + 1, plain |-> Append(s.plain, Plain(c[3], e - 1, o))]
    BY Zenon DEF DecryptByte
  <1>2. r.counter = e /\ r.used = o + 1 /\ r.plain = Append(s.plain, Plain(c[3], e - 1, o))
    BY <1>1
  <1>3. PICK j \in Nat : s.counter = j + 2 /\ n + G = At(j, G) + s.used
    BY DEF Keyed
  <1>4. G \in Nat \ {0} /\ s.used \in 0..G
    BY PathAssumption DEF Keyed
  <1> HIDE DEF r, G
  <1>5. PICK i \in Nat : e = i + 2 /\ n + G = At(i, G) + o /\ o \in 0..G - 1 /\ i # 0
    <2>1. CASE fresh
      <3>1. n + G = At(j, G) + G /\ At(j, G) \in Nat /\ At(j + 1, G) = At(j, G) + G
        BY <1>3, <1>4, <2>1, NextAt
      <3>2. j + 1 \in Nat /\ e = (j + 1) + 2 /\ o = 0 /\ o \in 0..G - 1 /\ j + 1 # 0
        BY <1>3, <1>4, <2>1
      <3>3. n + G = At(j + 1, G) + o
        <4> DEFINE a == At(j + 1, G)
        <4>1. n + G = a /\ a \in Nat
          BY <3>1, <1>4
        <4> HIDE DEF a
        <4> QED BY <3>2, <4>1 DEF a
      <3> QED BY <3>2, <3>3
    <2>2. CASE ~fresh
      <3>1. e = j + 2 /\ o = s.used /\ o \in 0..G - 1
        BY <1>3, <1>4, <2>2
      <3>2. j # 0
        <4>1. j = 0 => At(j, G) = 0
          BY <1>4, NextAt
        <4> HIDE DEF o
        <4> QED BY <1>3, <1>4, <3>1, <4>1
      <3> QED BY <1>3, <3>1, <3>2
    <2> QED BY <2>1, <2>2
  <1> HIDE DEF e, o
  <1>6. PICK h \in Nat : i = h + 1
    <2>1. i - 1 \in Nat /\ i = (i - 1) + 1
      BY <1>5
    <2> QED BY <2>1
  <1>7. At(h, G) \in Nat /\ n = At(h, G) + o
    <2>1. At(h, G) \in Nat /\ At(h + 1, G) = At(h, G) + G
      BY <1>4, NextAt
    <2>2. n + G = At(h, G) + G + o
      BY <1>5, <1>6, <2>1
    <2> QED BY <1>4, <1>5, <2>1, <2>2
  <1>8. n \div G = h /\ n % G = o
    <2>1. G \in Nat \ {0} /\ o \in 0..G - 1
      BY <1>4, <1>5
    <2> QED BY <1>7, <2>1, DivAt
  <1>9. e - 1 = 2 + h
    BY <1>5, <1>6
  <1>10. Plain(c[3], e - 1, o) = PlainOf(transfer, n + 1)
    <2>1. (n + 1) - 1 = n
      OBVIOUS
    <2> QED BY <1>8, <1>9, <2>1 DEF Plain, PlainOf, G
  <1>11. Keyed(r.counter, r.used, n + 1)
    <2>1. o + 1 \in 0..G
      BY <1>4, <1>5
    <2>2. (n + 1) + G = At(i, G) + (o + 1)
      <3>1. At(i, G) \in Nat
        BY <1>4, NextAt
      <3> QED BY <1>4, <1>5, <3>1
    <2>3. r.counter = i + 2 /\ r.used = o + 1
      BY <1>2, <1>5
    <2> QED BY <2>1, <2>2, <2>3 DEF Keyed, G
  <1> QED BY <1>2, <1>10, <1>11 DEF r

(* The state of the loop of DecryptFrom after i bytes.                     *)
IsDecryption(run, s, data, n) ==
    run = [i \in 0..n |-> IF i = 0 THEN s ELSE DecryptByte(run[i - 1], data[i])]

(* The function that DecryptFrom defines by recursion exists.              *)
LEMMA DecryptionExists ==
    ASSUME NEW s, NEW data
    PROVE  \A n \in Nat : \E run : IsDecryption(run, s, data, n)
  <1> DEFINE S == {n \in Nat : \E run : IsDecryption(run, s, data, n)}
  <1>1. 0 \in S
    <2> DEFINE run == [i \in 0..0 |-> s]
    <2>1. run = [i \in 0..0 |-> IF i = 0 THEN s ELSE DecryptByte(run[i - 1], data[i])]
      OBVIOUS
    <2> HIDE DEF run
    <2> QED BY <2>1 DEF IsDecryption
  <1>2. ASSUME NEW n \in Nat, n \in S PROVE n + 1 \in S
    <2>1. PICK run : IsDecryption(run, s, data, n)
      BY <1>2
    <2> DEFINE latest == DecryptByte(run[n], data[n + 1])
               longer == [i \in 0..n + 1 |-> IF i = n + 1 THEN latest ELSE run[i]]
    <2>2. \A i \in 0..n : longer[i] = run[i]
      OBVIOUS
    <2>3. longer[n + 1] = latest
      OBVIOUS
    <2>4. \A i \in 0..n : run[i] = IF i = 0 THEN s ELSE DecryptByte(run[i - 1], data[i])
      BY <2>1, Zenon DEF IsDecryption
    <2>5. longer \in [0..n + 1 -> {longer[i] : i \in 0..n + 1}]
      OBVIOUS
    <2> HIDE DEF longer
    <2>6. ASSUME NEW i \in 0..n + 1
          PROVE  longer[i] = IF i = 0 THEN s ELSE DecryptByte(longer[i - 1], data[i])
      <3>1. CASE i = n + 1
        <4>1. i # 0 /\ i - 1 = n /\ n \in 0..n
          BY <3>1, SMT
        <4>2. longer[i] = latest /\ longer[i - 1] = run[n]
          BY <2>2, <2>3, <3>1, <4>1
        <4> QED BY <3>1, <4>1, <4>2
      <3>2. CASE i \in 0..n /\ i # 0
        <4>1. i - 1 \in 0..n
          BY <3>2, SMT
        <4> QED BY <2>2, <2>4, <3>2, <4>1
      <3>3. CASE i = 0
        BY <2>2, <2>4, <3>3
      <3> QED BY <3>1, <3>2, <3>3
    <2>7. IsDecryption(longer, s, data, n + 1)
      BY <2>5, <2>6, Zenon DEF IsDecryption
    <2> QED BY <2>7
  <1> HIDE DEF S
  <1>3. \A n \in Nat : n \in S
    BY <1>1, <1>2, SetInduction
  <1> QED BY <1>3 DEF S

(* DecryptFrom is the last value of that function.                         *)
LEMMA DecryptRuns ==
    ASSUME NEW s, NEW data, Len(data) \in Nat
    PROVE  \E run : IsDecryption(run, s, data, Len(data)) /\ DecryptFrom(s, data) = run[Len(data)]
  <1> DEFINE run == CHOOSE run : IsDecryption(run, s, data, Len(data))
  <1>1. IsDecryption(run, s, data, Len(data))
    BY DecryptionExists
  <1>2. DecryptFrom(s, data) = run[Len(data)]
    BY Zenon DEF DecryptFrom, IsDecryption
  <1> QED BY <1>1, <1>2

(* However the ciphertext is cut, its bytes meet their own bytes of the    *)
(* key stream.                                                             *)
LEMMA DecryptFollowsStream ==
    ASSUME transfer \in Nat, NEW n \in Nat, Keyed(counter, used, n),
           NEW data \in Seq(StreamByte),
           \A k \in 1..Len(data) : data[k][3] = HeaderSize + SignatureSize + (n + k)
    PROVE  /\ Keyed(Decrypt(data).counter, Decrypt(data).used, n + Len(data))
           /\ Decrypt(data).plain \in Seq(StreamByte) /\ Len(Decrypt(data).plain) = Len(data)
           /\ \A k \in 1..Len(data) : Decrypt(data).plain[k] = PlainOf(transfer, n + k)
  <1> DEFINE s == [counter |-> counter, used |-> used, plain |-> <<>>]
             d == Len(data)
             G(r, i) == /\ Keyed(r.counter, r.used, n + i)
                        /\ r.plain \in Seq(StreamByte) /\ Len(r.plain) = i
                        /\ \A k \in 1..i : r.plain[k] = PlainOf(transfer, n + k)
  <1>1. d \in Nat
    BY LenProperties
  <1>2. PICK run : IsDecryption(run, s, data, d) /\ DecryptFrom(s, data) = run[d]
    BY <1>1, DecryptRuns, Zenon
  <1>3. \A i \in 0..d : run[i] = IF i = 0 THEN s ELSE DecryptByte(run[i - 1], data[i])
    BY <1>2, Zenon DEF IsDecryption
  <1> DEFINE T == {i \in Nat : i <= d => G(run[i], i)}
  <1> HIDE DEF d
  <1>4. 0 \in T
    <2>1. run[0] = s
      BY <1>1, <1>3
    <2>2. s.counter = counter /\ s.used = used /\ s.plain = <<>> /\ n + 0 = n
      OBVIOUS
    <2>3. <<>> \in Seq(StreamByte) /\ Len(<<>>) = 0
      BY EmptySeq
    <2> HIDE DEF s
    <2>4. G(s, 0)
      BY <2>2, <2>3
    <2> HIDE DEF G
    <2> QED BY <2>1, <2>4
  <1>5. ASSUME NEW i \in Nat, i \in T PROVE i + 1 \in T
    <2> SUFFICES ASSUME i + 1 <= d PROVE G(run[i + 1], i + 1)
      OBVIOUS
    <2> DEFINE r == run[i]
               c == data[i + 1]
               v == n + i
    <2>1. i <= d /\ i + 1 \in 0..d /\ i + 1 \in 1..d /\ i + 1 # 0 /\ (i + 1) - 1 = i
      BY <1>1, SMT
    <2>2. G(r, i)
      BY <1>5, <2>1
    <2>3. run[i + 1] = DecryptByte(r, c)
      BY <1>3, <2>1
    <2>4. c[3] = HeaderSize + SignatureSize + (v + 1)
      <3>1. c[3] = HeaderSize + SignatureSize + (n + (i + 1))
        BY <2>1 DEF d
      <3>2. n + (i + 1) = v + 1
        OBVIOUS
      <3> QED BY <3>1, <3>2
    <2>5. v \in Nat /\ Keyed(r.counter, r.used, v)
      BY <2>2
    <2> HIDE DEF v, r, c
    <2> DEFINE q == DecryptByte(r, c)
    <2>6. Keyed(q.counter, q.used, v + 1) /\ q.plain = Append(r.plain, PlainOf(transfer, v + 1))
      BY <2>4, <2>5, ByteDecrypts
    <2>7. PlainOf(transfer, v + 1) \in StreamByte
      <3>1. v + 1 \in Nat
        BY <2>5
      <3> QED BY <3>1, ByteTyped
    <2> DEFINE b == PlainOf(transfer, v + 1)
    <2>8. r.plain \in Seq(StreamByte) /\ Len(r.plain) = i
          /\ \A k \in 1..i : r.plain[k] = PlainOf(transfer, n + k)
      BY <2>2
    <2>9. v + 1 = n + (i + 1)
      BY DEF v
    <2> HIDE DEF q
    <2>10. /\ q.plain \in Seq(StreamByte) /\ Len(q.plain) = i + 1
           /\ \A k \in 1..i : q.plain[k] = r.plain[k]
           /\ q.plain[i + 1] = b
      <3> HIDE DEF b
      <3>1. b \in StreamByte /\ q.plain = Append(r.plain, b)
        BY <2>6, <2>7 DEF b
      <3> QED BY <2>8, <3>1, AppendProperties
    <2>11. ASSUME NEW k \in 1..i + 1 PROVE q.plain[k] = PlainOf(transfer, n + k)
      <3>1. CASE k = i + 1
        <4>1. n + k = v + 1
          BY <2>9, <3>1
        <4>2. q.plain[k] = b
          BY <2>10, <3>1
        <4> QED BY <4>1, <4>2
      <3>2. CASE k \in 1..i
        BY <2>8, <2>10, <3>2
      <3> QED BY <3>1, <3>2
    <2>12. G(q, i + 1)
      BY <2>6, <2>9, <2>10, <2>11
    <2> HIDE DEF G
    <2> QED BY <2>3, <2>12 DEF q
  <1> HIDE DEF T, G
  <1>6. \A i \in Nat : i \in T
    BY <1>4, <1>5, SetInduction
  <1>7. G(run[d], d)
    BY <1>1, <1>6, SMT DEF T
  <1>8. Decrypt(data) = run[d]
    BY <1>2 DEF Decrypt
  <1> QED BY <1>7, <1>8 DEF G, d

-----------------------------------------------------------------------------
(* An empty buffer has cut nothing yet.                                    *)
LEMMA EmptyCuts ==
    ASSUME NEW S, NEW unit \in Nat \ {0}, NEW w, NEW buf, NEW out, buf = <<>>, NEW p \in Nat,
           out \in Seq(Seq(S)), Len(out) = p
    PROVE  /\ [buf |-> buf, out |-> out] \in Buffer(S)
           /\ CutAfter([buf |-> buf, out |-> out], p, w, 0, unit)
  <1> DEFINE st == [buf |-> buf, out |-> out]
  <1>1. <<>> \in Seq(S) /\ Len(<<>>) = 0
    BY EmptySeq
  <1>2. st.buf \in Seq(S) /\ Len(st.buf) = 0 /\ st.out = out /\ st \in Buffer(S)
    BY <1>1 DEF Buffer
  <1> HIDE DEF st
  <1>3. Cut(st, p, 0, w, unit)
    <2>1. Len(st.out) = p + 0 /\ Len(st.buf) < unit
      BY <1>2
    <2>2. \A k \in 1..Len(st.buf) : st.buf[k] = w[At(0, unit) + k]
      BY <1>2
    <2>3. \A b \in 1..0 : /\ Len(st.out[p + b]) = unit
                          /\ \A k \in 1..unit : st.out[p + b][k] = w[Before(b, unit) + k]
      OBVIOUS
    <2> QED BY <2>1, <2>2, <2>3 DEF Cut
  <1>4. 0 = At(0, unit) + Len(st.buf)
    <2>1. At(0, unit) = 0
      BY NextAt
    <2> QED BY <1>2, <2>1
  <1>5. CutAfter(st, p, w, 0, unit)
    BY <1>3, <1>4 DEF CutAfter
  <1> QED BY <1>2, <1>5 DEF st

(* GHASH starts with the padded AAD.                                       *)
LEMMA GcmInitForm ==
    ASSUME NEW aad \in Seq(StreamByte)
    PROVE  /\ GcmInit(aad) \in Buffer(StreamByte) /\ GcmInit(aad).buf = <<>>
           /\ GcmInit(aad).out = Blocks(ZeroPadded(aad, GcmBlock), GcmBlock)
  <1> DEFINE G == GcmBlock
             st == Absorb(Empty, aad, G)
             r == PadBlock(st, G)
             z == ZeroPadded(aad, G)
             d == Len(aad)
  <1>1. G \in Nat \ {0} /\ d \in Nat
    BY PathAssumption, LenProperties
  <1>2. Empty \in Buffer(StreamByte) /\ CutAfter(Empty, 0, aad, 0, G)
    <2> DEFINE none == <<>>
    <2>1. none \in Seq(Seq(StreamByte)) /\ Len(none) = 0
      BY EmptySeq
    <2> QED BY <1>1, <2>1, EmptyCuts DEF Empty
  <1> HIDE DEF G, d
  <1>3. \A k \in 1..Len(aad) : aad[k] = aad[0 + k]
    OBVIOUS
  <1>4. st \in Buffer(StreamByte) /\ CutAfter(st, 0, aad, 0 + Len(aad), G)
    BY <1>1, <1>2, <1>3, AbsorbCuts
  <1>5. CutAfter(st, 0, aad, Len(aad), G)
    <2>1. 0 + d = d
      BY <1>1
    <2> QED BY <1>4, <2>1 DEF d
  <1> HIDE DEF st
  <1>6. /\ r \in Buffer(StreamByte) /\ r.buf = <<>>
        /\ \E m \in Nat : z \in Seq(StreamByte) /\ Len(z) = At(m, G) /\ Cut(r, 0, m, z, G)
    BY <1>1, <1>4, <1>5, ByteTyped, PadCuts
  <1> HIDE DEF r, z
  <1>7. r.out = Blocks(z, G)
    <2>1. PICK m \in Nat : z \in Seq(StreamByte) /\ Len(z) = At(m, G) /\ Cut(r, 0, m, z, G)
      BY <1>6
    <2> DEFINE none == 0
    <2>2. r \in Buffer(StreamByte) /\ G \in Nat \ {0} /\ none \in Nat /\ m \in Nat
      BY <1>1, <1>6
    <2>3. Cut(r, none, m, z, G)
      BY <2>1
    <2>4. z \in Seq(StreamByte) /\ Len(z) = At(m, G)
      BY <2>1
    <2>5. none = 0
      OBVIOUS
    <2> HIDE DEF none
    <2>6. none = 0 => r.out = Blocks(z, G)
      BY <2>2, <2>3, <2>4, CutIsBlocks
    <2> QED BY <2>5, <2>6
  <1> QED BY <1>6, <1>7 DEF GcmInit, r, z, st, G

(* And ends with the padded ciphertext and the lengths.                    *)
LEMMA GcmFinalForm ==
    ASSUME NEW st \in Buffer(StreamByte), NEW a \in Seq(Seq(StreamByte)), \A i \in 1..Len(a) : st.out[i] = a[i],
           NEW data \in Seq(StreamByte), CutAfter(st, Len(a), data, Len(data), GcmBlock),
           NEW n \in Nat, NEW k \in Nat
    PROVE  GcmFinal(st, n, k) =
             a \o Blocks(ZeroPadded(data, GcmBlock), GcmBlock) \o << <<LengthOf(n), LengthOf(k)>> >>
  <1> DEFINE G == GcmBlock
             r == PadBlock(st, G)
             z == ZeroPadded(data, G)
             B == Blocks(z, G)
             p == Len(a)
             latest == <<LengthOf(n), LengthOf(k)>>
  <1>1. G \in Nat \ {0} /\ p \in Nat
    BY PathAssumption, LenProperties
  <1>2. /\ r \in Buffer(StreamByte) /\ Extends(st, r)
        /\ \E m \in Nat : z \in Seq(StreamByte) /\ Len(z) = At(m, G) /\ Cut(r, p, m, z, G)
    <2> HIDE DEF G
    <2> QED BY <1>1, ByteTyped, PadCuts DEF G
  <1> HIDE DEF G, r, z
  <1>3. PICK m \in Nat : z \in Seq(StreamByte) /\ Len(z) = At(m, G) /\ Cut(r, p, m, z, G)
    BY <1>2
  <1>4. Len(B) = m /\ \A b \in 1..m : r.out[p + b] = B[b]
    BY <1>1, <1>2, <1>3, CutIsBlocks
  <1>5. B \in Seq(Seq(StreamByte))
    BY <1>1, <1>3, BlocksTyped
  <1>6. /\ r.out \in Seq(Seq(StreamByte)) /\ Len(r.out) = p + m /\ Len(st.out) \in Nat
        /\ p <= Len(st.out)
    <2>1. r.out \in Seq(Seq(StreamByte)) /\ Len(st.out) \in Nat
      BY <1>2, BufferTyped
    <2>2. Len(r.out) = p + m
      BY <1>3 DEF Cut
    <2>3. PICK j \in Nat : Cut(st, p, j, data, G)
      BY DEF CutAfter, G
    <2>4. Len(st.out) = p + j
      BY <2>3 DEF Cut
    <2> QED BY <1>1, <2>1, <2>2, <2>4
  <1>7. \A i \in 1..p : r.out[i] = a[i]
    <2>1. \A i \in 1..p : i \in 1..Len(st.out)
      BY <1>1, <1>6, SMT
    <2>2. \A i \in 1..Len(st.out) : r.out[i] = st.out[i]
      BY <1>2 DEF Extends
    <2> QED BY <2>1, <2>2
  <1> HIDE DEF B
  <1> DEFINE ab == a \o B
  <1>8. /\ ab \in Seq(Seq(StreamByte)) /\ Len(ab) = p + m
        /\ \A i \in 1..p + m : ab[i] = IF i <= p THEN a[i] ELSE B[i - p]
    <2>1. /\ a \o B \in Seq(Seq(StreamByte)) /\ Len(a \o B) = Len(a) + Len(B)
          /\ \A i \in 1..Len(a) + Len(B) : (a \o B)[i] = IF i <= Len(a) THEN a[i] ELSE B[i - Len(a)]
      BY <1>5, ConcatProperties
    <2> QED BY <1>4, <2>1
  <1> HIDE DEF ab, p
  <1>9. ASSUME NEW i \in 1..p + m PROVE r.out[i] = ab[i]
    <2>1. CASE i <= p
      <3>1. i \in 1..p
        BY <1>1, <2>1, SMT
      <3> QED BY <1>7, <1>8, <2>1, <3>1
    <2>2. CASE ~(i <= p)
      <3>1. i - p \in 1..m /\ p + (i - p) = i
        BY <1>1, <2>2, SMT
      <3>2. r.out[p + (i - p)] = B[i - p]
        BY <1>4, <3>1
      <3> QED BY <1>8, <2>2, <3>1, <3>2
    <2> QED BY <2>1, <2>2
  <1>10. r.out = ab
    <2>1. Len(r.out) = Len(ab) /\ \A i \in 1..Len(r.out) : r.out[i] = ab[i]
      BY <1>6, <1>8, <1>9
    <2> QED BY <1>6, <1>8, <2>1, SeqEqual
  <1>11. latest \in Seq(StreamByte)
    BY ByteTyped
  <1> HIDE DEF latest
  <1>12. Append(ab, latest) = ab \o <<latest>>
    BY <1>8, <1>11, AppendIsConcat
  <1>13. GcmFinal(st, n, k) = Append(r.out, latest)
    BY DEF GcmFinal, r, latest, G
  <1> QED BY <1>10, <1>12, <1>13 DEF ab, B, z, G, latest

-----------------------------------------------------------------------------
(* The bytes of the double words that n bytes take.                        *)
Room(n) == Units(n, Word) * Word

(* A write takes the least number of double words that hold its bytes.     *)
LEMMA RoomBound ==
    ASSUME NEW n \in Nat
    PROVE  /\ Room(n) \in Nat /\ n <= Room(n) /\ Room(n) < n + Word
           /\ n % Word = 0 => Room(n) = n
           /\ \A m \in Nat : n <= m /\ m % Word = 0 => Room(n) <= m
  <1>1. Units(n, Word) \in Nat
    BY UnitsBound, WidthAssumption
  <1>2. Room(n) \in Nat
    BY <1>1, Divides, WidthAssumption DEF Room
  <1> QED BY <1>2, UnitsBound, RoundingUp, WidthAssumption DEF Room

(* Slot B from one offset to another, and with some bytes over it.         *)
BlankBetween(m, off, limit) ==
    \A a \in Address : APP_B_START_ADDR + off <= a /\ a < APP_B_START_ADDR + limit => m[a] = Blank

WithBytes(m, off, bytes) ==
    [a \in Address |-> IF APP_B_START_ADDR + off <= a /\ a < APP_B_START_ADDR + off + Len(bytes)
                         THEN bytes[a - (APP_B_START_ADDR + off) + 1] ELSE m[a]]

(* A write into slot B that starts at a double word and finds the flash    *)
(* blank up to the limit.                                                  *)
LEMMA SlotWrite ==
    ASSUME NEW m, NEW off \in Nat, NEW limit \in Nat, NEW bytes \in Seq(StreamByte), NEW pad \in BOOLEAN,
           off % Word = 0, off + Room(Len(bytes)) <= limit, limit <= APP_B_SIZE,
           pad \/ Len(bytes) % Word = 0, BlankBetween(m, off, limit)
    PROVE  /\ Write(m, APP_B_START_ADDR + off, bytes, pad, Len(bytes)).ok
           /\ Write(m, APP_B_START_ADDR + off, bytes, pad, Len(bytes)).mem = WithBytes(m, off, bytes)
  <1> DEFINE S == APP_B_START_ADDR
             address == S + off
             n == Len(bytes)
             r == Room(n)
  <1>1. S \in Nat /\ n \in Nat /\ r \in Nat /\ S % Word = 0 /\ off + r <= limit
    BY LenProperties, RoomBound, LayoutAssumption, ManifestAssumption
  <1>3. \A a \in Address : a \in Nat
    BY LayoutAssumption, SMT DEF Address
  <1> HIDE DEF r, S, n
  <1>2. address \in Nat /\ address % Word = 0
    <2>1. Word \in Nat \ {0} /\ off \in Nat /\ off % Word = 0 /\ S \in Nat /\ S % Word = 0
      BY <1>1, WidthAssumption
    <2>2. (S + off) % Word = 0
      BY <2>1, MultiplesAdd
    <2> QED BY <2>1, <2>2
  <1>4. S <= address /\ address + r <= S + limit
    BY <1>1, SMT
  <1>5. address + r <= S + APP_B_SIZE
    BY <1>1, <1>4, LayoutAssumption, SMT
  <1>6. \A a \in Address : address <= a /\ a < address + r => m[a] = Blank
    <2> SUFFICES ASSUME NEW a \in Address, address <= a, a < address + r PROVE m[a] = Blank
      OBVIOUS
    <2>1. S + off <= a /\ a < S + limit
      BY <1>1, <1>2, <1>3, <1>4, SMT
    <2> QED BY <2>1 DEF S, BlankBetween
  <1> HIDE DEF address
  <1>7. address + Units(n, Word) * Word <= S + APP_B_SIZE
    BY <1>5 DEF r, Room
  <1>8. \A a \in Address : address <= a /\ a < address + Units(n, Word) * Word => m[a] = Blank
    BY <1>6 DEF r, Room
  <1>9. LET w == Write(m, address, bytes, pad, Len(bytes)) IN
           /\ w.ok
           /\ w.mem = [a \in Address |-> IF address <= a /\ a < address + Len(bytes)
                                           THEN bytes[a - address + 1] ELSE m[a]]
    BY <1>2, <1>4, <1>7, <1>8, WriteSucceeds DEF S, n
  <1> QED BY <1>9 DEF address, S, WithBytes

(* Whole units of whole double words.                                      *)
LEMMA BlocksAligned ==
    ASSUME NEW m \in Nat
    PROVE  At(m, BufferSize) % Word = 0
  <1>1. PICK q \in Nat : BufferSize = q * Word
    BY PathAssumption, WidthAssumption, Divides
  <1>2. m * q \in Nat /\ m * (q * Word) = (m * q) * Word
    BY WidthAssumption, SMT
  <1>3. ((m * q) * Word) % Word = 0
    BY <1>2, Divides, WidthAssumption
  <1> QED BY <1>1, <1>2, <1>3 DEF At

-----------------------------------------------------------------------------
(* The inductive invariant.                                                *)

Typed ==
    /\ phase \in {"idle", "receive", "manifest", "done"}
    /\ transfer \in Nat /\ size \in 0..APP_B_IMAGE_SIZE /\ left \in Nat /\ pos \in Nat
    /\ header \in Seq(StreamByte) /\ signature \in Seq(StreamByte) /\ payload \in Nat
    /\ ghash \in Buffer(StreamByte) /\ sha \in Buffer(StreamByte) /\ flashBuf \in Buffer(StreamByte)
    /\ counter \in Nat /\ used \in Nat /\ written \in Nat

(* Header, signature and payload fill up one after the other.              *)
Position ==
    /\ pos + left <= Total /\ pos = Len(header) + Len(signature) + payload
    /\ Len(header) <= HeaderSize /\ Len(signature) <= SignatureSize /\ payload <= size
    /\ Len(header) < HeaderSize => Len(signature) = 0
    /\ Len(signature) < SignatureSize => payload = 0
    /\ \A k \in 1..Len(header) : header[k] = CipherOf(transfer, k)
    /\ \A k \in 1..Len(signature) : signature[k] = CipherOf(transfer, HeaderSize + k)

Limits ==
    /\ Len(ghash.buf) < GcmBlock /\ Len(sha.buf) < ShaBlock /\ used <= GcmBlock
    /\ Len(flashBuf.buf) < BufferSize /\ flashBuf.out = <<>>
    /\ written <= payload

(* The signature is complete: decryption has begun, the slot is erased.    *)
Busy == phase # "idle" /\ Len(signature) = SignatureSize

AadBlocks == Blocks(ZeroPadded(Aad, GcmBlock), GcmBlock)

(* Key stream and hashes stand where the payload stands.                   *)
Streams ==
    Busy => /\ Keyed(counter, used, payload)
            /\ CutAfter(sha, 0, PlainStream(transfer), payload, ShaBlock)
            /\ \A i \in 1..Len(AadBlocks) : ghash.out[i] = AadBlocks[i]
            /\ CutAfter(ghash, Len(AadBlocks), CipherStream(transfer), payload, GcmBlock)

(* What is in the flash buffer while the transfer lasts, and after it.     *)
Buffered ==
    /\ phase = "receive" =>
         /\ written + Len(flashBuf.buf) = payload /\ written % Word = 0
         /\ \A k \in 1..Len(flashBuf.buf) : flashBuf.buf[k] = PlainOf(transfer, written + k)
    /\ phase \in {"manifest", "done"} =>
         written = size /\ payload = size /\ Len(signature) = SignatureSize

ImageIn(m, t, n) ==
    \A a \in Address : APP_B_START_ADDR <= a /\ a < APP_B_START_ADDR + APP_B_IMAGE_SIZE =>
        m[a] = IF a < APP_B_START_ADDR + n THEN PlainOf(t, a - APP_B_START_ADDR + 1) ELSE Blank

BlankFrom(m, address) ==
    \A a \in Address : address <= a /\ a < APP_B_START_ADDR + APP_B_SIZE => m[a] = Blank

(* n bytes of the transfer, from its byte first + 1 on, lie at address.    *)
StoredAt(m, t, address, first, n) ==
    \A k \in 1..n : m[address + k - 1] = CipherOf(t, first + k)

Flash ==
    /\ Busy => ImageIn(mem, transfer, written)
    /\ Busy /\ phase # "done" => BlankFrom(mem, APP_B_MANIFEST_ADDR)
    /\ phase = "done" =>
         /\ StoredAt(mem, transfer, APP_B_MANIFEST_ADDR, 0, HeaderSize)
         /\ StoredAt(mem, transfer, APP_B_MANIFEST_ADDR + SignatureOffset, HeaderSize, SignatureSize)

PathInv == Typed /\ Position /\ Limits /\ Streams /\ Buffered /\ Flash

(* The constants.                                                          *)
LEMMA Sizes ==
    /\ HeaderSize \in Nat \ {0} /\ SignatureSize \in Nat \ {0} /\ BufferSize \in Nat \ {0}
    /\ GcmBlock \in Nat \ {0} /\ ShaBlock \in Nat \ {0} /\ MaxFrame \in Nat \ {0}
    /\ APP_B_IMAGE_SIZE \in Nat /\ Word \in Nat \ {0} /\ APP_B_START_ADDR \in Nat
    /\ PayloadSizes \subseteq 1..APP_B_IMAGE_SIZE /\ SignatureOffset \in Nat
    /\ APP_B_MANIFEST_ADDR = APP_B_START_ADDR + APP_B_IMAGE_SIZE
    /\ APP_B_IMAGE_SIZE <= APP_B_SIZE /\ APP_B_SIZE \in Nat
  <1>1. /\ HeaderSize \in Nat \ {0} /\ SignatureSize \in Nat \ {0} /\ BufferSize \in Nat \ {0}
        /\ GcmBlock \in Nat \ {0} /\ ShaBlock \in Nat \ {0} /\ MaxFrame \in Nat \ {0}
        /\ APP_B_IMAGE_SIZE \in Nat /\ PayloadSizes \subseteq 1..APP_B_IMAGE_SIZE
    BY PathAssumption
  <1>2. /\ Word \in Nat \ {0} /\ APP_B_START_ADDR \in Nat /\ APP_B_SIZE \in Nat
        /\ SignatureOffset \in Nat
        /\ APP_B_MANIFEST_ADDR = APP_B_START_ADDR + APP_B_IMAGE_SIZE
    BY WidthAssumption, LayoutAssumption, ManifestAssumption
  <1>3. APP_B_IMAGE_SIZE + SignatureOffset + SignatureSize + Word <= APP_B_SIZE
    BY ManifestAssumption
  <1>4. APP_B_IMAGE_SIZE <= APP_B_SIZE
    BY <1>1, <1>2, <1>3, SMT
  <1> QED BY <1>1, <1>2, <1>4

(* A buffer that has been reset, by ota_sha256_init for instance.          *)
LEMMA EmptyBuffer ==
    Empty \in Buffer(StreamByte) /\ Empty.buf = <<>> /\ Empty.out = <<>> /\ Len(<<>>) = 0
  BY EmptySeq DEF Empty, Buffer

(* Before the first transfer nothing is in any buffer.                     *)
LEMMA InitInv == Init => PathInv
  <1> SUFFICES ASSUME Init PROVE PathInv
    OBVIOUS
  <1>1. Typed
    BY Sizes, EmptyBuffer, EmptySeq DEF Init, Typed
  <1>2. Len(header) = 0 /\ Len(signature) = 0 /\ payload = 0 /\ pos = 0 /\ left = 0 /\ size = 0
        /\ written = 0 /\ used = 0
    BY EmptyBuffer DEF Init
  <1>3. Position
    BY <1>2, Sizes DEF Position, Total
  <1>4. Limits
    BY <1>2, EmptyBuffer, Sizes DEF Limits, Init
  <1>5. ~Busy /\ phase = "idle"
    BY DEF Init, Busy
  <1> QED BY <1>1, <1>3, <1>4, <1>5 DEF PathInv, Streams, Buffered, Flash

(* A new transfer resets the position; the old hash states are stale, and  *)
(* not used until the signature is complete.                               *)
LEMMA BeginInv == PathInv /\ Begin => PathInv'
  <1> SUFFICES ASSUME PathInv, Begin PROVE PathInv'
    OBVIOUS
  <1>1. /\ phase' = "receive" /\ transfer' = transfer + 1 /\ size' \in PayloadSizes /\ left' = 0
        /\ pos' = 0 /\ header' = <<>> /\ signature' = <<>> /\ payload' = 0
        /\ flashBuf' = Empty /\ written' = 0
        /\ ghash' = ghash /\ sha' = sha /\ counter' = counter /\ used' = used /\ mem' = mem
    BY DEF Begin, crypto
  <1>2. Typed'
    <2>1. size' \in 0..APP_B_IMAGE_SIZE
      BY <1>1, Sizes
    <2> QED BY <1>1, <2>1, EmptyBuffer, EmptySeq DEF PathInv, Typed
  <1>3. Len(header') = 0 /\ Len(signature') = 0
    BY <1>1, EmptyBuffer
  <1>4. Position'
    <2>1. size' \in Nat
      BY <1>1, Sizes
    <2>2. Total' = HeaderSize + SignatureSize + size'
      BY DEF Total
    <2>3. pos' + left' <= Total' /\ payload' <= size'
      <3>1. pos' = 0 /\ left' = 0 /\ payload' = 0
        BY <1>1
      <3>2. HeaderSize \in Nat /\ SignatureSize \in Nat
        BY Sizes
      <3>3. ASSUME NEW t \in Nat PROVE 0 + 0 <= HeaderSize + SignatureSize + t /\ 0 <= t
        BY <3>2, SMT
      <3>4. 0 + 0 <= HeaderSize + SignatureSize + size' /\ 0 <= size'
        BY <2>1, <3>3
      <3> QED BY <2>2, <3>1, <3>4, Zenon
    <2>4. /\ pos' = Len(header') + Len(signature') + payload'
          /\ Len(header') <= HeaderSize /\ Len(signature') <= SignatureSize
      BY <1>1, <1>3, Sizes
    <2>5. 1..Len(header') = {} /\ 1..Len(signature') = {}
      BY <1>3
    <2> QED BY <1>1, <1>3, <2>3, <2>4, <2>5 DEF Position
  <1>5. Limits'
    BY <1>1, EmptyBuffer, Sizes DEF PathInv, Limits
  <1>6. ~Busy' /\ ~(phase \in {"manifest", "done"})'
    BY <1>1, <1>3, Sizes DEF Busy
  <1>7. Buffered'
    <2>1. 0 % Word = 0
      BY Sizes, SMT
    <2>2. Len(flashBuf'.buf) = 0
      BY <1>1, EmptyBuffer
    <2> QED BY <1>1, <2>1, <2>2 DEF Buffered
  <1>8. Streams' /\ Flash'
    BY <1>1, <1>6 DEF Streams, Flash
  <1> QED BY <1>2, <1>4, <1>5, <1>7, <1>8 DEF PathInv

(* The steps that leave everything but the position alone.                 *)
LEMMA Rest ==
    ASSUME PathInv, phase' = phase, transfer' = transfer, UNCHANGED <<crypto, flashBuf, written, mem>>,
           payload' = payload, size' = size, header' = header, signature' = signature
    PROVE  Limits' /\ Streams' /\ Buffered' /\ Flash'
  <1>1. Limits'
    BY DEF PathInv, Limits, crypto
  <1>2. Busy' = Busy /\ AadBlocks' = AadBlocks
    BY DEF Busy, AadBlocks, Aad
  <1>3. Streams'
    BY <1>2 DEF PathInv, Streams, crypto
  <1>4. Buffered' /\ Flash'
    BY <1>2 DEF PathInv, Buffered, Flash
  <1> QED BY <1>1, <1>3, <1>4

(* A frame announces no more bytes than the stream still has.              *)
LEMMA FrameInv == PathInv /\ Frame => PathInv'
  <1> SUFFICES ASSUME PathInv, Frame PROVE PathInv'
    OBVIOUS
  <1>1. /\ left' \in 1..Least(MaxFrame, Total - pos) /\ pos < Total
        /\ UNCHANGED <<phase, transfer, size, pos, header, signature, payload, crypto, flashBuf, written, mem>>
    BY DEF Frame, parts
  <1>2. left' \in Nat
    BY <1>1
  <1>3. Typed'
    BY <1>1, <1>2 DEF PathInv, Typed, crypto
  <1>4. Position'
    <2>1. pos \in Nat /\ Total \in Nat
      BY Sizes DEF PathInv, Typed, Total
    <2>2. pos + left' <= Total
      <3> DEFINE T == Total
      <3> HIDE DEF T
      <3>1. left' \in 1..Least(MaxFrame, T - pos) /\ pos \in Nat /\ T \in Nat /\ pos < T
        BY <1>1, <2>1 DEF T
      <3>2. pos + left' <= T
        <4> DEFINE x == left'
        <4>1. /\ MaxFrame \in Nat /\ T \in Nat /\ pos \in Nat /\ pos < T
              /\ x \in 1..(IF MaxFrame < T - pos THEN MaxFrame ELSE T - pos)
          BY <3>1, Sizes DEF Least
        <4> HIDE DEF x
        <4>2. pos + x <= T
          BY <4>1, SMT
        <4> QED BY <4>2 DEF x
      <3> QED BY <3>2 DEF T
    <2>3. Total' = Total
      BY <1>1 DEF Total
    <2> QED BY <1>1, <2>2, <2>3 DEF PathInv, Position
  <1> QED BY <1>1, <1>3, <1>4, Rest DEF PathInv

(* A transfer that is given up leaves nothing to rely on.                  *)
LEMMA AbortInv == PathInv /\ Abort => PathInv'
  <1> SUFFICES ASSUME PathInv, Abort PROVE PathInv'
    OBVIOUS
  <1>1. phase' = "idle" /\ UNCHANGED <<transfer, size, left, pos, header, signature, payload,
                                       ghash, sha, counter, used, flashBuf, written, mem>>
    BY DEF Abort, position, parts, crypto
  <1>2. Typed' /\ Position' /\ Limits'
    BY <1>1 DEF PathInv, Typed, Position, Limits, Total
  <1>3. ~Busy'
    BY <1>1 DEF Busy
  <1> QED BY <1>1, <1>2, <1>3 DEF PathInv, Streams, Buffered, Flash

(* A step of another part of the program changes nothing here.             *)
LEMMA StutterInv == PathInv /\ UNCHANGED vars => PathInv'
  <1> SUFFICES ASSUME PathInv, UNCHANGED vars PROVE PathInv'
    OBVIOUS
  <1>1. UNCHANGED <<phase, transfer, size, left, pos, header, signature, payload, crypto,
                    flashBuf, written, mem>>
    BY DEF vars, position, parts
  <1>2. Typed' /\ Position'
    BY <1>1 DEF PathInv, Typed, Position, Total, crypto
  <1> QED BY <1>1, <1>2, Rest DEF PathInv

(* What arrives is the stream at pos.                                      *)
LEMMA IncomingForm ==
    ASSUME transfer \in Nat, pos \in Nat, NEW n \in Nat
    PROVE  /\ Incoming(n) \in Seq(StreamByte) /\ Len(Incoming(n)) = n
           /\ \A k \in 1..n : Incoming(n)[k] = CipherOf(transfer, pos + k)
  <1> DEFINE f == Incoming(n)
  <1>1. \A k \in 1..n : f[k] = CipherOf(transfer, pos + k)
    BY DEF Incoming, Cipher, CipherOf
  <1>2. \A k \in 1..n : CipherOf(transfer, pos + k) \in StreamByte
    <2>1. \A k \in 1..n : pos + k \in Nat
      OBVIOUS
    <2> QED BY <2>1, ByteTyped
  <1>3. f = [k \in 1..n |-> f[k]]
    BY DEF Incoming
  <1> HIDE DEF f
  <1>4. f \in [1..n -> StreamByte]
    BY <1>1, <1>2, <1>3
  <1>5. f \in Seq(StreamByte) /\ Len(f) = n
    BY <1>4, FunctionIsSeq
  <1> QED BY <1>1, <1>5 DEF f

(* A field that holds the stream from first on, with the next piece.       *)
LEMMA Grows ==
    ASSUME NEW s \in Seq(StreamByte), NEW x \in Seq(StreamByte), NEW t, NEW first \in Nat, NEW at,
           at = first + Len(s),
           \A k \in 1..Len(s) : s[k] = CipherOf(t, first + k),
           \A k \in 1..Len(x) : x[k] = CipherOf(t, at + k)
    PROVE  /\ s \o x \in Seq(StreamByte) /\ Len(s \o x) = Len(s) + Len(x)
           /\ \A k \in 1..Len(s \o x) : (s \o x)[k] = CipherOf(t, first + k)
  <1> DEFINE l == Len(s)
             e == Len(x)
             y == s \o x
  <1>1. /\ y \in Seq(StreamByte) /\ Len(y) = l + e
        /\ \A k \in 1..l + e : y[k] = IF k <= l THEN s[k] ELSE x[k - l]
    BY ConcatProperties
  <1>2. l \in Nat /\ e \in Nat /\ at = first + l /\ at \in Nat
    BY LenProperties
  <1>3. \A k \in 1..e : x[k] = CipherOf(t, at + k)
    OBVIOUS
  <1>4. \A k \in 1..l : s[k] = CipherOf(t, first + k)
    OBVIOUS
  <1> HIDE DEF l, e, y
  <1>5. ASSUME NEW k \in 1..l + e PROVE y[k] = CipherOf(t, first + k)
    <2>1. CASE k <= l
      <3>1. k \in 1..l
        BY <1>2, <2>1, SMT
      <3> QED BY <1>1, <1>4, <2>1, <3>1
    <2>2. CASE ~(k <= l)
      <3>1. k - l \in 1..e /\ at + (k - l) = first + k
        BY <1>2, <2>2, SMT
      <3>2. x[k - l] = CipherOf(t, at + (k - l))
        BY <1>3, <3>1
      <3> QED BY <1>1, <2>2, <3>1, <3>2
    <2> QED BY <2>1, <2>2
  <1> QED BY <1>1, <1>5 DEF l, e, y

(* The header grows, and none of its bytes is put anywhere else.           *)
LEMMA TakeHeaderInv == PathInv /\ TakeHeader => PathInv'
  <1> SUFFICES ASSUME PathInv, TakeHeader PROVE PathInv'
    OBVIOUS
  <1> DEFINE h == Len(header)
             take == Least(HeaderSize - h, left)
             x == Incoming(take)
  <1>1. /\ left > 0 /\ h < HeaderSize /\ phase = "receive"
        /\ header' = header \o x /\ left' = left - take /\ pos' = pos + take
        /\ UNCHANGED <<transfer, size, phase, signature, payload, ghash, sha, counter, used,
                       flashBuf, written, mem>>
    BY DEF TakeHeader, Take, crypto
  <1>2. /\ header \in Seq(StreamByte) /\ transfer \in Nat /\ pos \in Nat /\ left \in Nat /\ h \in Nat
        /\ size \in Nat /\ payload \in Nat
    BY LenProperties, Sizes DEF PathInv, Typed
  <1>3. Len(signature) = 0 /\ payload = 0 /\ pos = h /\ pos + left <= Total
    <2>1. Len(signature) = 0
      BY <1>1 DEF PathInv, Position
    <2>2. payload = 0
      BY <2>1, Sizes DEF PathInv, Position
    <2>3. pos = h + Len(signature) + payload
      BY DEF PathInv, Position
    <2>4. pos + left <= Total
      BY DEF PathInv, Position
    <2> HIDE DEF h
    <2> QED BY <1>2, <2>1, <2>2, <2>3, <2>4, SMT
  <1>4. take \in Nat /\ take <= HeaderSize - h /\ take <= left
    <2> HIDE DEF h
    <2>1. HeaderSize \in Nat /\ h < HeaderSize
      BY <1>1, Sizes
    <2> QED BY <1>2, <2>1, SMT DEF Least
  <1> HIDE DEF take
  <1>5. x \in Seq(StreamByte) /\ Len(x) = take /\ \A k \in 1..take : x[k] = CipherOf(transfer, pos + k)
    BY <1>2, <1>4, IncomingForm
  <1> HIDE DEF x
  <1>6. /\ header' \in Seq(StreamByte) /\ Len(header') = h + take
        /\ \A k \in 1..Len(header') : header'[k] = CipherOf(transfer, k)
    <2>1. \A k \in 1..Len(header) : header[k] = CipherOf(transfer, 0 + k)
      <3>1. \A k \in 1..Len(header) : 0 + k = k
        OBVIOUS
      <3>2. \A k \in 1..Len(header) : header[k] = CipherOf(transfer, k)
        BY DEF PathInv, Position
      <3> QED BY <3>1, <3>2
    <2>2. pos = 0 + Len(header)
      BY <1>2, <1>3
    <2>3. 0 \in Nat /\ \A k \in 1..Len(x) : x[k] = CipherOf(transfer, pos + k)
      BY <1>5
    <2>4. /\ header \o x \in Seq(StreamByte) /\ Len(header \o x) = Len(header) + Len(x)
          /\ \A k \in 1..Len(header \o x) : (header \o x)[k] = CipherOf(transfer, 0 + k)
      BY <1>2, <1>5, <2>1, <2>2, <2>3, Grows
    <2>5. \A k \in 1..Len(header \o x) : 0 + k = k
      OBVIOUS
    <2> QED BY <1>1, <1>5, <2>4, <2>5
  <1> HIDE DEF h
  <1>7. left' \in Nat /\ pos' \in Nat /\ pos' + left' = pos + left
    BY <1>1, <1>2, <1>4
  <1>8. Typed'
    BY <1>1, <1>6, <1>7 DEF PathInv, Typed
  <1>9. Position'
    <2>1. Total' = Total
      BY <1>1 DEF Total
    <2>2. pos' + left' <= Total'
      BY <1>3, <1>7, <2>1
    <2>3. pos' = Len(header') + Len(signature') + payload' /\ Len(header') <= HeaderSize
      <3>1. h + take <= HeaderSize /\ pos + take = h + take + 0 + 0
        BY <1>2, <1>3, <1>4, Sizes
      <3>2. Len(signature') = 0 /\ payload' = 0
        BY <1>1, <1>3
      <3> QED BY <1>1, <1>6, <3>1, <3>2
    <2>4. Len(signature') = 0 /\ payload' = 0
      BY <1>1, <1>3
    <2>5. 0 <= SignatureSize
      BY Sizes
    <2>6. payload' <= size' /\ \A k \in 1..Len(signature') : signature'[k] = CipherOf(transfer', HeaderSize + k)
      BY <1>1 DEF PathInv, Position
    <2>7. \A k \in 1..Len(header') : header'[k] = CipherOf(transfer', k)
      BY <1>1, <1>6
    <2> QED BY <2>2, <2>3, <2>4, <2>5, <2>6, <2>7 DEF Position
  <1>10. Limits'
    BY <1>1 DEF PathInv, Limits
  <1>11. ~Busy' /\ phase' = "receive"
    BY <1>1, <1>3, Sizes DEF Busy
  <1>12. Buffered'
    BY <1>1 DEF PathInv, Buffered
  <1> QED BY <1>8, <1>9, <1>10, <1>11, <1>12 DEF PathInv, Streams, Flash

(* The masked header has the length of the header.                         *)
LEMMA AadTyped ==
    ASSUME header \in Seq(StreamByte), Len(header) = HeaderSize
    PROVE  Aad \in Seq(StreamByte) /\ Len(Aad) = HeaderSize
  <1> DEFINE f == Aad
  <1>1. HeaderSize \in Nat
    BY Sizes
  <1>2. \A i \in 1..HeaderSize : header[i] \in StreamByte
    BY ElementOfSeq
  <1>3. f \in [1..HeaderSize -> StreamByte]
    BY <1>2, ByteTyped DEF Aad
  <1> HIDE DEF f
  <1>4. f \in Seq(StreamByte) /\ Len(f) = HeaderSize
    BY <1>1, <1>3, FunctionIsSeq
  <1> QED BY <1>4 DEF f

(* The blocks of the AAD are blocks.                                       *)
LEMMA AadBlocksTyped ==
    ASSUME header \in Seq(StreamByte), Len(header) = HeaderSize
    PROVE  /\ GcmInit(Aad) \in Buffer(StreamByte) /\ GcmInit(Aad).buf = <<>>
           /\ GcmInit(Aad).out = AadBlocks
           /\ AadBlocks \in Seq(Seq(StreamByte)) /\ Len(AadBlocks) \in Nat
  <1> DEFINE g == GcmInit(Aad)
  <1>1. g \in Buffer(StreamByte) /\ g.buf = <<>> /\ g.out = AadBlocks
    BY AadTyped, GcmInitForm DEF AadBlocks
  <1> HIDE DEF g
  <1>2. g.out \in Seq(Seq(StreamByte)) /\ Len(g.out) \in Nat
    BY <1>1, BufferTyped
  <1> QED BY <1>1, <1>2 DEF g

(* The last byte of the signature erases the slot and starts GHASH with the*)
(* masked header; until then only the signature grows.                     *)
LEMMA TakeSignatureInv == PathInv /\ TakeSignature => PathInv'
  <1> SUFFICES ASSUME PathInv, TakeSignature PROVE PathInv'
    OBVIOUS
  <1> DEFINE g == Len(signature)
             take == Least(SignatureSize - g, left)
             x == Incoming(take)
  <1>1. /\ left > 0 /\ Len(header) = HeaderSize /\ g < SignatureSize /\ phase = "receive"
        /\ signature' = signature \o x /\ left' = left - take /\ pos' = pos + take
        /\ UNCHANGED <<transfer, size, phase, header, payload, flashBuf, written>>
    BY DEF TakeSignature, Take
  <1>2. /\ Len(signature') = SignatureSize =>
             /\ ghash' = GcmInit(Aad) /\ counter' = 2 /\ used' = GcmBlock
             /\ sha' = Empty /\ mem' = EraseAppB.mem
        /\ Len(signature') # SignatureSize => UNCHANGED <<ghash, sha, counter, used, mem>>
    BY DEF TakeSignature, crypto
  <1>3. /\ signature \in Seq(StreamByte) /\ header \in Seq(StreamByte) /\ transfer \in Nat /\ pos \in Nat
        /\ left \in Nat /\ g \in Nat /\ size \in Nat /\ payload \in Nat /\ HeaderSize \in Nat
    BY LenProperties, Sizes DEF PathInv, Typed
  <1>4. payload = 0 /\ pos = HeaderSize + g /\ pos + left <= Total /\ written = 0
    <2>1. payload = 0 /\ written <= payload /\ written \in Nat
      BY <1>1 DEF PathInv, Position, Limits, Typed
    <2>2. pos = HeaderSize + g + payload
      BY <1>1 DEF PathInv, Position
    <2>3. pos + left <= Total
      BY DEF PathInv, Position
    <2> HIDE DEF g
    <2> QED BY <1>3, <2>1, <2>2, <2>3, SMT
  <1>5. take \in Nat /\ take <= SignatureSize - g /\ take <= left
    <2> HIDE DEF g
    <2>1. SignatureSize \in Nat /\ g < SignatureSize
      BY <1>1, Sizes
    <2> QED BY <1>3, <2>1, SMT DEF Least
  <1> HIDE DEF take
  <1>6. x \in Seq(StreamByte) /\ Len(x) = take /\ \A k \in 1..take : x[k] = CipherOf(transfer, pos + k)
    BY <1>3, <1>5, IncomingForm
  <1> HIDE DEF x
  <1>7. /\ signature' \in Seq(StreamByte) /\ Len(signature') = g + take
        /\ \A k \in 1..Len(signature') : signature'[k] = CipherOf(transfer, HeaderSize + k)
    <2>1. \A k \in 1..Len(signature) : signature[k] = CipherOf(transfer, HeaderSize + k)
      BY DEF PathInv, Position
    <2>2. pos = HeaderSize + Len(signature)
      BY <1>4
    <2>3. \A k \in 1..Len(x) : x[k] = CipherOf(transfer, pos + k)
      BY <1>6
    <2>4. /\ signature \o x \in Seq(StreamByte) /\ Len(signature \o x) = Len(signature) + Len(x)
          /\ \A k \in 1..Len(signature \o x) : (signature \o x)[k] = CipherOf(transfer, HeaderSize + k)
      <3>1. signature \in Seq(StreamByte) /\ x \in Seq(StreamByte) /\ HeaderSize \in Nat
        BY <1>3, <1>6
      <3> QED BY <2>1, <2>2, <2>3, <3>1, Grows
    <2> QED BY <1>1, <1>6, <2>4
  <1> HIDE DEF g
  <1>8. left' \in Nat /\ pos' \in Nat /\ pos' + left' = pos + left
    BY <1>1, <1>3, <1>5
  <1>9. AadBlocks' = AadBlocks
    BY <1>1 DEF AadBlocks, Aad
  <1>10. Position'
    <2>1. Total' = Total
      BY <1>1 DEF Total
    <2>2. pos' + left' <= Total'
      BY <1>4, <1>8, <2>1
    <2>3. pos' = Len(header') + Len(signature') + payload' /\ Len(signature') <= SignatureSize
      <3>1. g + take <= SignatureSize /\ pos + take = HeaderSize + (g + take) + 0
        BY <1>3, <1>4, <1>5, Sizes
      <3>2. Len(header') = HeaderSize /\ payload' = 0
        BY <1>1, <1>4
      <3> QED BY <1>1, <1>7, <3>1, <3>2
    <2>4. Len(header') = HeaderSize /\ payload' = 0 /\ HeaderSize <= HeaderSize /\ ~(HeaderSize < HeaderSize)
      BY <1>1, <1>3, <1>4
    <2>5. payload' <= size' /\ \A k \in 1..Len(header') : header'[k] = CipherOf(transfer', k)
      BY <1>1 DEF PathInv, Position
    <2>6. \A k \in 1..Len(signature') : signature'[k] = CipherOf(transfer', HeaderSize + k)
      BY <1>1, <1>7
    <2> QED BY <2>2, <2>3, <2>4, <2>5, <2>6 DEF Position
  <1>11. Buffered'
    BY <1>1 DEF PathInv, Buffered
  <1>12. CASE Len(signature') # SignatureSize
    <2>1. Typed'
      BY <1>1, <1>2, <1>7, <1>8, <1>12 DEF PathInv, Typed
    <2>2. Limits'
      BY <1>1, <1>2, <1>12 DEF PathInv, Limits
    <2>3. ~Busy' /\ phase' = "receive"
      BY <1>1, <1>12 DEF Busy
    <2> QED BY <1>10, <1>11, <2>1, <2>2, <2>3 DEF PathInv, Streams, Flash
  <1>13. CASE Len(signature') = SignatureSize
    <2>1. /\ ghash' = GcmInit(Aad) /\ counter' = 2 /\ used' = GcmBlock /\ sha' = Empty
          /\ mem' = EraseAppB.mem
      BY <1>2, <1>13
    <2>2. /\ ghash' \in Buffer(StreamByte) /\ ghash'.buf = <<>> /\ ghash'.out = AadBlocks
          /\ AadBlocks \in Seq(Seq(StreamByte)) /\ Len(AadBlocks) \in Nat
      BY <1>1, <1>3, <2>1, AadBlocksTyped
    <2>3. sha' \in Buffer(StreamByte) /\ sha'.buf = <<>> /\ sha'.out = <<>> /\ Len(<<>>) = 0
      BY <2>1, EmptyBuffer
    <2>4. Typed'
      <3>1. counter' \in Nat /\ used' \in Nat
        BY <2>1, Sizes
      <3> QED BY <1>1, <1>7, <1>8, <2>2, <2>3, <3>1 DEF PathInv, Typed
    <2>5. Limits'
      <3>1. Len(ghash'.buf) < GcmBlock /\ Len(sha'.buf) < ShaBlock /\ used' <= GcmBlock
        BY <2>1, <2>2, <2>3, Sizes
      <3> QED BY <1>1, <3>1 DEF PathInv, Limits
    <2>6. Keyed(counter', used', payload')
      <3>1. 0 + GcmBlock = At(0, GcmBlock) + GcmBlock /\ GcmBlock \in 0..GcmBlock /\ 2 = 0 + 2
        BY Sizes, NextAt
      <3> QED BY <1>1, <1>4, <2>1, <3>1 DEF Keyed
    <2>7. CutAfter(sha', 0, PlainStream(transfer'), payload', ShaBlock)
      <3> DEFINE none == <<>>
      <3>1. none = <<>> /\ none \in Seq(Seq(StreamByte)) /\ Len(none) = 0
        BY EmptySeq
      <3>2. sha' = [buf |-> <<>>, out |-> none] /\ payload' = 0
        BY <1>1, <1>4, <2>1 DEF Empty
      <3> HIDE DEF none
      <3>3. \A w : CutAfter([buf |-> <<>>, out |-> none], 0, w, 0, ShaBlock)
        BY <3>1, Sizes, EmptyCuts
      <3> QED BY <3>2, <3>3
    <2>8. CutAfter(ghash', Len(AadBlocks'), CipherStream(transfer'), payload', GcmBlock)
      <3> DEFINE out == AadBlocks
                 p == Len(out)
      <3>1. ghash' = [buf |-> <<>>, out |-> out] /\ payload' = 0
        BY <1>1, <1>4, <2>2 DEF Buffer
      <3>2. out \in Seq(Seq(StreamByte)) /\ Len(out) = p /\ p \in Nat
        BY <2>2
      <3> HIDE DEF out, p
      <3>3. \A w : CutAfter([buf |-> <<>>, out |-> out], p, w, 0, GcmBlock)
        BY <3>2, Sizes, EmptyCuts
      <3> QED BY <1>9, <3>1, <3>3 DEF p, out
    <2>9. \A i \in 1..Len(AadBlocks') : ghash'.out[i] = AadBlocks'[i]
      BY <1>9, <2>2
    <2>10. Streams'
      BY <2>6, <2>7, <2>8, <2>9 DEF Streams
    <2>11. \A a \in From(APP_B_START_ADDR, APP_B_SIZE) : mem'[a] = Blank
      BY <2>1, EraseSucceeds DEF EraseAppB
    <2>12. \A a \in Address : a \in Nat
      BY LayoutAssumption, SMT DEF Address
    <2>13. ImageIn(mem', transfer', written')
      <3> SUFFICES ASSUME NEW a \in Address, APP_B_START_ADDR <= a,
                          a < APP_B_START_ADDR + APP_B_IMAGE_SIZE
                   PROVE  mem'[a] = IF a < APP_B_START_ADDR + written'
                                      THEN PlainOf(transfer', a - APP_B_START_ADDR + 1) ELSE Blank
        BY DEF ImageIn
      <3>1. a < APP_B_START_ADDR + APP_B_SIZE /\ ~(a < APP_B_START_ADDR + 0)
        BY <2>12, Sizes, SMT
      <3>2. mem'[a] = Blank
        BY <2>11, <3>1 DEF From
      <3>3. written' = 0
        BY <1>1, <1>4
      <3> QED BY <3>1, <3>2, <3>3
    <2>14. BlankFrom(mem', APP_B_MANIFEST_ADDR)
      <3> SUFFICES ASSUME NEW a \in Address, APP_B_MANIFEST_ADDR <= a,
                          a < APP_B_START_ADDR + APP_B_SIZE
                   PROVE  mem'[a] = Blank
        BY DEF BlankFrom
      <3>1. APP_B_START_ADDR <= a
        BY <2>12, Sizes, SMT
      <3> QED BY <2>11, <3>1 DEF From
    <2>15. Flash'
      <3>1. phase' # "done"
        BY <1>1
      <3> QED BY <2>13, <2>14, <3>1 DEF Flash
    <2> QED BY <1>10, <1>11, <2>4, <2>5, <2>10, <2>15 DEF PathInv
  <1> QED BY <1>12, <1>13

(* A buffer from which no block has left.                                  *)
LEMMA FreshCuts ==
    ASSUME NEW S, NEW unit \in Nat \ {0}, NEW st \in Buffer(S), NEW w, Len(st.buf) < unit,
           st.out = <<>>, \A k \in 1..Len(st.buf) : st.buf[k] = w[k]
    PROVE  CutAfter(st, 0, w, Len(st.buf), unit)
  <1>1. Len(st.buf) \in Nat /\ At(0, unit) = 0 /\ Len(<<>>) = 0
    BY BufferTyped, NextAt, EmptySeq
  <1>2. Cut(st, 0, 0, w, unit)
    <2>1. Len(st.out) = 0 + 0
      BY <1>1
    <2>2. \A k \in 1..Len(st.buf) : st.buf[k] = w[At(0, unit) + k]
      <3>1. \A k \in 1..Len(st.buf) : 0 + k = k
        OBVIOUS
      <3> QED BY <1>1, <3>1
    <2>3. \A b \in 1..0 : /\ Len(st.out[0 + b]) = unit
                          /\ \A k \in 1..unit : st.out[0 + b][k] = w[Before(b, unit) + k]
      OBVIOUS
    <2> QED BY <2>1, <2>2, <2>3 DEF Cut
  <1>3. Len(st.buf) = At(0, unit) + Len(st.buf)
    BY <1>1
  <1> QED BY <1>2, <1>3 DEF CutAfter

(* Addresses are numbers.                                                  *)
LEMMA AddressTyped == \A a \in Address : a \in Nat
  BY LayoutAssumption, SMT DEF Address

(* A write of the next bytes of the plaintext succeeds and makes the image *)
(* longer.                                                                 *)
LEMMA ImageGrows ==
    ASSUME NEW m, NEW t, NEW n \in Nat, NEW bytes \in Seq(StreamByte), NEW pad \in BOOLEAN,
           n % Word = 0, n + Len(bytes) <= APP_B_IMAGE_SIZE, pad \/ Len(bytes) % Word = 0,
           \A k \in 1..Len(bytes) : bytes[k] = PlainOf(t, n + k),
           ImageIn(m, t, n), BlankFrom(m, APP_B_MANIFEST_ADDR)
    PROVE  /\ Write(m, APP_B_START_ADDR + n, bytes, pad, Len(bytes)).ok
           /\ ImageIn(Write(m, APP_B_START_ADDR + n, bytes, pad, Len(bytes)).mem, t, n + Len(bytes))
           /\ BlankFrom(Write(m, APP_B_START_ADDR + n, bytes, pad, Len(bytes)).mem, APP_B_MANIFEST_ADDR)
  <1> DEFINE S == APP_B_START_ADDR
             I == APP_B_IMAGE_SIZE
             l == Len(bytes)
             w == Write(m, S + n, bytes, pad, l)
             f == w.mem
  <1>1. S \in Nat /\ I \in Nat /\ l \in Nat /\ Word \in Nat \ {0} /\ I <= APP_B_SIZE
        /\ APP_B_MANIFEST_ADDR = S + I /\ I % Word = 0 /\ n + l <= I /\ APP_B_SIZE \in Nat
    BY Sizes, LenProperties, ManifestAssumption
  <1>2. n + Room(l) <= I
    <2> HIDE DEF I, l
    <2> DEFINE r == I - n
    <2>1. r \in Nat /\ l <= r /\ I = n + r
      BY <1>1, SMT
    <2>2. (I - n) % Word = 0
      <3>1. n <= I
        BY <1>1, SMT
      <3> QED BY <1>1, <3>1, MultiplesAdd
    <2>3. r % Word = 0
      BY <2>2
    <2> HIDE DEF r
    <2>4. Room(l) \in Nat /\ Room(l) <= r
      BY <1>1, <2>1, <2>3, RoomBound
    <2> QED BY <2>1, <2>4
  <1>3. BlankBetween(m, n, I)
    <2> SUFFICES ASSUME NEW a \in Address, S + n <= a, a < S + I PROVE m[a] = Blank
      BY DEF BlankBetween
    <2>1. S <= a /\ a < S + I /\ ~(a < S + n)
      BY <1>1, AddressTyped, SMT
    <2> QED BY <2>1 DEF ImageIn
  <1>4. w.ok /\ f = WithBytes(m, n, bytes)
    <2>1. I \in Nat /\ n % Word = 0 /\ n + Room(Len(bytes)) <= I /\ I <= APP_B_SIZE
          /\ (pad \/ Len(bytes) % Word = 0)
      BY <1>1, <1>2
    <2> QED BY <1>3, <2>1, SlotWrite
  <1>5. \A a \in Address : f[a] = IF S + n <= a /\ a < S + n + l
                                    THEN bytes[a - (S + n) + 1] ELSE m[a]
    BY <1>4, Zenon DEF WithBytes
  <1>6. \A k \in 1..l : bytes[k] = PlainOf(t, n + k)
    OBVIOUS
  <1> HIDE DEF f, w, S, I, l
  <1>7. ImageIn(f, t, n + l)
    <2> SUFFICES ASSUME NEW a \in Address, S <= a, a < S + I
                 PROVE  f[a] = IF a < S + (n + l) THEN PlainOf(t, a - S + 1) ELSE Blank
      BY DEF ImageIn, S, I
    <2>0. a \in Nat
      BY AddressTyped
    <2>1. m[a] = IF a < S + n THEN PlainOf(t, a - S + 1) ELSE Blank
      BY DEF ImageIn, S, I
    <2>2. CASE S + n <= a /\ a < S + n + l
      <3> DEFINE k == a - (S + n) + 1
      <3>1. k \in 1..l /\ n + k = a - S + 1 /\ a < S + (n + l)
        BY <1>1, <2>0, <2>2, SMT
      <3>2. f[a] = bytes[k]
        BY <1>5, <2>2
      <3> HIDE DEF k
      <3>3. bytes[k] = PlainOf(t, n + k)
        BY <1>6, <3>1
      <3> QED BY <3>1, <3>2, <3>3
    <2>3. CASE ~(S + n <= a /\ a < S + n + l)
      <3>1. (a < S + n) <=> (a < S + (n + l))
        BY <1>1, <2>0, <2>3, SMT
      <3>2. f[a] = m[a]
        BY <1>5, <2>3
      <3> QED BY <2>1, <3>1, <3>2
    <2> QED BY <2>2, <2>3
  <1>8. BlankFrom(f, APP_B_MANIFEST_ADDR)
    <2> SUFFICES ASSUME NEW a \in Address, APP_B_MANIFEST_ADDR <= a, a < S + APP_B_SIZE
                 PROVE  f[a] = Blank
      BY DEF BlankFrom, S
    <2>1. ~(a < S + n + l)
      BY <1>1, AddressTyped, SMT
    <2>2. m[a] = Blank
      BY DEF BlankFrom, S
    <2> QED BY <1>5, <2>1, <2>2
  <1> QED BY <1>4, <1>7, <1>8 DEF f, w, S, l

(* All parts are complete when all bytes have come.                        *)
LEMMA Complete ==
    ASSUME PathInv, pos = Total
    PROVE  /\ Len(header) = HeaderSize /\ Len(signature) = SignatureSize /\ payload = size
  <1> DEFINE h == Len(header)
             g == Len(signature)
  <1>1. h \in Nat /\ g \in Nat /\ payload \in Nat /\ size \in Nat /\ HeaderSize \in Nat /\ SignatureSize \in Nat
    BY LenProperties, Sizes DEF PathInv, Typed
  <1>2. /\ h <= HeaderSize /\ g <= SignatureSize /\ payload <= size
        /\ h + g + payload = HeaderSize + SignatureSize + size
    BY DEF PathInv, Position, Total
  <1> HIDE DEF h, g
  <1>3. h = HeaderSize /\ g = SignatureSize /\ payload = size
    BY <1>1, <1>2, SMT
  <1> QED BY <1>3 DEF h, g

(* END writes what is left in the flash buffer, padded to a double word    *)
(* that still lies below the manifest page.                                *)
LEMMA EndInv == PathInv /\ End => PathInv'
  <1> SUFFICES ASSUME PathInv, End PROVE PathInv'
    OBVIOUS
  <1> DEFINE bytes == flashBuf.buf
             l == Len(bytes)
  <1>1. /\ phase = "receive" /\ left = 0 /\ pos = Total
        /\ UNCHANGED <<transfer, size, left, pos, header, signature, payload,
                       ghash, sha, counter, used, flashBuf>>
        /\ IF bytes = <<>> THEN phase' = "manifest" /\ UNCHANGED <<written, mem>>
                           ELSE WriteOut(bytes, TRUE)
    BY DEF End, position, parts, crypto
  <1>2. Len(header) = HeaderSize /\ Len(signature) = SignatureSize /\ payload = size
    BY <1>1, Complete
  <1>3. /\ bytes \in Seq(StreamByte) /\ l \in Nat /\ written \in Nat /\ written + l = size /\ written % Word = 0
        /\ \A k \in 1..l : bytes[k] = PlainOf(transfer, written + k)
    <2>1. written + l = size /\ written % Word = 0 /\ \A k \in 1..l : bytes[k] = PlainOf(transfer, written + k)
      BY <1>1, <1>2 DEF PathInv, Buffered
    <2>2. flashBuf \in Buffer(StreamByte) /\ written \in Nat
      BY DEF PathInv, Typed
    <2> QED BY <2>1, <2>2, BufferTyped
  <1>4. Busy /\ phase # "done"
    BY <1>1, <1>2 DEF Busy
  <1>5. /\ ImageIn(mem, transfer, written) /\ BlankFrom(mem, APP_B_MANIFEST_ADDR)
        /\ size \in Nat /\ size <= APP_B_IMAGE_SIZE
    BY <1>4, Sizes DEF PathInv, Flash, Typed
  <1>6. /\ phase' = "manifest" /\ written' = size
        /\ ImageIn(mem', transfer, size) /\ BlankFrom(mem', APP_B_MANIFEST_ADDR)
    <2>1. CASE bytes = <<>>
      <3>1. l = 0
        BY <2>1, EmptySeq
      <3>2. phase' = "manifest" /\ written' = written /\ mem' = mem
        BY <1>1, <2>1
      <3>3. written = size
        BY <1>3, <3>1
      <3> QED BY <1>5, <3>2, <3>3
    <2>2. CASE bytes # <<>>
      <3> DEFINE w == Write(mem, APP_B_START_ADDR + written, bytes, TRUE, Len(bytes))
      <3>1. WriteOut(bytes, TRUE)
        BY <1>1, <2>2
      <3>2. mem' = w.mem /\ (w.ok => written' = written + Len(bytes) /\ phase' = "manifest")
        BY <3>1 DEF WriteOut
      <3>3. TRUE \in BOOLEAN /\ written + Len(bytes) <= APP_B_IMAGE_SIZE
        BY <1>3, <1>5
      <3> HIDE DEF bytes
      <3>4. w.ok /\ ImageIn(w.mem, transfer, written + Len(bytes)) /\ BlankFrom(w.mem, APP_B_MANIFEST_ADDR)
        BY <1>3, <1>5, <3>3, ImageGrows
      <3> HIDE DEF w
      <3> QED BY <1>3, <3>2, <3>4
    <2> QED BY <2>1, <2>2
  <1>7. Typed'
    BY <1>1, <1>5, <1>6 DEF PathInv, Typed
  <1>8. Position'
    BY <1>1 DEF PathInv, Position, Total
  <1>9. Limits'
    <2>1. size <= size
      BY <1>5
    <2> QED BY <1>1, <1>2, <1>6, <2>1 DEF PathInv, Limits
  <1>10. Streams'
    <2>1. AadBlocks' = AadBlocks
      BY <1>1 DEF AadBlocks, Aad
    <2> QED BY <1>1, <1>4, <2>1 DEF PathInv, Streams
  <1>11. Buffered'
    BY <1>1, <1>2, <1>6 DEF Buffered
  <1>12. Flash'
    BY <1>1, <1>6 DEF Flash
  <1> QED BY <1>7, <1>8, <1>9, <1>10, <1>11, <1>12 DEF PathInv

(* What a piece of the ciphertext does to the buffers.                     *)
LEMMA PayloadMoves ==
    ASSUME PathInv, phase = "receive", Len(signature) = SignatureSize,
           NEW n \in Nat, payload + n <= size, NEW d, d = Decrypt(Incoming(n)),
           NEW b, b = Absorb(flashBuf, d.plain, BufferSize)
    PROVE  /\ Keyed(d.counter, d.used, payload + n) /\ d.counter \in Nat /\ d.used \in 0..GcmBlock
           /\ Absorb(ghash, Incoming(n), GcmBlock) \in Buffer(StreamByte)
           /\ Extends(ghash, Absorb(ghash, Incoming(n), GcmBlock))
           /\ CutAfter(Absorb(ghash, Incoming(n), GcmBlock), Len(AadBlocks), CipherStream(transfer),
                       payload + n, GcmBlock)
           /\ Absorb(sha, d.plain, ShaBlock) \in Buffer(StreamByte)
           /\ CutAfter(Absorb(sha, d.plain, ShaBlock), 0, PlainStream(transfer), payload + n, ShaBlock)
           /\ b \in Buffer(StreamByte)
           /\ CutAfter(b, 0, [k \in Nat |-> PlainOf(transfer, written + k)],
                       Len(flashBuf.buf) + n, BufferSize)
  <1> DEFINE x == Incoming(n)
             p == d.plain
             P == Len(AadBlocks)
             w == [k \in Nat |-> PlainOf(transfer, written + k)]
             l == Len(flashBuf.buf)
  <1>1. /\ transfer \in Nat /\ pos \in Nat /\ payload \in Nat /\ written \in Nat /\ size \in Nat
        /\ ghash \in Buffer(StreamByte) /\ sha \in Buffer(StreamByte) /\ flashBuf \in Buffer(StreamByte)
        /\ HeaderSize \in Nat /\ SignatureSize \in Nat /\ SignatureSize # 0
        /\ GcmBlock \in Nat \ {0} /\ ShaBlock \in Nat \ {0} /\ BufferSize \in Nat \ {0}
    BY Sizes DEF PathInv, Typed
  <1>2. Busy
    BY DEF Busy
  <1>3. Len(header) = HeaderSize /\ header \in Seq(StreamByte)
    <2>1. header \in Seq(StreamByte) /\ Len(header) \in Nat
      BY LenProperties DEF PathInv, Typed
    <2>2. Len(header) <= HeaderSize /\ ~(Len(header) < HeaderSize)
      BY <1>1 DEF PathInv, Position
    <2> QED BY <1>1, <2>1, <2>2
  <1>4. pos = HeaderSize + SignatureSize + payload
    BY <1>3 DEF PathInv, Position
  <1>5. x \in Seq(StreamByte) /\ Len(x) = n /\ \A k \in 1..n : x[k] = CipherOf(transfer, pos + k)
    BY <1>1, IncomingForm
  <1> HIDE DEF x
  <1>6. /\ Keyed(counter, used, payload)
        /\ CutAfter(sha, 0, PlainStream(transfer), payload, ShaBlock)
        /\ CutAfter(ghash, Len(AadBlocks), CipherStream(transfer), payload, GcmBlock)
    BY <1>2 DEF PathInv, Streams
  <1>7. /\ Keyed(d.counter, d.used, payload + n)
        /\ p \in Seq(StreamByte) /\ Len(p) = n /\ \A k \in 1..n : p[k] = PlainOf(transfer, payload + k)
    <2>1. ASSUME NEW k \in 1..Len(x) PROVE x[k][3] = HeaderSize + SignatureSize + (payload + k)
      <3>1. x[k] = CipherOf(transfer, pos + k) /\ pos + k = HeaderSize + SignatureSize + (payload + k)
        BY <1>1, <1>4, <1>5
      <3> QED BY <3>1 DEF CipherOf
    <2>2. /\ Keyed(Decrypt(x).counter, Decrypt(x).used, payload + Len(x))
          /\ Decrypt(x).plain \in Seq(StreamByte) /\ Len(Decrypt(x).plain) = Len(x)
          /\ \A k \in 1..Len(x) : Decrypt(x).plain[k] = PlainOf(transfer, payload + k)
      BY <1>1, <1>5, <1>6, <2>1, DecryptFollowsStream
    <2> QED BY <1>5, <2>2 DEF x
  <1>8. d.counter \in Nat /\ d.used \in 0..GcmBlock
    BY <1>7 DEF Keyed
  <1> HIDE DEF p
  <1>9. /\ Absorb(ghash, x, GcmBlock) \in Buffer(StreamByte)
        /\ Extends(ghash, Absorb(ghash, x, GcmBlock))
        /\ CutAfter(Absorb(ghash, x, GcmBlock), P, CipherStream(transfer), payload + Len(x), GcmBlock)
    <2> DEFINE c == CipherStream(transfer)
    <2>1. \A k \in 1..Len(x) : x[k] = c[payload + k]
      <3> SUFFICES ASSUME NEW k \in 1..n PROVE x[k] = c[payload + k]
        BY <1>5
      <3>1. payload + k \in Nat /\ HeaderSize + SignatureSize + (payload + k) = pos + k
        BY <1>1, <1>4
      <3>2. c[payload + k] = CipherOf(transfer, HeaderSize + SignatureSize + (payload + k))
        BY <3>1 DEF CipherStream
      <3> QED BY <1>5, <3>1, <3>2
    <2>2. P \in Nat
      BY <1>3, AadBlocksTyped
    <2>3. CutAfter(ghash, P, c, payload, GcmBlock)
      BY <1>6
    <2> HIDE DEF c, P
    <2>4. /\ Absorb(ghash, x, GcmBlock) \in Buffer(StreamByte)
          /\ Extends(ghash, Absorb(ghash, x, GcmBlock))
          /\ CutAfter(Absorb(ghash, x, GcmBlock), P, c, payload + Len(x), GcmBlock)
      BY <1>1, <1>5, <2>1, <2>2, <2>3, AbsorbCuts
    <2> QED BY <2>4 DEF c
  <1>10. /\ Absorb(sha, p, ShaBlock) \in Buffer(StreamByte)
         /\ CutAfter(Absorb(sha, p, ShaBlock), 0, PlainStream(transfer), payload + Len(p), ShaBlock)
    <2> DEFINE c == PlainStream(transfer)
    <2>1. \A k \in 1..Len(p) : p[k] = c[payload + k]
      <3> SUFFICES ASSUME NEW k \in 1..n PROVE p[k] = c[payload + k]
        BY <1>7
      <3>1. payload + k \in Nat
        BY <1>1
      <3> QED BY <1>7, <3>1 DEF PlainStream
    <2>2. CutAfter(sha, 0, c, payload, ShaBlock)
      BY <1>6
    <2> DEFINE none == 0
    <2>3. CutAfter(sha, none, c, payload, ShaBlock) /\ none \in Nat
      BY <2>2
    <2> HIDE DEF c, none
    <2>4. /\ Absorb(sha, p, ShaBlock) \in Buffer(StreamByte)
          /\ CutAfter(Absorb(sha, p, ShaBlock), none, c, payload + Len(p), ShaBlock)
      <3>1. ShaBlock \in Nat \ {0} /\ sha \in Buffer(StreamByte) /\ payload \in Nat /\ p \in Seq(StreamByte)
        BY <1>1, <1>7
      <3> QED BY <2>1, <2>3, <3>1, AbsorbCuts
    <2> QED BY <2>4 DEF c, none
  <1>11. /\ l \in Nat /\ l < BufferSize /\ flashBuf.out = <<>> /\ written + l = payload
         /\ \A k \in 1..l : flashBuf.buf[k] = PlainOf(transfer, written + k)
    BY <1>1, BufferTyped DEF PathInv, Limits, Buffered
  <1> HIDE DEF l
  <1>12. /\ Absorb(flashBuf, p, BufferSize) \in Buffer(StreamByte)
         /\ CutAfter(Absorb(flashBuf, p, BufferSize), 0, w, l + Len(p), BufferSize)
    <2>1. \A k \in 1..Len(flashBuf.buf) : flashBuf.buf[k] = w[k]
      <3> SUFFICES ASSUME NEW k \in 1..l PROVE flashBuf.buf[k] = w[k]
        BY DEF l
      <3>1. k \in Nat
        BY <1>11
      <3> QED BY <1>11, <3>1
    <2>2. \A k \in 1..Len(p) : p[k] = w[l + k]
      <3> SUFFICES ASSUME NEW k \in 1..n PROVE p[k] = w[l + k]
        BY <1>7
      <3>1. l + k \in Nat /\ written + (l + k) = payload + k
        <4>1. l \in Nat /\ written \in Nat /\ payload \in Nat /\ written + l = payload
          BY <1>1, <1>11
        <4> QED BY <4>1, SMT
      <3>2. w[l + k] = PlainOf(transfer, written + (l + k))
        BY <3>1
      <3> QED BY <1>7, <3>1, <3>2
    <2> HIDE DEF w
    <2>3. CutAfter(flashBuf, 0, w, l, BufferSize)
      BY <1>1, <1>11, <2>1, FreshCuts DEF l
    <2> DEFINE none == 0
    <2>4. CutAfter(flashBuf, none, w, l, BufferSize) /\ none \in Nat
      BY <2>3
    <2> HIDE DEF none
    <2>5. /\ Absorb(flashBuf, p, BufferSize) \in Buffer(StreamByte)
          /\ CutAfter(Absorb(flashBuf, p, BufferSize), none, w, l + Len(p), BufferSize)
      <3>1. BufferSize \in Nat \ {0} /\ flashBuf \in Buffer(StreamByte) /\ l \in Nat /\ p \in Seq(StreamByte)
        BY <1>1, <1>7, <1>11
      <3> QED BY <2>2, <2>4, <3>1, AbsorbCuts
    <2> QED BY <2>5 DEF none
  <1> QED BY <1>5, <1>7, <1>8, <1>9, <1>10, <1>12 DEF x, p, l

(* A piece of the payload moves through GHASH, key stream, SHA-256 and     *)
(* flash buffer, and full buffers go to the flash.                         *)
LEMMA TakePayloadInv == PathInv /\ TakePayload => PathInv'
  <1> SUFFICES ASSUME PathInv, TakePayload PROVE PathInv'
    OBVIOUS
  <1> DEFINE take == Least(size - payload, left)
             d == Decrypt(Incoming(take))
             b == Absorb(flashBuf, d.plain, BufferSize)
             l == Len(flashBuf.buf)
             w == [k \in Nat |-> PlainOf(transfer, written + k)]
  <1>1. /\ phase = "receive" /\ left > 0 /\ Len(signature) = SignatureSize
        /\ UNCHANGED <<transfer, size, header, signature>>
        /\ ghash' = Absorb(ghash, Incoming(take), GcmBlock)
        /\ counter' = d.counter /\ used' = d.used
        /\ sha' = Absorb(sha, d.plain, ShaBlock)
        /\ flashBuf' = [buf |-> b.buf, out |-> <<>>]
        /\ payload' = payload + take /\ left' = left - take /\ pos' = pos + take
    BY DEF TakePayload, Take, Used
  <1>2. IF b.out = <<>> THEN UNCHANGED <<phase, written, mem>>
                        ELSE WriteOut(FlattenSeq(b.out), FALSE)
    BY DEF TakePayload
  <1>3. /\ transfer \in Nat /\ pos \in Nat /\ left \in Nat /\ payload \in Nat /\ written \in Nat
        /\ size \in Nat /\ size <= APP_B_IMAGE_SIZE /\ payload <= size
        /\ flashBuf \in Buffer(StreamByte) /\ ghash \in Buffer(StreamByte) /\ pos + left <= Total
    BY Sizes DEF PathInv, Typed, Position
  <1>4. take \in Nat /\ take <= size - payload /\ take <= left
    BY <1>3, SMT DEF Least
  <1>5. payload + take \in Nat /\ payload + take <= size
    BY <1>3, <1>4
  <1> HIDE DEF take, d, b
  <1>6. /\ Keyed(d.counter, d.used, payload + take) /\ d.counter \in Nat /\ d.used \in 0..GcmBlock
        /\ ghash' \in Buffer(StreamByte) /\ Extends(ghash, ghash')
        /\ CutAfter(ghash', Len(AadBlocks), CipherStream(transfer), payload + take, GcmBlock)
        /\ sha' \in Buffer(StreamByte)
        /\ CutAfter(sha', 0, PlainStream(transfer), payload + take, ShaBlock)
        /\ b \in Buffer(StreamByte)
        /\ CutAfter(b, 0, w, l + take, BufferSize)
    <2>1. d = Decrypt(Incoming(take)) /\ b = Absorb(flashBuf, d.plain, BufferSize)
      BY DEF d, b
    <2> QED BY <1>1, <1>4, <1>5, <2>1, PayloadMoves
  <1>7. PICK m \in Nat : l + take = At(m, BufferSize) + Len(b.buf) /\ Cut(b, 0, m, w, BufferSize)
    BY <1>6 DEF CutAfter
  <1> DEFINE n == At(m, BufferSize)
             r == Len(b.buf)
  <1>8. /\ l \in Nat /\ r \in Nat /\ n \in Nat /\ n % Word = 0 /\ r < BufferSize
        /\ b.buf \in Seq(StreamByte) /\ b.out \in Seq(Seq(StreamByte)) /\ Len(b.out) = 0 + m
        /\ written + l = payload /\ written % Word = 0
    <2>1. l \in Nat /\ r \in Nat /\ b.buf \in Seq(StreamByte) /\ b.out \in Seq(Seq(StreamByte))
      BY <1>3, <1>6, BufferTyped
    <2>2. r < BufferSize /\ Len(b.out) = 0 + m
      BY <1>7 DEF Cut
    <2>3. n \in Nat /\ n % Word = 0
      BY Sizes, NextAt, BlocksAligned
    <2>4. written + l = payload /\ written % Word = 0
      BY <1>1 DEF PathInv, Buffered
    <2> QED BY <2>1, <2>2, <2>3, <2>4
  <1>9. \A k \in 1..r : b.buf[k] = w[n + k]
    BY <1>7 DEF Cut
  <1>10. Busy /\ phase # "done"
    BY <1>1 DEF Busy
  <1>11. ImageIn(mem, transfer, written) /\ BlankFrom(mem, APP_B_MANIFEST_ADDR)
    BY <1>10 DEF PathInv, Flash
  <1>12. l + take = n + r
    BY <1>7
  <1> HIDE DEF n, r, l
  <1>13. /\ phase' = phase /\ written' = written + n
         /\ ImageIn(mem', transfer, written + n) /\ BlankFrom(mem', APP_B_MANIFEST_ADDR)
    <2>1. CASE m = 0
      <3>1. b.out = <<>>
        BY <1>8, <2>1, EmptySeq
      <3>2. n = 0
        BY <2>1, Sizes, NextAt DEF n
      <3>3. written + n = written
        BY <1>3, <3>2
      <3> QED BY <1>2, <1>11, <3>1, <3>3
    <2>2. CASE m # 0
      <3>1. b.out # <<>>
        <4>1. Len(<<>>) = 0
          BY EmptySeq
        <4> QED BY <1>8, <2>2, <4>1
      <3> DEFINE bytes == FlattenSeq(b.out)
                 W == Write(mem, APP_B_START_ADDR + written, bytes, FALSE, Len(bytes))
      <3>2. WriteOut(bytes, FALSE)
        BY <1>2, <3>1
      <3>3. mem' = W.mem /\ (W.ok => written' = written + Len(bytes) /\ phase' = phase)
        BY <3>2 DEF WriteOut
      <3>4. bytes \in Seq(StreamByte) /\ Len(bytes) = n /\ \A k \in 1..n : bytes[k] = w[k]
        <4> HIDE DEF w
        <4>1. BufferSize \in Nat \ {0} /\ m \in Nat \ {0}
          BY Sizes, <2>2
        <4> QED BY <1>6, <1>7, <4>1, FlattenCut DEF n
      <3> HIDE DEF bytes
      <3>5. \A k \in 1..Len(bytes) : bytes[k] = PlainOf(transfer, written + k)
        <4> SUFFICES ASSUME NEW k \in 1..n PROVE bytes[k] = PlainOf(transfer, written + k)
          BY <3>4
        <4>1. k \in Nat
          BY <1>8
        <4> QED BY <3>4, <4>1
      <3>6. FALSE \in BOOLEAN /\ written + Len(bytes) <= APP_B_IMAGE_SIZE /\ Len(bytes) % Word = 0
        <4>1. written + n <= APP_B_IMAGE_SIZE
          BY <1>3, <1>5, <1>8, <1>12, <1>4, Sizes
        <4> QED BY <1>8, <3>4, <4>1
      <3>7. W.ok /\ ImageIn(W.mem, transfer, written + Len(bytes)) /\ BlankFrom(W.mem, APP_B_MANIFEST_ADDR)
        BY <1>3, <1>8, <1>11, <3>4, <3>5, <3>6, ImageGrows
      <3> HIDE DEF W
      <3> QED BY <3>3, <3>4, <3>7
    <2> QED BY <2>1, <2>2
  <1>14. flashBuf'.buf = b.buf /\ flashBuf'.out = <<>> /\ flashBuf' \in Buffer(StreamByte)
    <2>1. <<>> \in Seq(Seq(StreamByte))
      BY EmptySeq
    <2> QED BY <1>1, <1>8, <2>1 DEF Buffer
  <1>15. Typed'
    <2>1. left' \in Nat /\ pos' \in Nat /\ payload' \in Nat /\ written' \in Nat
      BY <1>1, <1>3, <1>4, <1>5, <1>8, <1>13
    <2>2. counter' \in Nat /\ used' \in Nat
      BY <1>1, <1>6, Sizes
    <2> QED BY <1>1, <1>6, <1>13, <1>14, <2>1, <2>2 DEF PathInv, Typed
  <1>16. Position'
    <2>1. Total' = Total /\ Total \in Nat
      BY <1>1, <1>3, Sizes DEF Total
    <2>2. pos' + left' <= Total' /\ payload' <= size'
      BY <1>1, <1>3, <1>4, <1>5, <2>1
    <2>3. pos' = Len(header') + Len(signature') + payload'
      <3>1. pos = Len(header) + Len(signature) + payload
        BY DEF PathInv, Position
      <3>2. Len(header) \in Nat /\ Len(signature) \in Nat
        BY LenProperties DEF PathInv, Typed
      <3> DEFINE h == Len(header)
                 g == Len(signature)
      <3>3. pos = h + g + payload /\ h \in Nat /\ g \in Nat
        BY <3>1, <3>2
      <3> HIDE DEF h, g
      <3>4. pos + take = h + g + (payload + take)
        BY <1>3, <1>4, <3>3, SMT
      <3>5. pos' = pos + take /\ payload' = payload + take /\ Len(header') = h /\ Len(signature') = g
        BY <1>1 DEF h, g
      <3> QED BY <3>4, <3>5, Zenon
    <2>4. ~(Len(signature') < SignatureSize)
      BY <1>1, Sizes
    <2> QED BY <1>1, <2>2, <2>3, <2>4 DEF PathInv, Position
  <1>17. Limits'
    <2>1. Len(ghash'.buf) < GcmBlock /\ Len(sha'.buf) < ShaBlock
      BY <1>6 DEF CutAfter, Cut
    <2>2. used' <= GcmBlock
      BY <1>1, <1>6, Sizes
    <2>3. Len(flashBuf'.buf) < BufferSize
      BY <1>8, <1>14 DEF r
    <2>4. written' <= payload'
      BY <1>1, <1>3, <1>4, <1>8, <1>12, <1>13
    <2> QED BY <1>14, <2>1, <2>2, <2>3, <2>4 DEF Limits
  <1>18. Streams'
    <2>1. AadBlocks' = AadBlocks
      BY <1>1 DEF AadBlocks, Aad
    <2>2. Keyed(counter', used', payload')
      BY <1>1, <1>6
    <2>3. CutAfter(sha', 0, PlainStream(transfer'), payload', ShaBlock)
      BY <1>1, <1>6
    <2>4. CutAfter(ghash', Len(AadBlocks'), CipherStream(transfer'), payload', GcmBlock)
      BY <1>1, <1>6, <2>1
    <2>5. ASSUME NEW i \in 1..Len(AadBlocks) PROVE ghash'.out[i] = AadBlocks[i]
      <3> DEFINE P == Len(AadBlocks)
      <3>1. ghash.out[i] = AadBlocks[i] /\ CutAfter(ghash, P, CipherStream(transfer), payload, GcmBlock)
        BY <1>10 DEF PathInv, Streams
      <3>2. PICK j \in Nat : Len(ghash.out) = P + j
        BY <3>1 DEF CutAfter, Cut
      <3>3. P \in Nat
        <4>1. header \in Seq(StreamByte) /\ Len(header) \in Nat
          BY LenProperties DEF PathInv, Typed
        <4>2. Len(header) <= HeaderSize /\ (Len(header) < HeaderSize => Len(signature) = 0)
          BY DEF PathInv, Position
        <4>3. Len(header) = HeaderSize
          BY <1>1, <4>1, <4>2, Sizes
        <4> QED BY <4>1, <4>3, AadBlocksTyped
      <3> HIDE DEF P
      <3>4. i \in 1..Len(ghash.out)
        <4>1. i \in 1..P
          BY DEF P
        <4> QED BY <3>2, <3>3, <4>1, SMT
      <3>5. ghash'.out[i] = ghash.out[i]
        BY <1>6, <3>4 DEF Extends
      <3> QED BY <3>1, <3>5
    <2>6. \A i \in 1..Len(AadBlocks') : ghash'.out[i] = AadBlocks'[i]
      BY <2>1, <2>5
    <2> QED BY <2>2, <2>3, <2>4, <2>6 DEF Streams
  <1>19. Buffered'
    <2>1. written' + Len(flashBuf'.buf) = payload' /\ written' % Word = 0
      <3>1. (written + n) % Word = 0
        BY <1>3, <1>8, Sizes, MultiplesAdd
      <3>2. written + n + r = payload + take
        BY <1>3, <1>4, <1>8, <1>12
      <3> QED BY <1>1, <1>13, <1>14, <3>1, <3>2 DEF r
    <2>2. ASSUME NEW k \in 1..Len(flashBuf'.buf)
          PROVE  flashBuf'.buf[k] = PlainOf(transfer', written' + k)
      <3>1. k \in 1..r
        BY <1>14 DEF r
      <3>0. b.buf[k] = w[n + k]
        BY <1>9, <3>1
      <3>2. n + k \in Nat /\ written + (n + k) = written + n + k
        BY <1>3, <1>8, <3>1
      <3>3. w[n + k] = PlainOf(transfer, written + (n + k))
        BY <3>2
      <3> QED BY <1>1, <1>13, <1>14, <3>0, <3>2, <3>3
    <2>3. phase' = "receive"
      BY <1>1, <1>13
    <2> QED BY <2>1, <2>2, <2>3 DEF Buffered
  <1>20. Flash'
    BY <1>1, <1>13 DEF Flash
  <1> QED BY <1>15, <1>16, <1>17, <1>18, <1>19, <1>20 DEF PathInv

(* Slot B lies in the flash.                                               *)
LEMMA SlotAddress ==
    ASSUME NEW a \in Nat, APP_B_START_ADDR <= a, a < APP_B_START_ADDR + APP_B_SIZE
    PROVE  a \in Address
  BY LayoutAssumption, SMT DEF Address

(* What is read where bytes have been written, and elsewhere.              *)
LEMMA ReadsBytes ==
    ASSUME NEW m, NEW off \in Nat, NEW bytes \in Seq(StreamByte), off + Len(bytes) <= APP_B_SIZE
    PROVE  /\ \A k \in 1..Len(bytes) : WithBytes(m, off, bytes)[APP_B_START_ADDR + off + k - 1] = bytes[k]
           /\ \A a \in Address : ~(APP_B_START_ADDR + off <= a /\ a < APP_B_START_ADDR + off + Len(bytes))
                                   => WithBytes(m, off, bytes)[a] = m[a]
  <1> DEFINE S == APP_B_START_ADDR
             l == Len(bytes)
             f == WithBytes(m, off, bytes)
  <1>1. \A a \in Address : f[a] = IF S + off <= a /\ a < S + off + l
                                    THEN bytes[a - (S + off) + 1] ELSE m[a]
    BY Zenon DEF WithBytes
  <1>2. S \in Nat /\ l \in Nat /\ APP_B_SIZE \in Nat /\ off + l <= APP_B_SIZE
    BY Sizes, LenProperties
  <1> HIDE DEF S, l, f
  <1>3. ASSUME NEW k \in 1..l PROVE f[S + off + k - 1] = bytes[k]
    <2> DEFINE a == S + off + k - 1
    <2>1. a \in Nat /\ S <= a /\ a < S + APP_B_SIZE /\ S + off <= a /\ a < S + off + l
          /\ a - (S + off) + 1 = k
      BY <1>2, SMT
    <2> HIDE DEF a
    <2>2. a \in Address
      BY <2>1, SlotAddress DEF S
    <2>3. f[a] = bytes[k]
      BY <1>1, <2>1, <2>2
    <2> QED BY <2>3 DEF a
  <1> QED BY <1>1, <1>3 DEF S, l, f

(* Header and signature are written to the manifest page, each to double   *)
(* words that are still blank, and not over the image.                     *)
LEMMA WriteManifestInv == PathInv /\ WriteManifest => PathInv'
  <1> SUFFICES ASSUME PathInv, WriteManifest PROVE PathInv'
    OBVIOUS
  <1> DEFINE S == APP_B_START_ADDR
             I == APP_B_IMAGE_SIZE
             O == SignatureOffset
             M == APP_B_MANIFEST_ADDR
             h == Write(mem, M, header, TRUE, HeaderSize)
             s == Write(h.mem, M + O, signature, TRUE, SignatureSize)
  <1>1. /\ phase = "manifest"
        /\ UNCHANGED <<transfer, size, left, pos, header, signature, payload,
                       ghash, sha, counter, used, flashBuf, written>>
        /\ h.ok /\ s.ok => mem' = s.mem /\ phase' = "done"
    BY DEF WriteManifest, StoredHeader, position, parts, crypto
  <1>2. Len(signature) = SignatureSize /\ written = size /\ payload = size
    BY <1>1 DEF PathInv, Buffered
  <1>3. Busy /\ phase # "done"
    BY <1>1, <1>2 DEF Busy
  <1>4. ImageIn(mem, transfer, size) /\ BlankFrom(mem, M)
    BY <1>2, <1>3 DEF PathInv, Flash
  <1>5. /\ S \in Nat /\ I \in Nat /\ O \in Nat /\ M = S + I /\ APP_B_SIZE \in Nat
        /\ HeaderSize \in Nat /\ SignatureSize \in Nat /\ Word \in Nat \ {0} /\ HeaderSize <= O
        /\ S % Word = 0 /\ I % Word = 0 /\ O % Word = 0 /\ I + O + SignatureSize + Word <= APP_B_SIZE
        /\ SignatureSize # 0
    BY Sizes, ManifestAssumption
  <1>6. header \in Seq(StreamByte) /\ signature \in Seq(StreamByte) /\ Len(header) = HeaderSize
    <2>1. header \in Seq(StreamByte) /\ signature \in Seq(StreamByte) /\ Len(header) \in Nat
      BY LenProperties DEF PathInv, Typed
    <2>2. Len(header) <= HeaderSize /\ (Len(header) < HeaderSize => Len(signature) = 0)
      BY DEF PathInv, Position
    <2> QED BY <1>2, <1>5, <2>1, <2>2
  <1> DEFINE J == I + O
             m1 == WithBytes(mem, I, header)
             m2 == WithBytes(m1, J, signature)
  <1>7. J \in Nat /\ J % Word = 0 /\ M + O = S + J
    <2> HIDE DEF S, I, O, M
    <2>1. (I + O) % Word = 0
      BY <1>5, MultiplesAdd
    <2> QED BY <1>5, <2>1
  <1>8. /\ Room(HeaderSize) \in Nat /\ Room(HeaderSize) <= O /\ Room(SignatureSize) \in Nat
        /\ Room(SignatureSize) < SignatureSize + Word
    BY <1>5, RoomBound
  <1>9. h.ok /\ h.mem = m1
    <2>1. BlankBetween(mem, I, J)
      <3> SUFFICES ASSUME NEW a \in Address, S + I <= a, a < S + J PROVE mem[a] = Blank
        BY DEF BlankBetween
      <3>1. M <= a /\ a < S + APP_B_SIZE
        BY <1>5, AddressTyped, SMT
      <3> QED BY <1>4, <3>1 DEF BlankFrom
    <2>2. I + Room(Len(header)) <= J /\ J <= APP_B_SIZE /\ TRUE \in BOOLEAN
      <3> HIDE DEF I, O
      <3> QED BY <1>5, <1>6, <1>8, SMT
    <2> HIDE DEF J
    <2>3. /\ Write(mem, S + I, header, TRUE, Len(header)).ok
          /\ Write(mem, S + I, header, TRUE, Len(header)).mem = WithBytes(mem, I, header)
      <3>1. I \in Nat /\ J \in Nat /\ header \in Seq(StreamByte) /\ I % Word = 0
        BY <1>5, <1>6, <1>7
      <3> HIDE DEF I
      <3> QED BY <2>1, <2>2, <3>1, SlotWrite
    <2> QED BY <1>5, <1>6, <2>3
  <1>10. s.ok /\ s.mem = m2
    <2>1. BlankBetween(m1, J, APP_B_SIZE)
      <3> SUFFICES ASSUME NEW a \in Address, S + J <= a, a < S + APP_B_SIZE PROVE m1[a] = Blank
        BY DEF BlankBetween
      <3>1. /\ M <= a /\ a < S + APP_B_SIZE
            /\ ~(S + I <= a /\ a < S + I + Len(header))
            /\ I + Len(header) <= APP_B_SIZE
        <4> HIDE DEF S, I, O, M
        <4> QED BY <1>5, <1>6, AddressTyped, SMT
      <3>2. mem[a] = Blank
        BY <1>4, <3>1 DEF BlankFrom
      <3>3. m1[a] = mem[a]
        BY <1>5, <1>6, <3>1, ReadsBytes, ZenonT(60)
      <3> QED BY <3>2, <3>3
    <2>2. J + Room(Len(signature)) <= APP_B_SIZE /\ TRUE \in BOOLEAN /\ APP_B_SIZE <= APP_B_SIZE
      <3> HIDE DEF I, O
      <3> QED BY <1>2, <1>5, <1>8, SMT
    <2> HIDE DEF J, m1
    <2>3. /\ Write(m1, S + J, signature, TRUE, Len(signature)).ok
          /\ Write(m1, S + J, signature, TRUE, Len(signature)).mem = WithBytes(m1, J, signature)
      <3>1. J \in Nat /\ APP_B_SIZE \in Nat /\ signature \in Seq(StreamByte) /\ J % Word = 0
        BY <1>5, <1>6, <1>7
      <3> QED BY <2>1, <2>2, <3>1, SlotWrite
    <2> QED BY <1>2, <1>7, <1>9, <2>3
  <1>11. mem' = m2 /\ phase' = "done"
    BY <1>1, <1>9, <1>10
  <1> HIDE DEF h, s
  <1>12. Len(header) = HeaderSize /\ Len(signature) = SignatureSize
         /\ I + HeaderSize <= APP_B_SIZE /\ J + SignatureSize <= APP_B_SIZE
    <2>1. I + HeaderSize <= APP_B_SIZE /\ J + SignatureSize <= APP_B_SIZE
      <3> HIDE DEF I, O
      <3> QED BY <1>5, SMT
    <2> QED BY <1>2, <1>6, <2>1
  <1>13. /\ \A k \in 1..HeaderSize : m1[S + I + k - 1] = header[k]
         /\ \A a \in Address : ~(S + I <= a /\ a < S + I + HeaderSize) => m1[a] = mem[a]
    <2>1. I \in Nat /\ header \in Seq(StreamByte) /\ I + Len(header) <= APP_B_SIZE
      BY <1>5, <1>6, <1>12
    <2>2. /\ \A k \in 1..Len(header) : WithBytes(mem, I, header)[S + I + k - 1] = header[k]
          /\ \A a \in Address : ~(S + I <= a /\ a < S + I + Len(header))
                                  => WithBytes(mem, I, header)[a] = mem[a]
      BY <2>1, ReadsBytes
    <2> HIDE DEF S, I
    <2> QED BY <1>12, <2>2, Zenon
  <1>14. /\ \A k \in 1..SignatureSize : m2[S + J + k - 1] = signature[k]
         /\ \A a \in Address : ~(S + J <= a /\ a < S + J + SignatureSize) => m2[a] = m1[a]
    <2> HIDE DEF J, m1
    <2>1. J \in Nat /\ signature \in Seq(StreamByte) /\ J + Len(signature) <= APP_B_SIZE
      BY <1>6, <1>7, <1>12
    <2>2. /\ \A k \in 1..Len(signature) : WithBytes(m1, J, signature)[S + J + k - 1] = signature[k]
          /\ \A a \in Address : ~(S + J <= a /\ a < S + J + Len(signature))
                                  => WithBytes(m1, J, signature)[a] = m1[a]
      BY <2>1, ReadsBytes
    <2> QED BY <1>12, <2>2, Zenon
  <1>15. J = I + O
    OBVIOUS
  <1> HIDE DEF m1, m2, S, I, O, M, J
  <1>16. ImageIn(mem', transfer, size)
    <2> SUFFICES ASSUME NEW a \in Address, S <= a, a < S + I PROVE m2[a] = mem[a]
      <3>1. \A a \in Address : S <= a /\ a < S + I => m2[a] = mem[a]
        OBVIOUS
      <3> QED BY <1>4, <1>11, <3>1 DEF ImageIn, S, I
    <2>1. ~(S + I <= a /\ a < S + I + HeaderSize) /\ ~(S + J <= a /\ a < S + J + SignatureSize)
      BY <1>5, <1>7, <1>15, AddressTyped, SMT
    <2> QED BY <1>13, <1>14, <2>1
  <1>17. StoredAt(mem', transfer, M, 0, HeaderSize)
    <2> SUFFICES ASSUME NEW k \in 1..HeaderSize PROVE m2[M + k - 1] = CipherOf(transfer, 0 + k)
      BY <1>11 DEF StoredAt
    <2> DEFINE a == M + k - 1
    <2>1. /\ a \in Nat /\ S <= a /\ a < S + APP_B_SIZE /\ a = S + I + k - 1
          /\ ~(S + J <= a /\ a < S + J + SignatureSize) /\ 0 + k = k
      BY <1>5, <1>7, <1>12, <1>15, SMT
    <2> HIDE DEF a
    <2>2. a \in Address
      BY <2>1, SlotAddress DEF S
    <2>3. m2[a] = m1[a]
      BY <1>14, <2>1, <2>2
    <2>4. m1[a] = header[k]
      BY <1>13, <2>1
    <2>5. header[k] = CipherOf(transfer, k)
      BY <1>12 DEF PathInv, Position
    <2>6. m2[a] = CipherOf(transfer, 0 + k)
      BY <2>1, <2>3, <2>4, <2>5
    <2> QED BY <2>6 DEF a
  <1>18. StoredAt(mem', transfer, M + O, HeaderSize, SignatureSize)
    <2> SUFFICES ASSUME NEW k \in 1..SignatureSize
                 PROVE  m2[M + O + k - 1] = CipherOf(transfer, HeaderSize + k)
      BY <1>11 DEF StoredAt
    <2>1. M + O + k - 1 = S + J + k - 1
      BY <1>7
    <2>2. m2[S + J + k - 1] = signature[k]
      BY <1>14
    <2>3. signature[k] = CipherOf(transfer, HeaderSize + k)
      BY <1>12 DEF PathInv, Position
    <2> QED BY <2>1, <2>2, <2>3
  <1>19. Typed' /\ Position' /\ Limits'
    BY <1>1, <1>11 DEF PathInv, Typed, Position, Limits, Total
  <1>20. Streams'
    <2>1. AadBlocks' = AadBlocks
      BY <1>1 DEF AadBlocks, Aad
    <2> QED BY <1>1, <1>3, <2>1 DEF PathInv, Streams
  <1>21. Buffered'
    BY <1>1, <1>2, <1>11 DEF Buffered
  <1>22. Flash'
    <2>1. written' = size /\ transfer' = transfer
      BY <1>1, <1>2
    <2> QED BY <1>11, <1>16, <1>17, <1>18, <2>1 DEF Flash, M, O
  <1> QED BY <1>19, <1>20, <1>21, <1>22 DEF PathInv

(* The invariant is inductive.                                             *)
LEMMA StepInv == PathInv /\ [Next]_vars => PathInv'
  BY BeginInv, FrameInv, TakeHeaderInv, TakeSignatureInv, TakePayloadInv, EndInv,
     WriteManifestInv, AbortInv, StutterInv DEF Next

(* The invariant PathInv: what stands in the position, the buffers, the key*)
(* stream, the hash states and the flash is what the bytes received so far *)
(* make of it.                                                             *)
THEOREM Inductive == Spec => []PathInv
  <1>1. Init => PathInv
    BY InitInv
  <1>2. PathInv /\ [Next]_vars => PathInv'
    BY StepInv
  <1> QED BY <1>1, <1>2, PTL DEF Spec

-----------------------------------------------------------------------------
(* The properties of the runs, from the invariant.                         *)

(* The flash holds the bytes of f from an address on.                      *)
Lies(address, n, f) == \A k \in 1..n : mem[address + k - 1] = f[k]

(* What is read from an address on, byte by byte.                          *)
LEMMA ReadForm ==
    ASSUME NEW S, NEW address, NEW n \in Nat, NEW f, Lies(address, n, f), \A k \in 1..n : f[k] \in S
    PROVE  /\ Read(address, n) \in Seq(S) /\ Len(Read(address, n)) = n
           /\ \A k \in 1..n : Read(address, n)[k] = f[k]
  <1> DEFINE r == Read(address, n)
  <1>1. r = [k \in 1..n |-> mem[address + k - 1]]
    BY DEF Read
  <1> HIDE DEF r
  <1>2. \A k \in 1..n : r[k] = f[k]
    BY <1>1, Zenon DEF Lies
  <1>3. \A k \in 1..n : mem[address + k - 1] \in S
    BY Zenon DEF Lies
  <1>4. r \in [1..n -> S]
    BY <1>1, <1>3, Zenon
  <1> QED BY <1>2, <1>4, FunctionIsSeq DEF r

(* The plaintext of the transfer under way.                                *)
LEMMA PlainForm ==
    ASSUME Typed
    PROVE  /\ PlainText \in Seq(StreamByte) /\ Len(PlainText) = size
           /\ \A k \in 1..size : PlainText[k] = PlainOf(transfer, k)
  <1>1. size \in Nat /\ transfer \in Nat
    BY Sizes DEF Typed
  <1>2. \A k \in 1..size : PlainText[k] = PlainOf(transfer, k)
    BY Zenon DEF PlainText, PlainOf, Plain
  <1>3. PlainText \in [1..size -> StreamByte]
    <2>1. \A k \in 1..size : PlainOf(transfer, k) \in StreamByte
      BY <1>1, ByteTyped
    <2> DEFINE f == PlainText
    <2>2. f = [k \in 1..size |-> f[k]]
      BY Zenon DEF PlainText
    <2> HIDE DEF f
    <2>3. \A k \in 1..size : f[k] \in StreamByte
      BY <1>2, <2>1 DEF f
    <2>4. f \in [1..size -> StreamByte]
      BY <2>2, <2>3
    <2> QED BY <2>4 DEF f
  <1> QED BY <1>1, <1>2, <1>3, FunctionIsSeq

(* The ciphertext of the transfer under way.                               *)
LEMMA CipherForm ==
    ASSUME Typed
    PROVE  /\ CipherText \in Seq(StreamByte) /\ Len(CipherText) = size
           /\ \A k \in 1..size : CipherText[k] = CipherStream(transfer)[k]
  <1>1. size \in Nat /\ transfer \in Nat /\ HeaderSize \in Nat /\ SignatureSize \in Nat
    BY Sizes DEF Typed
  <1> DEFINE f == CipherText
             P == HeaderSize + SignatureSize
  <1>2. f = [k \in 1..size |-> CipherOf(transfer, P + 1 + k - 1)]
    BY Zenon DEF CipherText, StreamPart, Cipher, CipherOf
  <1>3. \A k \in 1..size : /\ k \in Nat /\ P + k \in Nat /\ P + 1 + k - 1 = P + k
    BY <1>1, SMT
  <1>4. \A k \in Nat : CipherStream(transfer)[k] = CipherOf(transfer, P + k)
    BY Zenon DEF CipherStream
  <1> HIDE DEF f, P
  <1>5. \A k \in 1..size : f[k] = CipherOf(transfer, P + k)
    BY <1>2, <1>3, Zenon
  <1>6. \A k \in 1..size : f[k] \in StreamByte
    BY <1>1, <1>3, <1>5, ByteTyped
  <1>7. f \in [1..size -> StreamByte]
    <2>1. \A k \in 1..size : CipherOf(transfer, P + 1 + k - 1) \in StreamByte
      BY <1>1, <1>3, ByteTyped
    <2> QED BY <1>2, <2>1
  <1>8. f \in Seq(StreamByte) /\ Len(f) = size
    BY <1>1, <1>7, FunctionIsSeq
  <1>9. \A k \in 1..size : f[k] = CipherStream(transfer)[k]
    BY <1>3, <1>4, <1>5
  <1> QED BY <1>8, <1>9 DEF f

(* No buffer of the receiver, and no field of the header or signature, is  *)
(* ever filled past its end, whatever frames come.                         *)
THEOREM BuffersHold == Spec => []WithinBuffers
  <1>1. PathInv => WithinBuffers
    <2> SUFFICES ASSUME PathInv PROVE WithinBuffers
      OBVIOUS
    <2>1. Typed /\ Position /\ Limits
      BY DEF PathInv
    <2>2. size \in Nat /\ payload \in Nat /\ written \in Nat /\ used \in Nat /\ GcmBlock \in Nat
      BY <2>1, Sizes DEF Typed
    <2>3. payload <= size /\ written <= payload /\ used <= GcmBlock
      BY <2>1 DEF Position, Limits
    <2>4. payload \in 0..size /\ written \in 0..size /\ used \in 0..GcmBlock
      BY <2>2, <2>3, SMT
    <2> QED BY <2>1, <2>4 DEF WithinBuffers, Position, Limits
  <1> QED BY <1>1, Inductive, PTL

(* ota_flash_write is never refused: the receiver asks for no write that   *)
(* is unaligned, out of range or over a double word already programmed.    *)
THEOREM NothingRefused == Spec => []NoWriteRefused
  <1>1. PathInv => NoWriteRefused
    BY DEF PathInv, Typed, NoWriteRefused
  <1> QED BY <1>1, Inductive, PTL

(* The slot holds the plaintext up to flash_written and is blank behind it,*)
(* and the flash buffer holds the plaintext from there on.                 *)
LEMMA FlashOfInvariant == PathInv => FlashFollowsStream
  <1> SUFFICES ASSUME PathInv, Ready
               PROVE  /\ Read(APP_B_START_ADDR, APP_B_IMAGE_SIZE) =
                            SubSeq(PlainText, 1, written)
                              \o [i \in 1..APP_B_IMAGE_SIZE - written |-> Blank]
                      /\ flashBuf.buf = SubSeq(PlainText, written + 1, payload)
    BY DEF FlashFollowsStream
  <1> DEFINE S == APP_B_START_ADDR
             I == APP_B_IMAGE_SIZE
             B == StreamByte \cup {Blank}
             x == SubSeq(PlainText, 1, written)
             y == [i \in 1..I - written |-> Blank]
             f == [k \in 1..I |-> IF k <= written THEN PlainOf(transfer, k) ELSE Blank]
             r == Read(S, I)
             z == SubSeq(PlainText, written + 1, payload)
  <1>1. /\ phase = "receive" /\ Busy /\ Typed
        /\ ImageIn(mem, transfer, written) /\ written <= payload /\ payload <= size
        /\ \A k \in 1..Len(flashBuf.buf) : flashBuf.buf[k] = PlainOf(transfer, written + k)
        /\ written + Len(flashBuf.buf) = payload
    BY DEF PathInv, Ready, Busy, Flash, Limits, Position, Buffered
  <1>2. /\ S \in Nat /\ I \in Nat /\ I <= APP_B_SIZE /\ APP_B_SIZE \in Nat /\ transfer \in Nat
        /\ size \in Nat /\ written \in Nat /\ payload \in Nat /\ size <= I
        /\ flashBuf.buf \in Seq(StreamByte) /\ Len(flashBuf.buf) \in Nat
    BY <1>1, Sizes, BufferTyped DEF Typed
  <1>3. /\ PlainText \in Seq(StreamByte) /\ Len(PlainText) = size
        /\ \A k \in 1..size : PlainText[k] = PlainOf(transfer, k) /\ PlainOf(transfer, k) \in StreamByte
    BY <1>1, <1>2, PlainForm, ByteTyped
  <1>4. \A k \in 1..I : mem[S + k - 1] = f[k]
    <2> SUFFICES ASSUME NEW k \in 1..I PROVE mem[S + k - 1] = f[k]
      OBVIOUS
    <2>1. f[k] = IF k <= written THEN PlainOf(transfer, k) ELSE Blank
      OBVIOUS
    <2> DEFINE a == S + k - 1
    <2> HIDE DEF f, S, I
    <2>2. a \in Nat /\ S <= a /\ a < S + I /\ a < S + APP_B_SIZE /\ a - S + 1 = k
          /\ (a < S + written <=> k <= written)
      BY <1>2, SMT
    <2> HIDE DEF a
    <2>3. a \in Address
      BY <2>2, SlotAddress DEF S
    <2>4. mem[a] = IF a < S + written THEN PlainOf(transfer, a - S + 1) ELSE Blank
      BY <1>1, <2>2, <2>3 DEF ImageIn, S, I
    <2> QED BY <2>1, <2>2, <2>4 DEF a
  <1>5. \A k \in 1..I : f[k] \in B
    <2> SUFFICES ASSUME NEW k \in 1..I, k <= written PROVE PlainOf(transfer, k) \in StreamByte
      OBVIOUS
    <2> QED BY <1>2, ByteTyped
  <1>6. r \in Seq(B) /\ Len(r) = I /\ \A k \in 1..I : r[k] = f[k]
    <2> HIDE DEF f, B, S, I
    <2>1. I \in Nat
      BY <1>2
    <2>2. Lies(S, I, f)
      BY <1>4 DEF Lies
    <2>3. /\ Read(S, I) \in Seq(B) /\ Len(Read(S, I)) = I
          /\ \A k \in 1..I : Read(S, I)[k] = f[k]
      BY <1>5, <2>1, <2>2, ReadForm
    <2> QED BY <2>3
  <1>7. /\ x \in Seq(StreamByte) /\ Len(x) = written
        /\ \A k \in 1..written : x[k] = PlainOf(transfer, k)
    <2>1. \A k \in 1..written : k \in 1..size /\ 1 + k - 1 = k
      BY <1>1, <1>2, SMT
    <2>2. \A k \in 1..written : PlainText[k] \in StreamByte
      BY <1>3, <2>1
    <2>3. /\ x \in Seq(StreamByte) /\ Len(x) = IF 1 <= written THEN written - 1 + 1 ELSE 0
          /\ \A k \in 1..written - 1 + 1 : x[k] = PlainText[1 + k - 1]
      BY <1>2, <2>2, SubSeqProperties
    <2> HIDE DEF x
    <2>4. written - 1 + 1 = written /\ Len(x) = written
      BY <1>2, <2>3, SMT
    <2> QED BY <1>3, <2>1, <2>3, <2>4
  <1>8. /\ y \in Seq(B) /\ Len(y) = I - written
        /\ \A k \in 1..I - written : y[k] = Blank
    <2>1. I - written \in Nat /\ y \in [1..I - written -> B]
      BY <1>1, <1>2
    <2> QED BY <2>1, FunctionIsSeq
  <1>9. x \in Seq(B)
    BY <1>7
  <1> HIDE DEF r, x, y, z, B
  <1>10. /\ x \o y \in Seq(B) /\ Len(x \o y) = Len(x) + Len(y)
         /\ \A k \in 1..Len(x) + Len(y) : (x \o y)[k] = IF k <= Len(x) THEN x[k] ELSE y[k - Len(x)]
    BY <1>8, <1>9, ConcatProperties
  <1>11. Len(x) = written /\ Len(x) + Len(y) = I
    BY <1>1, <1>2, <1>7, <1>8
  <1>12. \A k \in 1..I : r[k] = (x \o y)[k]
    <2> SUFFICES ASSUME NEW k \in 1..I PROVE r[k] = (x \o y)[k]
      OBVIOUS
    <2>1. r[k] = IF k <= written THEN PlainOf(transfer, k) ELSE Blank
      BY <1>6
    <2>2. (x \o y)[k] = IF k <= written THEN x[k] ELSE y[k - written]
      BY <1>10, <1>11
    <2>3. CASE k <= written
      <3>1. k \in 1..written
        BY <1>2, <2>3
      <3> QED BY <1>7, <2>1, <2>2, <2>3, <3>1
    <2>4. CASE ~(k <= written)
      <3>1. k - written \in 1..I - written
        BY <1>2, <2>4
      <3> QED BY <1>8, <2>1, <2>2, <2>4, <3>1
    <2> QED BY <2>3, <2>4
  <1>13. r = x \o y
    <2> HIDE DEF f
    <2> QED BY <1>6, <1>10, <1>11, <1>12, SeqEqual
  <1>14. flashBuf.buf = z
    <2> DEFINE l == Len(flashBuf.buf)
    <2>1. \A k \in written + 1..payload : k \in 1..size
      BY <1>1, <1>2, SMT
    <2>2. \A k \in written + 1..payload : PlainText[k] \in StreamByte
      BY <1>3, <2>1
    <2>3. /\ z \in Seq(StreamByte)
          /\ Len(z) = IF written + 1 <= payload THEN payload - (written + 1) + 1 ELSE 0
          /\ \A k \in 1..payload - (written + 1) + 1 : z[k] = PlainText[written + 1 + k - 1]
      BY <1>2, <2>2, SubSeqProperties DEF z
    <2> HIDE DEF l
    <2>4. l \in Nat /\ written + l = payload
      BY <1>1, <1>2 DEF l
    <2>5. payload - (written + 1) + 1 = l /\ Len(z) = l
      BY <1>2, <2>3, <2>4, SMT
    <2>6. \A k \in 1..l : written + 1 + k - 1 = written + k /\ written + k \in 1..size
      BY <1>1, <1>2, <2>4, SMT
    <2>7. \A k \in 1..l : z[k] = PlainOf(transfer, written + k)
      BY <1>3, <2>3, <2>5, <2>6
    <2>8. \A k \in 1..l : flashBuf.buf[k] = z[k]
      BY <1>1, <2>7 DEF l
    <2> QED BY <1>2, <2>3, <2>5, <2>8, SeqEqual DEF l
  <1> QED BY <1>13, <1>14 DEF r, x, y, z

(* At every moment of the payload, the slot and the flash buffer hold the  *)
(* plaintext received so far, each byte once and in its place, and the     *)
(* rest of the slot is erased.                                             *)
THEOREM FlashFollows == Spec => []FlashFollowsStream
  BY FlashOfInvariant, Inductive, PTL

(* When the last frame is in, the image can be read back whole.            *)
LEMMA ImageRead ==
    ASSUME PathInv, phase \in {"manifest", "done"}
    PROVE  LET data == Read(APP_B_START_ADDR, size) IN
             /\ data \in Seq(StreamByte) /\ Len(data) = size
             /\ \A k \in 1..size : data[k] = PlainOf(transfer, k)
  <1> DEFINE S == APP_B_START_ADDR
             I == APP_B_IMAGE_SIZE
             f == [k \in 1..size |-> PlainOf(transfer, k)]
  <1>1. written = size /\ Busy /\ Typed /\ ImageIn(mem, transfer, size)
    BY DEF PathInv, Buffered, Flash, Busy
  <1>2. /\ S \in Nat /\ I \in Nat /\ I <= APP_B_SIZE /\ APP_B_SIZE \in Nat
        /\ transfer \in Nat /\ size \in Nat /\ size <= I
    BY <1>1, Sizes DEF Typed
  <1>3. Lies(S, size, f)
    <2> SUFFICES ASSUME NEW k \in 1..size PROVE mem[S + k - 1] = f[k]
      BY DEF Lies
    <2>1. f[k] = PlainOf(transfer, k)
      OBVIOUS
    <2> DEFINE a == S + k - 1
    <2> HIDE DEF f, S, I
    <2>2. a \in Nat /\ S <= a /\ a < S + I /\ a < S + APP_B_SIZE /\ a - S + 1 = k /\ a < S + size
      BY <1>2, SMT
    <2> HIDE DEF a
    <2>3. a \in Address
      BY <2>2, SlotAddress DEF S
    <2>4. mem[a] = IF a < S + size THEN PlainOf(transfer, a - S + 1) ELSE Blank
      BY <1>1, <2>2, <2>3 DEF ImageIn, S, I
    <2> QED BY <2>1, <2>2, <2>4 DEF a
  <1>4. \A k \in 1..size : f[k] \in StreamByte /\ f[k] = PlainOf(transfer, k)
    BY <1>2, ByteTyped
  <1> HIDE DEF S, f
  <1>5. /\ Read(S, size) \in Seq(StreamByte) /\ Len(Read(S, size)) = size
        /\ \A k \in 1..size : Read(S, size)[k] = f[k]
    <2>1. size \in Nat /\ \A k \in 1..size : f[k] \in StreamByte
      BY <1>2, <1>4
    <2> QED BY <1>3, <2>1, ReadForm
  <1>6. \A k \in 1..size : Read(S, size)[k] = PlainOf(transfer, k)
    BY <1>4, <1>5
  <1> QED BY <1>5, <1>6 DEF S

(* What left the SHA-256 buffer, padded, is the padded image.              *)
LEMMA HashOfInvariant == PathInv => HashIsOfImage
  <1> SUFFICES ASSUME PathInv, phase \in {"manifest", "done"}
               PROVE  ShaFinal(sha, size) = ShaReference(Read(APP_B_START_ADDR, size))
    BY DEF HashIsOfImage
  <1> DEFINE data == Read(APP_B_START_ADDR, size)
             none == 0
             w == PlainStream(transfer)
  <1>1. data \in Seq(StreamByte) /\ Len(data) = size /\ \A k \in 1..size : data[k] = PlainOf(transfer, k)
    BY ImageRead
  <1>2. /\ payload = size /\ Busy /\ Typed /\ CutAfter(sha, none, w, payload, ShaBlock)
    BY DEF PathInv, Buffered, Streams, Busy
  <1>3. /\ sha \in Buffer(StreamByte) /\ size \in Nat /\ transfer \in Nat /\ none \in Nat
        /\ ShaBlock \in Nat \ {0}
    BY <1>2, Sizes DEF Typed
  <1>4. \A k \in 1..size : w[k] = data[k]
    <2>1. \A k \in 1..size : k \in Nat
      OBVIOUS
    <2>2. \A k \in Nat : w[k] = PlainOf(transfer, k)
      BY Zenon DEF PlainStream
    <2> HIDE DEF w, data
    <2> QED BY <1>1, <2>1, <2>2, Zenon
  <1>5. none = 0
    OBVIOUS
  <1> HIDE DEF data, none, w
  <1>6. CutAfter(sha, none, data, size, ShaBlock)
    BY <1>2, <1>3, <1>4, SameStreamAfter
  <1>7. CutAfter(sha, 0, data, Len(data), ShaBlock)
    BY <1>1, <1>5, <1>6
  <1>8. Zero \in StreamByte /\ Mark \in StreamByte /\ LengthOf(Len(data)) \in StreamByte
    BY <1>1, <1>3, ByteTyped
  <1>9. ShaFinal(sha, Len(data)) = ShaReference(data)
    BY <1>1, <1>3, <1>7, <1>8, ShaFinalIsReference
  <1> QED BY <1>1, <1>9 DEF data

(* The digest that is compared with the header while the image streams in  *)
(* is the SHA-256 of what the secure boot check will read from the flash.  *)
THEOREM HashMatches == Spec => []HashIsOfImage
  BY HashOfInvariant, Inductive, PTL

(* What left the GHASH buffer, padded, is masked header and ciphertext.    *)
LEMMA TagOfInvariant == PathInv => TagIsOfStream
  <1> SUFFICES ASSUME PathInv, phase \in {"manifest", "done"}
               PROVE  GcmFinal(ghash, HeaderSize, payload) = GhashReference
    BY DEF TagIsOfStream
  <1> DEFINE w == CipherStream(transfer)
             data == CipherText
             a == AadBlocks
  <1>1. /\ payload = size /\ Busy /\ Typed /\ \A i \in 1..Len(a) : ghash.out[i] = a[i]
        /\ CutAfter(ghash, Len(a), w, payload, GcmBlock)
    BY DEF PathInv, Buffered, Streams, Busy
  <1>2. header \in Seq(StreamByte) /\ Len(header) = HeaderSize
    <2>1. header \in Seq(StreamByte) /\ Len(header) \in Nat
      BY <1>1, LenProperties DEF Typed
    <2>2. Len(header) <= HeaderSize /\ (Len(header) < HeaderSize => Len(signature) = 0)
      BY DEF PathInv, Position
    <2>3. Len(signature) = SignatureSize /\ SignatureSize # 0 /\ HeaderSize \in Nat
      BY <1>1, Sizes DEF Busy
    <2> QED BY <2>1, <2>2, <2>3
  <1>3. a \in Seq(Seq(StreamByte)) /\ Len(a) \in Nat
    BY <1>2, AadBlocksTyped
  <1>4. data \in Seq(StreamByte) /\ Len(data) = size /\ \A k \in 1..size : w[k] = data[k]
    BY <1>1, CipherForm
  <1>5. ghash \in Buffer(StreamByte) /\ size \in Nat /\ HeaderSize \in Nat /\ GcmBlock \in Nat \ {0}
    BY <1>1, Sizes DEF Typed
  <1> HIDE DEF w, data, a
  <1>6. CutAfter(ghash, Len(a), w, size, GcmBlock)
    BY <1>1
  <1>7. CutAfter(ghash, Len(a), data, size, GcmBlock)
    BY <1>3, <1>4, <1>5, <1>6, SameStreamAfter
  <1>8. CutAfter(ghash, Len(a), data, Len(data), GcmBlock)
    BY <1>4, <1>7
  <1>9. GcmFinal(ghash, HeaderSize, size) =
          a \o Blocks(ZeroPadded(data, GcmBlock), GcmBlock) \o << <<LengthOf(HeaderSize), LengthOf(size)>> >>
    <2>1. \A i \in 1..Len(a) : ghash.out[i] = a[i]
      BY <1>1
    <2>2. a \in Seq(Seq(StreamByte)) /\ data \in Seq(StreamByte)
      BY <1>3, <1>4
    <2> QED BY <1>5, <1>8, <2>1, <2>2, GcmFinalForm, ZenonT(60)
  <1> QED BY <1>1, <1>9 DEF a, data, AadBlocks, GhashReference

(* The tag is computed over the masked header and the whole ciphertext, as *)
(* AES-GCM defines it for the two taken at once.                           *)
THEOREM TagMatches == Spec => []TagIsOfStream
  BY TagOfInvariant, Inductive, PTL

(* What StoredAt says, in the words of the property.                       *)
LEMMA ReadsStream ==
    ASSUME NEW address, NEW first \in Nat, NEW n \in Nat, StoredAt(mem, transfer, address, first, n)
    PROVE  Read(address, n) = StreamPart(first + 1, n)
  <1>1. \A k \in 1..n : mem[address + k - 1] = CipherOf(transfer, first + k)
    BY DEF StoredAt
  <1>2. \A k \in 1..n : first + 1 + k - 1 = first + k
    BY SMT
  <1>3. \A k \in 1..n : mem[address + k - 1] = CipherOf(transfer, first + 1 + k - 1)
    BY <1>1, <1>2, Zenon
  <1>4. Read(address, n) = [k \in 1..n |-> mem[address + k - 1]]
    BY DEF Read
  <1>5. StreamPart(first + 1, n) = [k \in 1..n |-> CipherOf(transfer, first + 1 + k - 1)]
    BY Zenon DEF StreamPart, Cipher, CipherOf
  <1> QED BY <1>3, <1>4, <1>5, Zenon

(* What WriteManifest stored is what the property reads.                   *)
LEMMA ManifestOfInvariant == PathInv => ManifestReadsBack
  <1> SUFFICES ASSUME PathInv, phase = "done"
               PROVE  /\ Read(APP_B_MANIFEST_ADDR, HeaderSize) = StreamPart(1, HeaderSize)
                      /\ Read(APP_B_MANIFEST_ADDR + SignatureOffset, SignatureSize) =
                            StreamPart(HeaderSize + 1, SignatureSize)
    BY DEF ManifestReadsBack
  <1>1. /\ StoredAt(mem, transfer, APP_B_MANIFEST_ADDR, 0, HeaderSize)
        /\ StoredAt(mem, transfer, APP_B_MANIFEST_ADDR + SignatureOffset, HeaderSize, SignatureSize)
    BY DEF PathInv, Flash
  <1>2. HeaderSize \in Nat /\ SignatureSize \in Nat
    BY Sizes
  <1>3. Read(APP_B_MANIFEST_ADDR, HeaderSize) = StreamPart(0 + 1, HeaderSize)
    <2> DEFINE none == 0
    <2>1. none \in Nat /\ StoredAt(mem, transfer, APP_B_MANIFEST_ADDR, none, HeaderSize)
      BY <1>1
    <2> HIDE DEF none
    <2>2. Read(APP_B_MANIFEST_ADDR, HeaderSize) = StreamPart(none + 1, HeaderSize)
      BY <1>2, <2>1, ReadsStream
    <2> QED BY <2>2 DEF none
  <1>4. Read(APP_B_MANIFEST_ADDR + SignatureOffset, SignatureSize) =
          StreamPart(HeaderSize + 1, SignatureSize)
    <2> DEFINE there == APP_B_MANIFEST_ADDR + SignatureOffset
    <2>1. StoredAt(mem, transfer, there, HeaderSize, SignatureSize)
      BY <1>1
    <2> HIDE DEF there
    <2>2. Read(there, SignatureSize) = StreamPart(HeaderSize + 1, SignatureSize)
      BY <1>2, <2>1, ReadsStream
    <2> QED BY <2>2 DEF there
  <1>5. 0 + 1 = 1
    OBVIOUS
  <1> QED BY <1>3, <1>4, <1>5

(* A finished transfer leaves the header and the signature in the manifest *)
(* page as they came, and the second write does not disturb the first.     *)
THEOREM ManifestKept == Spec => []ManifestReadsBack
  BY ManifestOfInvariant, Inductive, PTL
=============================================================================
