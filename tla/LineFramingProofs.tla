---- MODULE LineFramingProofs ----
(***************************************************************************)
(* Proofs about LineFraming for any bytes of the agent, cut into chunks of *)
(* any bounded size, and any max_read: what the reader holds of a line.    *)
(***************************************************************************)
EXTENDS LineFraming, FiniteSetTheorems, SequenceTheorems, WellFoundedInduction, TLAPS

Bytes == {"x", "nl"}

\* Before a session reads, nothing was read.
FreshInv == /\ stage = "importing" => place \in Places /\ text \in Files
            /\ stage = "serving" => /\ defaults["max_read"] \in Int
                                    /\ defaults["stderr_tail_buffer_size"] \in Int
            /\ stage \in {"importing", "serving", "refused"} => buffer = <<>> /\ ~paused

\* While the transport runs, no more than twice the limit is buffered.
FlowInv == stage = "reading" =>
             /\ limit \in Nat
             /\ Len(buffer) <= 2 * limit + MaxChunk
             /\ ~paused => Len(buffer) <= 2 * limit

StreamType == buffer \in Seq(Bytes) /\ pipe \in Seq(Bytes) /\ paused \in BOOLEAN

FramingInv == StreamType /\ FreshInv /\ FlowInv

(***************************************************************************)
(* The operators                                                           *)
(***************************************************************************)
\* A set of indices that is not empty has a least one: it is the end of the
\* smallest of the intervals that end in the set.
LEMMA LeastIndex ==
  ASSUME NEW n \in Nat, NEW S \in SUBSET (1 .. n), S # {}
  PROVE  Min(S) \in S /\ \A y \in S : Min(S) <= y
<1> DEFINE all == 1 .. n
           ends == {1 .. x : x \in S}
<1>1. IsFiniteSet(all)
  BY FS_Interval
<1>2. IsWellFoundedOn(StrictSubsetOrdering(all), FiniteSubsetsOf(all))
  BY FS_StrictSubsetOrderingWellFounded
<1>3. FiniteSubsetsOf(all) = SUBSET all
  BY <1>1, FS_FiniteSubsetsOfFinite
<1>4. ends \subseteq SUBSET all /\ ends # {}
  <2>1. PICK x \in S : TRUE
    OBVIOUS
  <2>2. 1 .. x \in ends
    BY <2>1
  <2>3. \A y \in S : 1 .. y \subseteq all
    OBVIOUS
  <2> QED BY <2>2, <2>3
<1> HIDE DEF ends
<1>5. PICK e \in ends : \A d \in ends : ~ (<<d, e>> \in StrictSubsetOrdering(all))
  BY <1>2, <1>3, <1>4, WFMin
<1>6. PICK x \in S : e = 1 .. x
  BY DEF ends
<1>7. ASSUME NEW y \in S, y < x PROVE FALSE
  <2>1. 1 .. y \in ends
    BY DEF ends
  <2>2. 1 .. y \subseteq 1 .. x /\ x \in 1 .. x /\ x \notin 1 .. y
    BY <1>7
  <2>3. <<1 .. y, e>> \in StrictSubsetOrdering(all)
    BY <1>6, <2>2 DEF StrictSubsetOrdering
  <2> QED BY <1>5, <2>1, <2>3
<1>8. \A y \in S : x <= y
  BY <1>7
<1> QED BY <1>8 DEF Min

\* The reader looks at a number of bytes.
LEMMA ScannedIsNat == buffer \in Seq(Bytes) => Scanned \in Nat
<1> SUFFICES ASSUME buffer \in Seq(Bytes) PROVE Scanned \in Nat
  OBVIOUS
<1>1. Newlines(buffer) \in SUBSET (1 .. Len(buffer))
  BY DEF Newlines
<1>2. CASE Newlines(buffer) # {}
  <2>1. Len(buffer) \in Nat
    OBVIOUS
  <2>2. Min(Newlines(buffer)) \in Newlines(buffer)
    BY <1>1, <1>2, <2>1, LeastIndex
  <2>3. Min(Newlines(buffer)) - 1 \in Nat
    BY <1>1, <2>1, <2>2
  <2> QED BY <1>2, <2>3 DEF Scanned
<1>3. CASE Newlines(buffer) = {}
  BY <1>3 DEF Scanned
<1> QED BY <1>2, <1>3

\* What is left of a stream when its first bytes are gone.
LEMMA DroppingBytes ==
  ASSUME NEW s \in Seq(Bytes), NEW n \in Nat
  PROVE  /\ SubSeq(s, n + 1, Len(s)) \in Seq(Bytes)
         /\ Len(SubSeq(s, n + 1, Len(s))) <= Len(s)
         /\ Len(SubSeq(s, n + 1, Len(s))) \in Nat
OBVIOUS

(***************************************************************************)
(* The configuration file                                                  *)
(***************************************************************************)
\* Each line is parsed with what the lines before it have come to.
LEMMA ParsedByLine ==
  ASSUME NEW lines \in Seq(LineTokens)
  PROVE  /\ Parsed(lines)[0] = <<>>
         /\ \A n \in 1..Len(lines) : Parsed(lines)[n] = ParseLine(Parsed(lines)[n - 1], lines[n])
<1> DEFINE Upto(m, g) ==
             g = [n \in 0..m |-> IF n = 0 THEN <<>> ELSE ParseLine(g[n - 1], lines[n])]
           missing == {m \in 0..Len(lines) : \A g : ~Upto(m, g)}
<1>1. Len(lines) \in Nat
  OBVIOUS
<1>2. missing \in SUBSET (1..Len(lines))
  <2> DEFINE empty == [n \in 0..0 |-> <<>>]
  <2>1. Upto(0, empty)
    <3>1. \A n \in 0..0 : n = 0
      OBVIOUS
    <3> HIDE DEF empty
    <3>2. empty = [n \in 0..0 |-> IF n = 0 THEN <<>> ELSE ParseLine(empty[n - 1], lines[n])]
      BY <3>1 DEF empty
    <3> QED BY <3>2
  <2>2. 0 \notin missing
    BY <2>1
  <2>3. \A i : i \in 0..Len(lines) /\ i # 0 => i \in 1..Len(lines)
    BY <1>1
  <2> QED BY <2>2, <2>3
<1>3. ASSUME missing # {} PROVE FALSE
  <2> DEFINE m == Min(missing)
  <2> HIDE DEF missing
  <2>1. m \in missing /\ \A y \in missing : m <= y
    BY <1>1, <1>2, <1>3, LeastIndex
  <2> HIDE DEF m
  <2>2. m \in 1..Len(lines)
    BY <1>2, <2>1
  <2>3. m - 1 \in 0..Len(lines) /\ m - 1 \notin missing /\ m - 1 \in 0..m - 1
    BY <1>1, <2>1, <2>2
  <2>4. PICK g : Upto(m - 1, g)
    BY <2>3 DEF missing
  <2> DEFINE h == [n \in 0..m |-> IF n = m THEN ParseLine(g[m - 1], lines[m]) ELSE g[n]]
  <2>5. \A n \in 0..m - 1 : /\ h[n] = g[n] /\ n \in 0..m
                            /\ g[n] = IF n = 0 THEN <<>> ELSE ParseLine(g[n - 1], lines[n])
    <3>1. \A n \in 0..m - 1 : n \in 0..m /\ n # m
      BY <2>2
    <3> QED BY <2>4, <3>1
  <2>6. ASSUME NEW n \in 0..m
        PROVE  h[n] = IF n = 0 THEN <<>> ELSE ParseLine(h[n - 1], lines[n])
    <3>1. CASE n = m
      <4>1. h[n] = ParseLine(g[n - 1], lines[n]) /\ n # 0
        BY <2>2, <3>1
      <4>2. h[n - 1] = g[n - 1]
        BY <2>3, <2>5, <3>1
      <4> QED BY <4>1, <4>2
    <3>2. CASE n # m
      <4>1. n \in 0..m - 1
        BY <2>2, <3>2
      <4>2. n # 0 => h[n - 1] = g[n - 1]
        <5>1. n # 0 => n - 1 \in 0..m - 1
          BY <2>2, <4>1
        <5> QED BY <2>5, <5>1
      <4> QED BY <2>5, <4>1, <4>2
    <3> QED BY <3>1, <3>2
  <2>7. h = [n \in 0..m |-> h[n]]
    OBVIOUS
  <2> HIDE DEF h
  <2>8. Upto(m, h)
    BY <2>6, <2>7
  <2> QED BY <2>1, <2>8 DEF missing
<1>4. \E g : Upto(Len(lines), g)
  BY <1>1, <1>3
<1>5. Upto(Len(lines), Parsed(lines))
  BY <1>4 DEF Parsed
<1> HIDE DEF missing
<1>6. \A n \in 0..Len(lines) :
        Parsed(lines)[n] = IF n = 0 THEN <<>> ELSE ParseLine(Parsed(lines)[n - 1], lines[n])
  BY <1>5
<1>7. 0 \in 0..Len(lines) /\ \A n \in 1..Len(lines) : n \in 0..Len(lines) /\ n # 0
  BY <1>1
<1> QED BY <1>6, <1>7

\* The lines up to n that are not blank say something each, of keys of their own.
Says(lines, n) == {i \in 1..n : lines[i].form # "blank"}
Passes(l) == l.form = "entry" /\ l.key \in KnownKeys /\ WellFormed(l.key, l.value)
ClearTo(lines, n) ==
  /\ \A i \in Says(lines, n) : Passes(lines[i])
  /\ \A i, j \in Says(lines, n) : lines[i].key = lines[j].key => i = j

\* What they come to is what they say, or a refusal.
ParsedTo(lines, n) ==
  LET r == Parsed(lines)[n]
  IN IF ClearTo(lines, n)
     THEN /\ r = [k \in DOMAIN r |-> r[k]]
          /\ DOMAIN r = {lines[i].key : i \in Says(lines, n)}
          /\ \A i \in Says(lines, n) : r[lines[i].key] = Converted(lines[i].key, lines[i].value)
     ELSE IsRefused(r)

\* No key is the mark of a refusal.
LEMMA KeysAreNoRefusal == "refused" \notin KnownKeys /\ IsRefused(Refused)
BY DEF KnownKeys, NumberKeys, ByteKeys, PlainIntegerKeys, SecondsKeys, IsRefused, Refused

\* One line more.
LEMMA ParsedOneMore ==
  ASSUME NEW lines \in Seq(LineTokens), NEW n \in 1..Len(lines), ParsedTo(lines, n - 1)
  PROVE  ParsedTo(lines, n)
<1> DEFINE r == Parsed(lines)[n - 1]
           q == Parsed(lines)[n]
           l == lines[n]
<1>1. q = ParseLine(r, l)
  BY ParsedByLine
<1>2. Says(lines, n) = Says(lines, n - 1) \cup (IF l.form = "blank" THEN {} ELSE {n})
  <2>1. \A i : i \in 1..n <=> i \in 1..n - 1 \/ i = n
    OBVIOUS
  <2> QED BY <2>1 DEF Says
<1>3. n \notin Says(lines, n - 1) /\ Says(lines, n - 1) \subseteq 1..n - 1
  BY DEF Says
<1> HIDE DEF r, q, l
<1>4. CASE ~ClearTo(lines, n - 1)
  <2>1. IsRefused(r)
    BY <1>4 DEF ParsedTo, r
  <2>2. IsRefused(q)
    BY <1>1, <2>1, KeysAreNoRefusal DEF ParseLine
  <2>3. ~ClearTo(lines, n)
    BY <1>2, <1>4 DEF ClearTo
  <2> QED BY <2>2, <2>3 DEF ParsedTo, q
<1>5. CASE ClearTo(lines, n - 1)
  <2>1. /\ r = [k \in DOMAIN r |-> r[k]]
        /\ DOMAIN r = {lines[i].key : i \in Says(lines, n - 1)}
        /\ \A i \in Says(lines, n - 1) : r[lines[i].key] = Converted(lines[i].key, lines[i].value)
    BY <1>5 DEF ParsedTo, r
  <2>2. ~IsRefused(r)
    BY <1>5, <2>1, KeysAreNoRefusal DEF ClearTo, Passes, IsRefused
  <2>3. CASE l.form = "blank"
    <3>1. q = r /\ Says(lines, n) = Says(lines, n - 1)
      BY <1>1, <1>2, <2>2, <2>3 DEF ParseLine
    <3>2. ClearTo(lines, n)
      BY <1>5, <3>1 DEF ClearTo
    <3> QED BY <2>1, <3>1, <3>2 DEF ParsedTo, q
  <2>4. CASE l.form # "blank" /\ Passes(l) /\ l.key \notin DOMAIN r
    <3>1. q = With(r, l.key, Converted(l.key, l.value))
      BY <1>1, <2>2, <2>4 DEF ParseLine, Passes
    <3>2. Says(lines, n) = Says(lines, n - 1) \cup {n}
      BY <1>2, <2>4
    <3>3. \A i \in Says(lines, n - 1) : lines[i].key # l.key
      BY <2>1, <2>4
    <3>4. ClearTo(lines, n)
      BY <1>5, <2>4, <3>2, <3>3 DEF ClearTo, l
    <3>5. /\ DOMAIN q = DOMAIN r \cup {l.key} /\ q = [k \in DOMAIN q |-> q[k]]
          /\ q[l.key] = Converted(l.key, l.value) /\ \A k \in DOMAIN r : q[k] = r[k]
      BY <2>4, <3>1 DEF With
    <3>6. DOMAIN q = {lines[i].key : i \in Says(lines, n)}
      BY <2>1, <3>2, <3>5 DEF l
    <3>7. \A i \in Says(lines, n) : q[lines[i].key] = Converted(lines[i].key, lines[i].value)
      BY <2>1, <3>2, <3>5 DEF l
    <3> QED BY <3>4, <3>5, <3>6, <3>7 DEF ParsedTo, q
  <2>5. CASE l.form # "blank" /\ ~(Passes(l) /\ l.key \notin DOMAIN r)
    <3>1. IsRefused(q)
      BY <1>1, <2>2, <2>5, KeysAreNoRefusal DEF ParseLine, Passes
    <3>2. n \in Says(lines, n) /\ Says(lines, n - 1) \subseteq Says(lines, n)
      BY <1>2, <2>5
    <3>3. ~ClearTo(lines, n)
      <4>1. CASE ~Passes(l)
        BY <3>2, <4>1 DEF ClearTo, l
      <4>2. CASE l.key \in DOMAIN r
        <5>1. PICK i \in Says(lines, n - 1) : lines[i].key = l.key
          BY <2>1, <4>2
        <5> QED BY <1>3, <3>2, <5>1 DEF ClearTo, l
      <4> QED BY <2>5, <4>1, <4>2
    <3> QED BY <3>1, <3>3 DEF ParsedTo, q
  <2> QED BY <2>3, <2>4, <2>5
<1> QED BY <1>4, <1>5

\* The whole file: there is no first line at which it goes wrong.
LEMMA ParsedAsWritten ==
  ASSUME NEW lines \in Seq(LineTokens)
  PROVE  ParsedTo(lines, Len(lines))
<1> DEFINE wrong == {n \in 1..Len(lines) : ~ParsedTo(lines, n)}
<1>1. Len(lines) \in Nat
  OBVIOUS
<1>2. ParsedTo(lines, 0)
  <2>1. Says(lines, 0) = {}
    BY DEF Says
  <2>2. Parsed(lines)[0] = <<>>
    BY ParsedByLine
  <2>3. DOMAIN <<>> = {} /\ <<>> = [k \in {} |-> <<>>[k]]
    OBVIOUS
  <2> QED BY <2>1, <2>2, <2>3 DEF ParsedTo, ClearTo
<1>3. ASSUME wrong # {} PROVE FALSE
  <2> DEFINE m == Min(wrong)
  <2>1. m \in wrong /\ \A y \in wrong : m <= y
    BY <1>1, <1>3, LeastIndex
  <2> HIDE DEF m
  <2>2. m \in 1..Len(lines) /\ ~ParsedTo(lines, m)
    BY <2>1
  <2>3. m - 1 \notin wrong
    BY <2>1, <2>2
  <2>4. m - 1 = 0 \/ m - 1 \in 1..Len(lines)
    BY <2>2
  <2>5. ParsedTo(lines, m - 1)
    BY <1>2, <2>3, <2>4
  <2> QED BY <2>2, <2>5, ParsedOneMore
<1>4. CASE Len(lines) = 0
  BY <1>2, <1>4
<1>5. CASE Len(lines) # 0
  BY <1>1, <1>3, <1>5
<1> QED BY <1>4, <1>5

\* The keys are of three kinds, apart from approval_mode.
LEMMA KindsOfKeys ==
  /\ \A k : k \in KnownKeys <=> \/ k = "approval_mode" \/ k \in PlainIntegerKeys
                                \/ k \in SecondsKeys \/ k \in ByteKeys
  /\ \A k \in PlainIntegerKeys : k # "approval_mode" /\ k \notin SecondsKeys /\ k \notin ByteKeys
  /\ \A k \in SecondsKeys : k # "approval_mode" /\ k \notin ByteKeys
  /\ \A k \in ByteKeys : k # "approval_mode"
BY DEF KnownKeys, NumberKeys, PlainIntegerKeys, SecondsKeys, ByteKeys

\* A number of a unit is a number, and zero of it is nothing.
LEMMA UnitsAreNumbers ==
  ASSUME NEW n \in Nat
  PROVE  /\ n * KiB \in Nat /\ n * KiB * KiB \in Nat /\ n * KiB * KiB * KiB \in Nat
         /\ n * KiB > 0 <=> n > 0
         /\ n * KiB * KiB > 0 <=> n > 0
         /\ n * KiB * KiB * KiB > 0 <=> n > 0
         /\ n * (KiB * KiB) = n * KiB * KiB
         /\ n * (KiB * KiB * KiB) = n * KiB * KiB * KiB
<1>1. KiB \in Nat /\ KiB > 0
  BY SettingsAssumption
<1>2. \A x, y \in Nat : x * y \in Nat
  OBVIOUS
<1>3. \A x, y \in Nat : y > 0 => (x * y > 0 <=> x > 0)
  OBVIOUS
<1>4. \A x, y, z \in Nat : x * (y * z) = x * y * z
  OBVIOUS
<1>5. n * KiB \in Nat /\ n * KiB * KiB \in Nat /\ n * KiB * KiB * KiB \in Nat /\ KiB * KiB \in Nat
  BY <1>1, <1>2
<1>6. /\ n * KiB > 0 <=> n > 0
      /\ n * KiB * KiB > 0 <=> n * KiB > 0
      /\ n * KiB * KiB * KiB > 0 <=> n * KiB * KiB > 0
  BY <1>1, <1>3, <1>5
<1>7. n * (KiB * KiB) = n * KiB * KiB
  BY <1>1, <1>4
<1>8. n * (KiB * KiB * KiB) = n * (KiB * KiB) * KiB
  BY <1>1, <1>4, <1>5
<1> QED BY <1>5, <1>6, <1>7, <1>8

\* What a line that passes comes to: the amount it says, a number unless it is
\* the approval mode, and valid when the line is.
LEMMA LineIsConverted ==
  ASSUME NEW l \in LineTokens, Passes(l)
  PROVE  LET c == Converted(l.key, l.value)
         IN /\ c = Amount(l.key, l.value)
            /\ l.key \in NumberKeys => c \in Int
            /\ Valid(l.key, c) <=> ValidLine(l)
<1> DEFINE k == l.key
           v == l.value
           c == Converted(l.key, l.value)
<1>1. v \in Tokens /\ v.n \in Nat /\ v.fraction \in BOOLEAN
  BY DEF LineTokens, Tokens
<1>2. k \in KnownKeys /\ WellFormed(k, v) /\ l.form = "entry"
  BY DEF Passes
<1>3. CASE k = "approval_mode"
  <2>1. c = v.word /\ Amount(k, v) = v.word /\ k \notin NumberKeys
    BY <1>3 DEF Converted, Amount, NumberKeys, ByteKeys, PlainIntegerKeys, SecondsKeys
  <2>2. Valid(k, c) <=> v.word \in ApprovalModes
    BY <1>3, <2>1 DEF Valid
  <2>3. ValidLine(l) <=> v.word \in ApprovalModes
    BY <1>2, <1>3 DEF ValidLine
  <2> QED BY <2>1, <2>2, <2>3
<1>4. CASE k \in PlainIntegerKeys
  <2>1. v.unit = "" /\ ~v.fraction
    BY <1>2, <1>4, KindsOfKeys DEF WellFormed
  <2>2. c = v.n
    BY <1>4, KindsOfKeys DEF Converted
  <2>3. Amount(k, v) = v.n
    BY <1>4, <2>1, KindsOfKeys DEF Amount
  <2>4. Valid(k, c) <=> (k = "stdout_overflow_retry_tolerance" \/ v.n > 0)
    BY <1>1, <1>4, <2>2, KindsOfKeys DEF Valid
  <2>5. ValidLine(l) <=> (k = "stdout_overflow_retry_tolerance" \/ v.n > 0)
    BY <1>2, <1>4, <2>1, KindsOfKeys DEF ValidLine
  <2> QED BY <1>1, <2>2, <2>3, <2>4, <2>5
<1>5. CASE k \in SecondsKeys
  <2>0. k # "stdout_overflow_retry_tolerance" /\ k # "approval_mode"
    BY <1>5 DEF SecondsKeys
  <2>1. c = 2 * v.n + (IF v.fraction THEN 1 ELSE 0)
    BY <1>5, KindsOfKeys DEF Converted
  <2>2. Amount(k, v) = IF v.fraction THEN 2 * v.n + 1 ELSE 2 * v.n
    BY <1>5, KindsOfKeys DEF Amount
  <2>3. /\ c = Amount(k, v) /\ c \in Int
        /\ c > 0 <=> (v.n > 0 \/ v.fraction)
    <3>1. \A n \in Nat : 2 * n \in Nat /\ 2 * n + 1 \in Nat /\ 2 * n + 0 = 2 * n
                         /\ 2 * n + 1 > 0 /\ (2 * n > 0 <=> n > 0)
      OBVIOUS
    <3>2. CASE v.fraction
      BY <1>1, <2>1, <2>2, <3>1, <3>2
    <3>3. CASE ~v.fraction
      BY <1>1, <2>1, <2>2, <3>1, <3>3
    <3> QED BY <3>2, <3>3
  <2>4. Valid(k, c) <=> c > 0
    BY <2>0 DEF Valid
  <2>5. ValidLine(l) <=> (v.n > 0 \/ v.fraction)
    BY <1>2, <2>0 DEF ValidLine
  <2> QED BY <2>3, <2>4, <2>5
<1>6. CASE k \in ByteKeys
  <2>0. k # "stdout_overflow_retry_tolerance" /\ k # "approval_mode"
    BY <1>6 DEF ByteKeys
  <2>1. v.unit \in {"", "b", "kb", "kib", "mb", "mib", "gb", "gib"} /\ ~v.fraction
    BY <1>2, <1>6, KindsOfKeys DEF WellFormed, Multiplier
  <2>2. c = v.n * Multiplier[IF v.unit = "" THEN "b" ELSE v.unit]
    BY <1>6, KindsOfKeys DEF Converted
  <2>3. Amount(k, v) = CASE v.unit \in {"", "b"} -> v.n
                         [] v.unit \in {"kb", "kib"} -> v.n * KiB
                         [] v.unit \in {"mb", "mib"} -> v.n * KiB * KiB
                         [] v.unit \in {"gb", "gib"} -> v.n * KiB * KiB * KiB
    BY <1>6, KindsOfKeys DEF Amount
  <2>4. c = Amount(k, v) /\ c \in Nat /\ (c > 0 <=> v.n > 0)
    <3>1. /\ Multiplier["b"] = 1
          /\ \A u \in {"kb", "kib"} : Multiplier[u] = KiB
          /\ \A u \in {"mb", "mib"} : Multiplier[u] = KiB * KiB
          /\ \A u \in {"gb", "gib"} : Multiplier[u] = KiB * KiB * KiB
      BY DEF Multiplier
    <3>2. CASE v.unit \in {"", "b"}
      <4>1. c = v.n * 1 /\ Amount(k, v) = v.n
        BY <2>2, <2>3, <3>1, <3>2
      <4> QED BY <1>1, <4>1
    <3>3. CASE v.unit \in {"kb", "kib"}
      <4>1. c = v.n * KiB /\ Amount(k, v) = v.n * KiB
        BY <2>2, <2>3, <3>1, <3>3
      <4> QED BY <1>1, <4>1, UnitsAreNumbers
    <3>4. CASE v.unit \in {"mb", "mib"}
      <4>1. c = v.n * (KiB * KiB) /\ Amount(k, v) = v.n * KiB * KiB
        BY <2>2, <2>3, <3>1, <3>4
      <4> QED BY <1>1, <4>1, UnitsAreNumbers
    <3>5. CASE v.unit \in {"gb", "gib"}
      <4>1. c = v.n * (KiB * KiB * KiB) /\ Amount(k, v) = v.n * KiB * KiB * KiB
        BY <2>2, <2>3, <3>1, <3>5
      <4> QED BY <1>1, <4>1, UnitsAreNumbers
    <3> QED BY <2>1, <3>2, <3>3, <3>4, <3>5
  <2>5. Valid(k, c) <=> c > 0
    BY <2>0 DEF Valid
  <2>6. ValidLine(l) <=> v.n > 0
    BY <1>2, <2>0, <2>1 DEF ValidLine
  <2> QED BY <2>4, <2>5, <2>6
<1> QED BY <1>2, <1>3, <1>4, <1>5, <1>6, KindsOfKeys

\* A file is clear when no line of it is refused, no key is repeated, and every
\* line is valid.
Clear(lines) == ClearTo(lines, Len(lines)) /\ \A i \in Says(lines, Len(lines)) : ValidLine(lines[i])

\* Defaults that are accepted: one for each key, all of them valid.
Accepted(d) == /\ DOMAIN d = KnownKeys
               /\ \A k \in KnownKeys : Valid(k, d[k])
               /\ \A k \in NumberKeys : d[k] \in Int

\* The file is refused unless it is clear, and otherwise its lines are taken at
\* their word.
LEMMA FileIsTakenAtItsWord ==
  ASSUME NEW p \in Places, NEW lines \in Seq(LineTokens), p.found = "text", p.named \/ p.checkout
  PROVE  LET d == LoadDefaults(p, lines)
             said == {lines[i].key : i \in Says(lines, Len(lines))}
         IN IF Clear(lines)
            THEN /\ Accepted(d)
                 /\ \A i \in Says(lines, Len(lines)) :
                      d[lines[i].key] = Amount(lines[i].key, lines[i].value)
                 /\ \A k \in KnownKeys \ said : d[k] = BuiltIn[k]
            ELSE IsRefused(d)
<1> DEFINE d == LoadDefaults(p, lines)
           raw == ParseMapping(lines)
           heard == Says(lines, Len(lines))
           said == {lines[i].key : i \in heard}
           filled == [k \in KnownKeys |-> IF k \in DOMAIN raw THEN raw[k] ELSE BuiltIn[k]]
<1>1. d = IF IsRefused(raw) \/ \E k \in DOMAIN raw : ~Valid(k, raw[k]) THEN Refused ELSE filled
  BY DEF LoadDefaults
<1>2. IF ClearTo(lines, Len(lines))
      THEN /\ DOMAIN raw = said
           /\ \A i \in heard : raw[lines[i].key] = Converted(lines[i].key, lines[i].value)
      ELSE IsRefused(raw)
  BY ParsedAsWritten DEF ParsedTo, ParseMapping
<1>3. \A i \in heard : lines[i] \in LineTokens
  BY DEF Says
<1> HIDE DEF raw, heard
<1>4. CASE ~ClearTo(lines, Len(lines))
  BY <1>1, <1>2, <1>4, KeysAreNoRefusal DEF Clear
<1>5. CASE ClearTo(lines, Len(lines))
  <2>1. \A i \in heard : Passes(lines[i])
    BY <1>5 DEF ClearTo, heard
  <2>2. said \subseteq KnownKeys /\ ~IsRefused(raw)
    BY <1>2, <1>5, <2>1, KeysAreNoRefusal DEF Passes, IsRefused
  <2>3. \A i \in heard :
          LET k == lines[i].key
          IN /\ raw[k] = Amount(k, lines[i].value)
             /\ k \in NumberKeys => raw[k] \in Int
             /\ Valid(k, raw[k]) <=> ValidLine(lines[i])
    BY <1>2, <1>3, <1>5, <2>1, LineIsConverted
  <2>4. (\E k \in DOMAIN raw : ~Valid(k, raw[k])) <=> \E i \in heard : ~ValidLine(lines[i])
    BY <1>2, <1>5, <2>3
  <2>5. CASE \E i \in heard : ~ValidLine(lines[i])
    BY <1>1, <2>4, <2>5, KeysAreNoRefusal DEF Clear, heard
  <2>6. CASE \A i \in heard : ValidLine(lines[i])
    <3>1. d = filled
      BY <1>1, <2>2, <2>4, <2>6
    <3>2. \A k \in KnownKeys : d[k] = IF k \in DOMAIN raw THEN raw[k] ELSE BuiltIn[k]
      BY <3>1
    <3>3. \A i \in heard : d[lines[i].key] = raw[lines[i].key]
      BY <1>2, <1>5, <2>2, <3>2
    <3>4. \A k \in KnownKeys \ said : d[k] = BuiltIn[k]
      BY <1>2, <1>5, <3>2
    <3>5. \A k \in KnownKeys : Valid(k, d[k])
      BY <1>2, <1>5, <2>3, <2>6, <3>3, <3>4, SettingsAssumption
    <3>6. \A k \in NumberKeys : d[k] \in Int
      <4>1. NumberKeys \subseteq KnownKeys
        BY DEF KnownKeys
      <4> QED BY <1>2, <1>5, <2>3, <3>3, <3>4, <4>1, SettingsAssumption
    <3>7. Accepted(d)
      BY <3>1, <3>5, <3>6 DEF Accepted
    <3>8. Clear(lines)
      BY <1>5, <2>6 DEF Clear, heard
    <3> QED BY <2>3, <3>3, <3>4, <3>7, <3>8 DEF heard
  <2> QED BY <2>5, <2>6
<1> QED BY <1>4, <1>5

\* Wherever the file is, or is not: what the server starts with is in order.
LEMMA DefaultsAreAccepted ==
  ASSUME NEW p \in Places, NEW lines \in Seq(LineTokens), ~IsRefused(LoadDefaults(p, lines))
  PROVE  Accepted(LoadDefaults(p, lines))
<1>1. p.named \in BOOLEAN /\ p.checkout \in BOOLEAN /\ p.found \in {"nothing", "unreadable", "text"}
  BY DEF Places
<1>2. CASE p.found = "text" /\ (p.named \/ p.checkout)
  BY <1>2, FileIsTakenAtItsWord
<1>3. CASE ~(p.found = "text" /\ (p.named \/ p.checkout))
  <2>1. LoadDefaults(p, lines) \in {Refused, BuiltIn}
    BY <1>1, <1>3 DEF LoadDefaults
  <2>2. LoadDefaults(p, lines) = BuiltIn
    BY <2>1, KeysAreNoRefusal
  <2> QED BY <2>2, SettingsAssumption DEF Accepted
<1> QED BY <1>2, <1>3

\* The check of a session's config asks no more than that of the file did.
LEMMA AcceptedConfigPasses ==
  ASSUME NEW d, Accepted(d)
  PROVE  ValidateConfig(SessionConfig(d, <<>>))
<1> DEFINE c == SessionConfig(d, <<>>)
<1>1. DOMAIN c = KnownKeys \ ServerKeys /\ \A k \in KnownKeys \ ServerKeys : c[k] = d[k]
  BY DEF SessionConfig
<1> HIDE DEF c
<1>2. {"approval_mode", "stdout_overflow_retry_tolerance"} \subseteq KnownKeys \ ServerKeys
  BY DEF KnownKeys, NumberKeys, PlainIntegerKeys, ServerKeys
<1>3. \A k \in DOMAIN c : Valid(k, c[k])
  BY <1>1 DEF Accepted
<1>4. c["approval_mode"] \in ApprovalModes /\ c["stdout_overflow_retry_tolerance"] >= 0
  BY <1>1, <1>2, <1>3 DEF Valid
<1>5. \A k \in DOMAIN c \ {"approval_mode", "stdout_overflow_retry_tolerance"} : c[k] > 0
  BY <1>3 DEF Valid
<1> QED BY <1>4, <1>5 DEF ValidateConfig, c

(***************************************************************************)
(* The steps                                                               *)
(***************************************************************************)
\* Whoever takes bytes out of the buffer lets the transport go on only when
\* there is room.
LEMMA TakingKeepsInv ==
  ASSUME FramingInv, NEW n \in Nat, Take(n), stage = "reading", stage' \in {"reading", "ended"},
         UNCHANGED <<config, pipe>>
  PROVE  FramingInv'
<1>1. buffer' \in Seq(Bytes) /\ Len(buffer') <= Len(buffer) /\ Len(buffer') \in Nat
  BY DroppingBytes DEF Take, FramingInv, StreamType
<1>2. paused' = (paused /\ Len(buffer') > limit)
  BY DEF Take
<1>3. StreamType'
  BY <1>1, <1>2 DEF FramingInv, StreamType
<1>4. FreshInv'
  BY DEF FreshInv
<1>5. FlowInv'
  <2>1. limit' = limit /\ limit \in Nat /\ MaxChunk \in Nat /\ Len(buffer) \in Nat
    BY FramingAssumption DEF FramingInv, FlowInv, StreamType, limit
  <2>2. Len(buffer') <= 2 * limit + MaxChunk
    BY <1>1, <2>1 DEF FramingInv, FlowInv
  <2>3. ASSUME ~paused' PROVE Len(buffer') <= 2 * limit
    <3>1. CASE ~paused
      BY <1>1, <2>1, <3>1 DEF FramingInv, FlowInv
    <3>2. CASE ~(Len(buffer') > limit)
      BY <1>1, <2>1, <3>2
    <3> QED BY <1>2, <2>3, <3>1, <3>2
  <2> QED BY <2>1, <2>2, <2>3 DEF FlowInv
<1> QED BY <1>3, <1>4, <1>5 DEF FramingInv

\* A chunk may exceed the bound on a running transport, once.
LEMMA FeedingKeepsInv ==
  ASSUME FramingInv, NEW n \in 1 .. MaxChunk, Feed(n)
  PROVE  FramingInv'
<1>1. /\ stage = "reading" /\ ~paused /\ n \in 1 .. Len(pipe)
      /\ buffer' = buffer \o SubSeq(pipe, 1, n)
      /\ pipe' = SubSeq(pipe, n + 1, Len(pipe))
      /\ paused' = (Len(buffer') > 2 * limit)
      /\ UNCHANGED <<stage, config>>
  BY DEF Feed, settings
<1>2. /\ buffer \in Seq(Bytes) /\ pipe \in Seq(Bytes)
      /\ limit \in Nat /\ MaxChunk \in Nat /\ limit' = limit
      /\ Len(buffer) <= 2 * limit
  BY <1>1, FramingAssumption DEF FramingInv, StreamType, FlowInv, limit
<1>3. SubSeq(pipe, 1, n) \in Seq(Bytes) /\ Len(SubSeq(pipe, 1, n)) = n
  BY <1>1, <1>2
<1>4. buffer' \in Seq(Bytes) /\ Len(buffer') = Len(buffer) + n
  BY <1>1, <1>2, <1>3
<1>5. pipe' \in Seq(Bytes)
  BY <1>1, <1>2, DroppingBytes
<1>6. Len(buffer') <= 2 * limit + MaxChunk
  BY <1>2, <1>4
<1>7. StreamType' /\ FreshInv'
  BY <1>1, <1>4, <1>5 DEF StreamType, FreshInv
<1>8. ~paused' => Len(buffer') <= 2 * limit
  <2>1. Len(buffer') \in Nat /\ 2 * limit \in Nat
    BY <1>2, <1>4
  <2>2. paused' <=> Len(buffer') > 2 * limit
    BY <1>1
  <2> QED BY <2>1, <2>2
<1>9. FlowInv'
  BY <1>1, <1>2, <1>6, <1>8 DEF FlowInv
<1> QED BY <1>7, <1>9 DEF FramingInv

\* The limit of a session that reads is a positive number: both the file and
\* create have checked it.
LEMMA SettingsKeepInv ==
  ASSUME FramingInv, Load \/ \E a \in Arguments : Create(a)
  PROVE  FramingInv'
<1>1. CASE Load
  <2>1. stage' \in {"refused", "serving"} /\ UNCHANGED <<buffer, pipe, paused>> /\ stage = "importing"
    BY <1>1 DEF Load, agent, stream
  <2>2. stage' = "serving" => /\ defaults'["max_read"] \in Int
                              /\ defaults'["stderr_tail_buffer_size"] \in Int
    <3>1. place \in Places /\ text \in Seq(LineTokens)
      BY <2>1, FramingAssumption DEF FramingInv, FreshInv
    <3>2. stage' = "serving" => defaults' = LoadDefaults(place, text) /\ ~IsRefused(defaults')
      BY <1>1, <2>1 DEF Load
    <3>3. stage' = "serving" => Accepted(defaults')
      BY <3>1, <3>2, DefaultsAreAccepted
    <3>4. {"max_read", "stderr_tail_buffer_size"} \subseteq NumberKeys
      BY DEF NumberKeys, ByteKeys, PlainIntegerKeys
    <3> QED BY <3>3, <3>4 DEF Accepted
  <2> QED BY <2>1, <2>2 DEF FramingInv, StreamType, FreshInv, FlowInv
<1>2. ASSUME NEW a \in Arguments, Create(a) PROVE FramingInv'
  <2>1. /\ stage = "serving" /\ stage' = "reading"
        /\ ValidateConfig(SessionConfig(defaults, a)) /\ config' = SessionConfig(defaults, a)
        /\ UNCHANGED <<buffer, pipe, paused>>
    BY <1>2 DEF Create, agent, stream
  <2>2. "max_read" \in KnownKeys \ ServerKeys /\ "max_read" \in NumberKeys
    BY DEF KnownKeys, NumberKeys, ByteKeys, ServerKeys
  <2>3. config'["max_read"] \in Int
    BY <2>1, <2>2, FramingAssumption DEF SessionConfig, FramingInv, FreshInv
  <2>4. config'["max_read"] > 0
    BY <2>1, <2>2 DEF ValidateConfig, SessionConfig
  <2>5. buffer' = <<>> /\ ~paused'
    BY <2>1 DEF FramingInv, FreshInv
  <2>6. limit' \in Nat /\ MaxChunk \in Nat
    BY <2>3, <2>4, FramingAssumption DEF limit
  <2>7. FlowInv'
    <3>1. Len(buffer') = 0
      BY <2>5
    <3>2. \A m, n \in Nat : 0 <= 2 * m + n /\ 0 <= 2 * m
      OBVIOUS
    <3>3. Len(buffer') <= 2 * limit' + MaxChunk /\ Len(buffer') <= 2 * limit'
      BY <2>6, <3>1, <3>2
    <3> QED BY <2>6, <3>3 DEF FlowInv
  <2> QED BY <2>1, <2>7 DEF FramingInv, StreamType, FreshInv
<1> QED BY <1>1, <1>2

\* Every step keeps the invariant.
LEMMA FramingStep == FramingInv /\ [Next]_vars => FramingInv'
<1> SUFFICES ASSUME FramingInv, [Next]_vars PROVE FramingInv'
  OBVIOUS
<1>1. CASE UNCHANGED vars
  BY <1>1 DEF vars, settings, agent, stream, reader, FramingInv, StreamType, FreshInv, FlowInv, limit
<1>2. CASE Load \/ \E a \in Arguments : Create(a)
  BY <1>2, SettingsKeepInv
<1>3. ASSUME NEW b \in Bytes, Write(b) PROVE FramingInv'
  <2>1. UNCHANGED <<stage, place, text, defaults, config, buffer, paused>> /\ pipe' = Append(pipe, b)
    BY <1>3 DEF Write, settings, stream
  <2>2. pipe' \in Seq(Bytes)
    BY <2>1 DEF FramingInv, StreamType
  <2> QED BY <2>1, <2>2 DEF FramingInv, StreamType, FreshInv, FlowInv, limit
<1>4. CASE Exit \/ FeedEof
  BY <1>4 DEF Exit, FeedEof, settings, agent, stream, FramingInv, StreamType, FreshInv, FlowInv, limit
<1>5. ASSUME NEW n \in 1 .. MaxChunk, Feed(n) PROVE FramingInv'
  BY <1>5, FeedingKeepsInv
<1>6. CASE Read
  <2>1. Scanned \in Nat /\ Len(buffer) \in Nat
    BY ScannedIsNat DEF FramingInv, StreamType
  <2>2. stage = "reading" /\ stage' \in {"reading", "ended"} /\ UNCHANGED <<config, pipe>>
    BY <1>6 DEF Read, Discard, TakeLine, TakeRest, settings, agent
  <2>3. \E n \in Nat : Take(n)
    <3>1. Scanned + 1 \in Nat
      BY <2>1
    <3>2. CASE Discard
      BY <2>1, <3>2 DEF Discard
    <3>3. CASE TakeLine
      BY <3>1, <3>3 DEF TakeLine
    <3>4. CASE TakeRest
      BY <2>1, <3>4 DEF TakeRest
    <3> QED BY <1>6, <3>2, <3>3, <3>4 DEF Read
  <2> QED BY <2>2, <2>3, TakingKeepsInv
<1> QED BY <1>1, <1>2, <1>3, <1>4, <1>5, <1>6 DEF Next, Transport, Bytes

\* The invariant of the settings and the flow holds throughout.
LEMMA FramingInvariant == Spec => []FramingInv
<1>1. Init => FramingInv
  <2> SUFFICES ASSUME Init PROVE FramingInv
    OBVIOUS
  <2>1. stage = "importing" /\ buffer = <<>> /\ pipe = <<>> /\ paused = FALSE
        /\ place \in Places /\ text \in Files
    BY DEF Init
  <2>2. StreamType
    <3>1. <<>> \in Seq(Bytes)
      OBVIOUS
    <3> QED BY <2>1, <3>1 DEF StreamType
  <2> QED BY <2>1, <2>2 DEF FramingInv, FreshInv, FlowInv
<1> QED BY <1>1, FramingStep, PTL DEF Spec

\* However the agent's bytes are cut into chunks, and though it never writes a
\* newline, the buffer holds at most twice max_read and one chunk.
THEOREM BufferStaysBounded == Spec => []BufferBounded
<1>1. FramingInv => BufferBounded
  BY DEF FramingInv, FlowInv, BufferBounded
<1> QED BY <1>1, FramingInvariant, PTL

\* What the lines of a clear file say is what SaysClearly and LoadedAsWritten
\* say of them.
LEMMA ClearIsClear ==
  ASSUME place \in Places, text \in Seq(LineTokens)
  PROVE  SaysClearly <=> place.found = "text" /\ Clear(text)
<1> DEFINE lines == {i \in DOMAIN text : text[i].form # "blank"}
<1>1. lines = Says(text, Len(text))
  BY DEF Says
<1>2. (\A i \in lines : ValidLine(text[i])) => \A i \in lines : Passes(text[i])
  BY DEF ValidLine, Passes
<1> QED BY <1>1, <1>2 DEF SaysClearly, Clear, ClearTo

\* The server's defaults are what the file says, and no other; a file that is
\* not clear in every line keeps it from starting, and defaults that were
\* accepted are accepted by create.
THEOREM SettingsAreAsWritten == Spec => LoadedAsWritten
<1> DEFINE Loads ==
             IF SaysNothing THEN stage' = "serving" /\ defaults' = BuiltIn
             ELSE IF SaysClearly
             THEN /\ stage' = "serving"
                  /\ \A i \in DOMAIN text : text[i].form = "entry" =>
                       defaults'[text[i].key] = Amount(text[i].key, text[i].value)
                  /\ \A k \in KnownKeys :
                       (\A i \in DOMAIN text : text[i].key # k) => defaults'[k] = BuiltIn[k]
                  /\ ValidateConfig(SessionConfig(defaults', <<>>))
             ELSE stage' = "refused"
<1>1. ASSUME FramingInv, Next, stage = "importing" PROVE Loads
  <2> DEFINE d == LoadDefaults(place, text)
  <2>1. Load
    BY <1>1 DEF Next, Create, Write, Exit, Transport, FeedEof, Feed, Read, Discard, TakeLine, TakeRest
  <2>2. place \in Places /\ text \in Seq(LineTokens)
    BY <1>1, FramingAssumption DEF FramingInv, FreshInv
  <2>3. /\ place.named \in BOOLEAN /\ place.checkout \in BOOLEAN
        /\ place.found \in {"nothing", "unreadable", "text"}
    BY <2>2 DEF Places
  <2>4. /\ IsRefused(d) => stage' = "refused"
        /\ ~IsRefused(d) => stage' = "serving" /\ defaults' = d
    BY <2>1 DEF Load
  <2>5. CASE SaysNothing
    <3>1. d = BuiltIn
      BY <2>3, <2>5 DEF SaysNothing, LoadDefaults
    <3>2. ~IsRefused(d)
      BY <3>1, SettingsAssumption, KeysAreNoRefusal DEF IsRefused
    <3> QED BY <2>4, <2>5, <3>1, <3>2
  <2>6. CASE ~SaysNothing /\ place.found # "text"
    <3>1. d = Refused
      BY <2>3, <2>6 DEF SaysNothing, LoadDefaults
    <3>2. ~SaysClearly
      BY <2>6 DEF SaysClearly
    <3> QED BY <2>4, <2>6, <3>1, <3>2, KeysAreNoRefusal
  <2>7. CASE ~SaysNothing /\ place.found = "text" /\ ~SaysClearly
    <3>1. ~Clear(text) /\ (place.named \/ place.checkout)
      BY <2>2, <2>3, <2>7, ClearIsClear DEF SaysNothing
    <3>2. IsRefused(d)
      BY <2>2, <2>7, <3>1, FileIsTakenAtItsWord
    <3> QED BY <2>4, <2>7, <3>2
  <2>8. CASE ~SaysNothing /\ place.found = "text" /\ SaysClearly
    <3> DEFINE heard == Says(text, Len(text))
               said == {text[i].key : i \in heard}
    <3>1. Clear(text) /\ (place.named \/ place.checkout)
      BY <2>2, <2>3, <2>8, ClearIsClear DEF SaysNothing
    <3>2. /\ Accepted(d)
          /\ \A i \in heard : d[text[i].key] = Amount(text[i].key, text[i].value)
          /\ \A k \in KnownKeys \ said : d[k] = BuiltIn[k]
      BY <2>2, <2>8, <3>1, FileIsTakenAtItsWord
    <3>3. ~IsRefused(d)
      BY <3>2, KeysAreNoRefusal DEF Accepted, IsRefused
    <3>4. stage' = "serving" /\ defaults' = d
      BY <2>4, <3>3
    <3>5. heard \subseteq DOMAIN text
      BY <2>2 DEF Says
    <3>6. \A i \in DOMAIN text : text[i].form = "entry" => i \in heard
      BY <2>2 DEF Says
    <3> HIDE DEF heard, d
    <3>7. \A k \in KnownKeys : (\A i \in DOMAIN text : text[i].key # k) => k \notin said
      BY <3>5
    <3>8. ValidateConfig(SessionConfig(d, <<>>))
      BY <3>2, AcceptedConfigPasses
    <3> QED BY <2>8, <3>2, <3>4, <3>6, <3>7, <3>8
  <2> QED BY <2>5, <2>6, <2>7, <2>8
<1>2. ASSUME FramingInv, [Next]_vars PROVE [stage = "importing" => Loads]_vars
  BY <1>1, <1>2
<1>3. Spec => [][stage = "importing" => Loads]_vars
  BY <1>2, FramingInvariant, PTL DEF Spec
<1> QED BY <1>3 DEF LoadedAsWritten

(***************************************************************************)
(* The lines of a stream                                                   *)
(***************************************************************************)
\* A line ends at a byte of the stream.
LEMMA EndsAreBytes ==
  ASSUME NEW s \in Seq(Bytes), NEW complete \in BOOLEAN
  PROVE  Ends(s, complete) \in SUBSET (1..Len(s)) /\ Len(s) \in Nat
<1>1. Len(s) \in Nat /\ DOMAIN s = 1..Len(s) /\ (s # <<>> => Len(s) \in 1..Len(s))
  OBVIOUS
<1> QED BY <1>1 DEF Ends, Newlines

\* The number of an end is one, at most that of the last,
LEMMA RankIsNat ==
  ASSUME NEW n \in Nat, NEW ends \in SUBSET (1..n), NEW e
  PROVE  /\ IsFiniteSet({i \in ends : i <= e}) /\ IsFiniteSet(ends)
         /\ Rank(ends, e) \in Nat /\ Cardinality(ends) \in Nat
         /\ Rank(ends, e) <= Cardinality(ends)
<1>1. IsFiniteSet(1..n)
  BY FS_Interval
<1>2. IsFiniteSet(ends)
  BY <1>1, FS_Subset
<1>3. {i \in ends : i <= e} \in SUBSET ends
  OBVIOUS
<1> QED BY <1>2, <1>3, FS_Subset, FS_CardinalityType DEF Rank

\* and greater than those of the ends before it,
LEMMA RankIsStrict ==
  ASSUME NEW n \in Nat, NEW ends \in SUBSET (1..n), NEW i \in ends, NEW j \in ends, i < j
  PROVE  Rank(ends, i) < Rank(ends, j)
<1> DEFINE low == {x \in ends : x <= i}
           high == {x \in ends : x <= j}
<1>1. IsFiniteSet(low) /\ IsFiniteSet(high)
  BY RankIsNat
<1>2. low \in SUBSET high /\ j \in high /\ j \notin low
  <2>1. i \in Int /\ j \in Int /\ ends \subseteq Int
    OBVIOUS
  <2>2. \A x \in ends : x <= i => x <= j
    BY <2>1
  <2>3. ~(j <= i) /\ j <= j
    BY <2>1
  <2> QED BY <2>2, <2>3
<1>3. Cardinality(low) <= Cardinality(high) /\ Cardinality(low) # Cardinality(high)
  BY <1>1, <1>2, FS_Subset
<1>4. Rank(ends, i) \in Nat /\ Rank(ends, j) \in Nat
  BY RankIsNat
<1> QED BY <1>3, <1>4 DEF Rank

\* so that it is the only one with its number.
LEMMA NthEndOfRank ==
  ASSUME NEW n \in Nat, NEW ends \in SUBSET (1..n), NEW e \in ends
  PROVE  NthEnd(ends, Rank(ends, e)) = e
<1> DEFINE d == NthEnd(ends, Rank(ends, e))
<1>1. d \in ends /\ Rank(ends, d) = Rank(ends, e)
  BY DEF NthEnd
<1> HIDE DEF d
<1>2. d \in Int /\ e \in Int /\ Rank(ends, d) \in Int /\ Rank(ends, e) \in Int
  <2>1. Rank(ends, d) \in Nat /\ Rank(ends, e) \in Nat
    BY RankIsNat
  <2> QED BY <1>1, <2>1
<1>3. ASSUME d < e PROVE FALSE
  <2>1. Rank(ends, d) < Rank(ends, e)
    BY <1>1, <1>3, RankIsStrict
  <2> QED BY <1>1, <1>2, <2>1
<1>4. ASSUME e < d PROVE FALSE
  <2>1. Rank(ends, e) < Rank(ends, d)
    BY <1>1, <1>4, RankIsStrict
  <2> QED BY <1>1, <1>2, <2>1
<1>5. d = e
  BY <1>2, <1>3, <1>4
<1> QED BY <1>5 DEF d

\* Ends that come later do not change the numbers.
LEMMA LaterEnds ==
  ASSUME NEW n \in Nat, NEW ends \in SUBSET (1..n), NEW m \in Nat, NEW more \in SUBSET (1..m),
         ends \subseteq more, \A x \in more \ ends : \A i \in ends : i < x,
         NEW e \in ends \cup {0}
  PROVE  Rank(more, e) = Rank(ends, e)
<1>1. e \in Int /\ ends \subseteq Int /\ more \subseteq Int /\ \A x \in more : ~(x <= 0)
  OBVIOUS
<1>2. ASSUME NEW x \in more, x <= e PROVE x \in ends
  <2>1. e \in ends
    BY <1>1, <1>2
  <2>2. CASE x \notin ends
    <3>1. e < x
      BY <2>1, <2>2
    <3> QED BY <1>1, <1>2, <3>1
  <2> QED BY <2>2
<1>3. {i \in more : i <= e} = {i \in ends : i <= e}
  BY <1>2
<1> QED BY <1>3 DEF Rank

\* A line that is complete stays as it is when the stream goes on.
LEMMA LineStays ==
  ASSUME NEW s \in Seq(Bytes), NEW t \in Seq(Bytes), Len(s) <= Len(t),
         \A i \in 1..Len(s) : t[i] = s[i],
         NEW ends \in SUBSET (1..Len(s)), NEW more \in SUBSET (1..Len(t)),
         ends \subseteq more, \A x \in more \ ends : \A i \in ends : i < x,
         NEW n \in Nat, \A k \in 1..n : \E e \in ends : Rank(ends, e) = k,
         NEW k \in 1..n
  PROVE  NthLine(t, more, k) = NthLine(s, ends, k)
<1>1. Len(s) \in Nat /\ Len(t) \in Nat
  OBVIOUS
<1>2. ASSUME NEW j \in 1..n PROVE NthEnd(ends, j) \in ends /\ NthEnd(more, j) = NthEnd(ends, j)
  <2>1. PICK e \in ends : Rank(ends, e) = j
    BY <1>2
  <2>2. Rank(more, e) = j /\ e \in more
    <3>1. e \in ends \cup {0}
      OBVIOUS
    <3>2. Rank(more, e) = Rank(ends, e)
      BY <1>1, <3>1, LaterEnds
    <3> QED BY <2>1, <3>2
  <2>3. NthEnd(ends, j) = e
    BY <1>1, <2>1, NthEndOfRank
  <2>4. NthEnd(more, j) = e
    BY <1>1, <2>2, NthEndOfRank
  <2> QED BY <2>3, <2>4
<1>3. ASSUME NEW a \in Nat \ {0}, NEW b \in 1..Len(s) PROVE SubSeq(t, a, b) = SubSeq(s, a, b)
  <2>1. \A i \in a..b : i \in 1..Len(s) /\ i \in 1..Len(t) /\ t[i] = s[i]
    BY <1>1
  <2>2. \A i \in a..b : s[i] \in Bytes /\ t[i] \in Bytes
    BY <2>1
  <2>3. /\ SubSeq(s, a, b) \in Seq(Bytes) /\ SubSeq(t, a, b) \in Seq(Bytes)
        /\ Len(SubSeq(s, a, b)) = (IF a <= b THEN b - a + 1 ELSE 0)
        /\ Len(SubSeq(t, a, b)) = (IF a <= b THEN b - a + 1 ELSE 0)
        /\ \A i \in 1..b - a + 1 : SubSeq(s, a, b)[i] = s[a + i - 1]
        /\ \A i \in 1..b - a + 1 : SubSeq(t, a, b)[i] = t[a + i - 1]
    BY <2>2, SubSeqProperties
  <2>4. \A i \in 1..Len(SubSeq(s, a, b)) : SubSeq(t, a, b)[i] = SubSeq(s, a, b)[i]
    BY <2>1, <2>3
  <2> QED BY <2>3, <2>4
<1>4. NthEnd(ends, k) \in 1..Len(s) /\ NthEnd(more, k) = NthEnd(ends, k)
  BY <1>2
<1>5. CASE k = 1
  <2>1. /\ NthLine(s, ends, k) = SubSeq(s, 1, NthEnd(ends, k))
        /\ NthLine(t, more, k) = SubSeq(t, 1, NthEnd(ends, k))
    BY <1>4, <1>5 DEF NthLine
  <2>2. 1 \in Nat \ {0}
    OBVIOUS
  <2> QED BY <1>3, <1>4, <2>1, <2>2
<1>6. CASE k # 1
  <2>1. k - 1 \in 1..n
    BY <1>6
  <2>2. NthEnd(ends, k - 1) \in 1..Len(s) /\ NthEnd(more, k - 1) = NthEnd(ends, k - 1)
    BY <1>2, <2>1
  <2>3. NthEnd(ends, k - 1) + 1 \in Nat \ {0}
    BY <1>1, <2>2
  <2>4. /\ NthLine(s, ends, k) = SubSeq(s, NthEnd(ends, k - 1) + 1, NthEnd(ends, k))
        /\ NthLine(t, more, k) = SubSeq(t, NthEnd(ends, k - 1) + 1, NthEnd(ends, k))
    BY <1>4, <1>6, <2>2 DEF NthLine
  <2> QED BY <1>3, <1>4, <2>3, <2>4
<1> QED BY <1>5, <1>6

(***************************************************************************)
(* The lines that were taken                                               *)
(***************************************************************************)
\* The bytes that have left the buffer, the ends of the lines there are, and
\* how many lines are kept of those taken.
gone == Len(sent) - Len(buffer) - Len(pipe)
lineEnds == Ends(sent, eof)
size == config["stderr_tail_buffer_size"]
kept == IF taken < size THEN taken ELSE size

\* A line that is kept, or the marker.
Line == Seq(Bytes \cup {"overlong"})

LinesType == /\ sent \in Seq(Bytes) /\ tail \in Seq(Line) /\ taken \in Nat
             /\ exited \in BOOLEAN /\ eof \in BOOLEAN /\ overflowed \in BOOLEAN

\* Before a session reads, nothing was written.
NothingYet == /\ sent = <<>> /\ pipe = <<>> /\ buffer = <<>> /\ tail = <<>> /\ taken = 0
              /\ ~eof /\ ~overflowed

\* What was not taken is in the buffer and behind it in the pipe, in order.
Flows == /\ gone \in Nat
         /\ \A i \in 1..Len(buffer) : buffer[i] = sent[gone + i]
         /\ \A i \in 1..Len(pipe) : pipe[i] = sent[gone + Len(buffer) + i]

\* The lines taken end with byte c.  What has left the buffer behind it is the
\* beginning of a line that was found too long.
TakenTo(c) ==
  /\ c \in lineEnds \cup {0} /\ c <= gone
  /\ \A i \in c + 1..gone : sent[i] # "nl"
  /\ IF overflowed THEN gone - c > limit ELSE gone = c
  /\ taken = Rank(lineEnds, c)
  /\ \A k \in 1..taken : \E e \in lineEnds : Rank(lineEnds, e) = k

\* Of the lines taken the last ones are in the tail.
TailIsLast == /\ Len(tail) = kept
              /\ \A i \in 1..kept : tail[i] = Framed(NthLine(sent, lineEnds, taken - kept + i))

Reads == /\ limit \in Nat /\ size \in Nat \ {0}
         /\ eof => exited /\ pipe = <<>>
         /\ Flows /\ TailIsLast
         /\ \E c \in Nat : TakenTo(c)

LinesInv == /\ LinesType
            /\ stage \notin {"reading", "ended"} => NothingYet
            /\ stage \in {"reading", "ended"} => Reads

\* What a stream that goes on adds to it leaves the lines taken as they are.
LEMMA StreamGrows ==
  ASSUME LinesType, LinesType', Reads, UNCHANGED <<config, overflowed, tail, taken>>,
         gone' = gone, Flows', eof' => exited' /\ pipe' = <<>>,
         Len(sent) <= Len(sent'), \A i \in 1..Len(sent) : sent'[i] = sent[i], gone <= Len(sent),
         lineEnds \subseteq lineEnds', \A x \in lineEnds' \ lineEnds : \A i \in lineEnds : i < x
  PROVE  Reads'
<1>1. /\ lineEnds \in SUBSET (1..Len(sent)) /\ Len(sent) \in Nat
      /\ lineEnds' \in SUBSET (1..Len(sent')) /\ Len(sent') \in Nat
  BY EndsAreBytes DEF LinesType, lineEnds
<1>2. PICK c \in Nat : TakenTo(c)
  BY DEF Reads
<1>3. limit' = limit /\ size' = size /\ kept' = kept /\ limit \in Nat /\ size \in Nat \ {0}
  BY DEF limit, size, kept, Reads
<1>4. \A e \in lineEnds \cup {0} : Rank(lineEnds', e) = Rank(lineEnds, e)
  BY <1>1, LaterEnds
<1>5. TakenTo(c)'
  <2>1. \A i \in c + 1..gone : i \in 1..Len(sent)
    BY <1>1, <1>2 DEF Reads, Flows
  <2>2. \A i \in c + 1..gone : sent'[i] # "nl"
    BY <1>2, <2>1 DEF TakenTo
  <2>3. c \in lineEnds \cup {0} /\ taken = Rank(lineEnds, c)
    BY <1>2 DEF TakenTo
  <2>4. taken' = Rank(lineEnds', c)
    BY <1>4, <2>3
  <2>5. \A k \in 1..taken : \E e \in lineEnds' : Rank(lineEnds', e) = k
    BY <1>2, <1>4 DEF TakenTo
  <2> QED BY <1>2, <1>3, <2>2, <2>3, <2>4, <2>5 DEF TakenTo
<1>6. TailIsLast'
  <2>1. taken \in Nat /\ kept \in Nat /\ kept <= taken
    BY <1>3 DEF LinesType, kept
  <2>2. ASSUME NEW i \in 1..kept
        PROVE  NthLine(sent', lineEnds', taken - kept + i) = NthLine(sent, lineEnds, taken - kept + i)
    <3>1. taken - kept + i \in 1..taken
      BY <2>1
    <3>2. sent \in Seq(Bytes) /\ sent' \in Seq(Bytes)
      BY DEF LinesType
    <3>3. \A k \in 1..taken : \E e \in lineEnds : Rank(lineEnds, e) = k
      BY <1>2 DEF TakenTo
    <3> QED BY <1>1, <2>1, <3>1, <3>2, <3>3, LineStays
  <2> QED BY <1>3, <2>2 DEF TailIsLast, Reads, Framed
<1> QED BY <1>3, <1>5, <1>6 DEF Reads

\* The greater of one and a number.
LEMMA MaxOfOneAnd ==
  ASSUME NEW x \in Int
  PROVE  Max({1, x}) = IF x > 1 THEN x ELSE 1
<1>1. \A y \in {1, x} : (\A z \in {1, x} : y >= z) <=> y = IF x > 1 THEN x ELSE 1
  OBVIOUS
<1> QED BY <1>1 DEF Max

\* A line that is kept comes last, and the first goes when there are too many.
LEMMA KeptIsLast ==
  ASSUME LinesType, size \in Nat \ {0}, Len(tail) = kept, NEW line \in Line, Keep(line),
         UNCHANGED config
  PROVE  /\ tail' \in Seq(Line) /\ taken' = taken + 1
         /\ kept' \in Nat \ {0} /\ Len(tail') = kept' /\ tail'[kept'] = line
         /\ \A i \in 1..kept' - 1 : /\ kept - kept' + 1 + i \in 1..kept
                                    /\ tail'[i] = tail[kept - kept' + 1 + i]
<1> DEFINE all == Append(tail, line)
           first == Max({1, Len(all) - size + 1})
<1>1. /\ taken \in Nat /\ tail \in Seq(Line) /\ kept \in Nat /\ kept <= size
      /\ kept = (IF taken < size THEN taken ELSE size)
  BY DEF LinesType, kept
<1>2. tail' = SubSeq(all, first, Len(all)) /\ taken' = taken + 1 /\ size' = size
  BY DEF Keep, size
<1>3. /\ all \in Seq(Line) /\ Len(all) = kept + 1 /\ all[kept + 1] = line
      /\ \A i \in 1..kept : all[i] = tail[i]
  BY <1>1
<1> HIDE DEF all
<1>4. first = IF kept = size THEN 2 ELSE 1
  <2>1. Len(all) - size + 1 \in Int
    BY <1>1, <1>3
  <2> QED BY <1>1, <1>3, <2>1, MaxOfOneAnd
<1>5. kept' = IF kept = size THEN kept ELSE kept + 1
  BY <1>1, <1>2 DEF kept
<1> HIDE DEF first
<1>6. \A i \in first..kept + 1 : all[i] \in Line
  BY <1>1, <1>3, <1>4
<1>7. /\ tail' \in Seq(Line)
      /\ Len(tail') = (IF first <= kept + 1 THEN kept + 1 - first + 1 ELSE 0)
      /\ \A i \in 1..kept + 1 - first + 1 : tail'[i] = all[first + i - 1]
  <2>1. first \in Int /\ kept + 1 \in Int
    BY <1>1, <1>4
  <2> QED BY <1>2, <1>3, <1>6, <2>1, SubSeqProperties
<1>8. kept' \in Nat \ {0} /\ Len(tail') = kept' /\ kept' = kept + 2 - first
  BY <1>1, <1>4, <1>5, <1>7
<1>9. tail'[kept'] = line
  <2>1. kept' \in 1..kept + 1 - first + 1 /\ first + kept' - 1 = kept + 1
    BY <1>1, <1>4, <1>8
  <2> QED BY <1>3, <1>7, <2>1
<1>10. ASSUME NEW i \in 1..kept' - 1
       PROVE  kept - kept' + 1 + i \in 1..kept /\ tail'[i] = tail[kept - kept' + 1 + i]
  <2>1. /\ kept - kept' + 1 + i \in 1..kept /\ i \in 1..kept + 1 - first + 1
        /\ first + i - 1 = kept - kept' + 1 + i
    BY <1>1, <1>4, <1>8
  <2> QED BY <1>3, <1>7, <2>1
<1> QED BY <1>2, <1>7, <1>8, <1>9, <1>10

\* The next line is taken when it goes to the tail as it was written.
LEMMA LineTaken ==
  ASSUME LinesType, Reads, UNCHANGED <<config, sent, eof, exited, pipe>>,
         NEW c \in Nat, TakenTo(c), NEW e \in lineEnds, c < e, \A i \in lineEnds : ~(c < i /\ i < e),
         NEW line \in Line, line = Framed(SubSeq(sent, c + 1, e)), Keep(line),
         gone' = e, ~overflowed', Flows'
  PROVE  Reads' /\ tail' \in Seq(Line) /\ taken' \in Nat
<1>1. lineEnds \in SUBSET (1..Len(sent)) /\ Len(sent) \in Nat /\ taken \in Nat
  BY EndsAreBytes DEF LinesType, lineEnds
<1>2. limit' = limit /\ size' = size /\ lineEnds' = lineEnds /\ limit \in Nat /\ size \in Nat \ {0}
  BY DEF limit, size, lineEnds, Reads
<1>3. c \in lineEnds \cup {0} /\ taken = Rank(lineEnds, c)
  BY DEF TakenTo
<1>4. Rank(lineEnds, e) = taken + 1
  <2>1. {i \in lineEnds : i <= e} = {i \in lineEnds : i <= c} \cup {e}
    <3>1. lineEnds \subseteq Int /\ c \in Int /\ e \in Int
      BY <1>1
    <3>2. \A i \in lineEnds : i <= e <=> i <= c \/ i = e
      BY <3>1
    <3> QED BY <3>2
  <2>2. IsFiniteSet({i \in lineEnds : i <= c})
    BY <1>1, RankIsNat
  <2>3. e \notin {i \in lineEnds : i <= c}
    BY <1>1
  <2> QED BY <1>3, <2>1, <2>2, <2>3, FS_AddElement DEF Rank
<1>5. taken = 0 <=> c = 0
  <2>1. IsFiniteSet({i \in lineEnds : i <= c})
    BY <1>1, RankIsNat
  <2>2. {i \in lineEnds : i <= c} = {} <=> c = 0
    <3>1. CASE c = 0
      <4>1. \A i \in lineEnds : ~(i <= 0)
        BY <1>1
      <4> QED BY <3>1, <4>1
    <3>2. CASE c # 0
      <4>1. c \in lineEnds /\ c <= c
        BY <1>3, <3>2
      <4> QED BY <3>2, <4>1
    <3> QED BY <3>1, <3>2
  <2> QED BY <1>3, <2>1, <2>2, FS_EmptySet DEF Rank
<1>6. NthLine(sent, lineEnds, taken + 1) = SubSeq(sent, c + 1, e)
  <2>1. NthEnd(lineEnds, taken + 1) = e
    BY <1>1, <1>4, NthEndOfRank
  <2>2. CASE taken = 0
    <3>1. taken + 1 = 1 /\ c + 1 = 1
      BY <1>5, <2>2
    <3> QED BY <2>1, <3>1 DEF NthLine
  <2>3. CASE taken # 0
    <3>1. c \in lineEnds
      BY <1>3, <1>5, <2>3
    <3>2. NthEnd(lineEnds, taken) = c
      BY <1>1, <1>3, <3>1, NthEndOfRank
    <3>3. PICK k \in Nat : k = taken + 1
      BY <1>1
    <3>4. k # 1 /\ k - 1 = taken
      BY <1>1, <2>3, <3>3
    <3>5. NthLine(sent, lineEnds, k) = SubSeq(sent, NthEnd(lineEnds, k - 1) + 1, NthEnd(lineEnds, k))
      BY <3>4, Zenon DEF NthLine
    <3> QED BY <2>1, <3>2, <3>3, <3>4, <3>5
  <2> QED BY <2>2, <2>3
<1>7. /\ tail' \in Seq(Line) /\ taken' = taken + 1
      /\ kept' \in Nat \ {0} /\ Len(tail') = kept' /\ tail'[kept'] = line
      /\ \A i \in 1..kept' - 1 : /\ kept - kept' + 1 + i \in 1..kept
                                 /\ tail'[i] = tail[kept - kept' + 1 + i]
  BY KeptIsLast DEF Reads, TailIsLast
<1>8. TakenTo(e)'
  <2>1. e \in Nat /\ \A i \in e + 1..e : FALSE
    BY <1>1
  <2>2. ASSUME NEW k \in 1..taken + 1 PROVE \E d \in lineEnds : Rank(lineEnds, d) = k
    <3>1. CASE k \in 1..taken
      BY <3>1 DEF TakenTo
    <3>2. CASE k = taken + 1
      BY <1>4, <3>2
    <3> QED BY <1>1, <3>1, <3>2
  <2> QED BY <1>2, <1>4, <1>7, <2>1, <2>2 DEF TakenTo
<1>9. TailIsLast'
  <2>1. kept \in Nat
    BY <1>1, <1>2 DEF kept
  <2>2. ASSUME NEW i \in 1..kept', i = kept'
        PROVE  tail'[i] = Framed(NthLine(sent, lineEnds, taken' - kept' + i))
    <3>1. taken' - kept' + i = taken + 1
      BY <1>1, <1>7, <2>2
    <3> QED BY <1>6, <1>7, <2>2, <3>1
  <2>3. ASSUME NEW i \in 1..kept', i # kept'
        PROVE  tail'[i] = Framed(NthLine(sent, lineEnds, taken' - kept' + i))
    <3>1. i \in 1..kept' - 1
      BY <1>7, <2>3
    <3>2. taken - kept + (kept - kept' + 1 + i) = taken' - kept' + i
      BY <1>1, <1>7, <2>1
    <3>3. tail[kept - kept' + 1 + i] = Framed(NthLine(sent, lineEnds, taken - kept + (kept - kept' + 1 + i)))
      BY <1>7, <3>1 DEF Reads, TailIsLast
    <3> QED BY <1>7, <3>1, <3>2, <3>3
  <2>4. \A i \in 1..kept' : tail'[i] = Framed(NthLine(sent, lineEnds, taken' - kept' + i))
    BY <2>2, <2>3
  <2> QED BY <1>2, <1>7, <2>4 DEF TailIsLast, Framed
<1>10. e \in Nat
  BY <1>1
<1> QED BY <1>1, <1>2, <1>7, <1>8, <1>9, <1>10 DEF Reads

(***************************************************************************)
(* The steps, and the lines                                                *)
(***************************************************************************)
\* readuntil looks at the bytes up to the newline, or at all of them.
LEMMA ScannedBytes ==
  ASSUME buffer \in Seq(Bytes)
  PROVE  /\ Scanned \in 0..Len(buffer) /\ Len(buffer) \in Nat
         /\ \A i \in 1..Scanned : buffer[i] # "nl"
         /\ Newlines(buffer) # {} => Scanned < Len(buffer) /\ buffer[Scanned + 1] = "nl"
         /\ Newlines(buffer) = {} => Scanned = Len(buffer)
<1>1. Newlines(buffer) = {i \in 1..Len(buffer) : buffer[i] = "nl"} /\ Len(buffer) \in Nat
  BY DEF Newlines
<1>2. CASE Newlines(buffer) = {}
  BY <1>1, <1>2 DEF Scanned
<1>3. CASE Newlines(buffer) # {}
  <2> DEFINE m == Min(Newlines(buffer))
  <2>1. m \in Newlines(buffer) /\ \A y \in Newlines(buffer) : m <= y
    BY <1>1, <1>3, LeastIndex
  <2>2. Scanned = m - 1
    BY <1>3 DEF Scanned
  <2> HIDE DEF m
  <2>3. m \in 1..Len(buffer) /\ buffer[m] = "nl"
    BY <1>1, <2>1
  <2>4. \A i \in 1..m - 1 : buffer[i] # "nl"
    <3> SUFFICES ASSUME NEW i \in 1..m - 1, buffer[i] = "nl" PROVE FALSE
      OBVIOUS
    <3>1. i \in Newlines(buffer)
      BY <1>1, <2>3
    <3> QED BY <2>1, <2>3, <3>1
  <2> QED BY <1>1, <1>3, <2>2, <2>3, <2>4
<1> QED BY <1>2, <1>3

\* The rest of a sequence of bytes.
LEMMA RestOfBytes ==
  ASSUME NEW s \in Seq(Bytes), NEW n \in 0..Len(s)
  PROVE  /\ SubSeq(s, n + 1, Len(s)) \in Seq(Bytes)
         /\ Len(SubSeq(s, n + 1, Len(s))) = Len(s) - n
         /\ \A i \in 1..Len(s) - n : SubSeq(s, n + 1, Len(s))[i] = s[n + i]
<1>1. Len(s) \in Nat /\ n \in Nat /\ n + 1 \in Int /\ Len(s) \in Int
  OBVIOUS
<1>2. \A i \in n + 1..Len(s) : s[i] \in Bytes
  BY <1>1
<1>3. /\ SubSeq(s, n + 1, Len(s)) \in Seq(Bytes)
      /\ Len(SubSeq(s, n + 1, Len(s))) = (IF n + 1 <= Len(s) THEN Len(s) - (n + 1) + 1 ELSE 0)
      /\ \A i \in 1..Len(s) - (n + 1) + 1 : SubSeq(s, n + 1, Len(s))[i] = s[n + 1 + i - 1]
  BY <1>1, <1>2, SubSeqProperties
<1>4. \A i \in 1..Len(s) - n : i \in 1..Len(s) - (n + 1) + 1 /\ n + 1 + i - 1 = n + i
  BY <1>1
<1> QED BY <1>1, <1>3, <1>4

\* What leaves the buffer leaves it in order.
LEMMA TakeFlows ==
  ASSUME StreamType, Flows, NEW n \in 0..Len(buffer), Take(n), UNCHANGED <<sent, pipe>>,
         Len(sent) \in Nat
  PROVE  Flows' /\ gone' = gone + n
<1>1. Len(buffer) \in Nat /\ Len(pipe) \in Nat /\ n \in Nat /\ gone \in Nat
  BY DEF StreamType, Flows
<1>2. /\ Len(buffer') = Len(buffer) - n
      /\ \A i \in 1..Len(buffer) - n : buffer'[i] = buffer[n + i]
  BY RestOfBytes DEF Take, StreamType
<1>3. gone' = gone + n
  BY <1>1, <1>2 DEF gone
<1>4. ASSUME NEW i \in 1..Len(buffer') PROVE buffer'[i] = sent[gone' + i]
  <2>1. n + i \in 1..Len(buffer) /\ gone + (n + i) = gone' + i
    BY <1>1, <1>2, <1>3
  <2>2. buffer[n + i] = sent[gone + (n + i)]
    BY <2>1 DEF Flows
  <2> QED BY <1>2, <2>1, <2>2
<1>5. ASSUME NEW i \in 1..Len(pipe) PROVE pipe[i] = sent[gone' + Len(buffer') + i]
  <2>1. gone' + Len(buffer') + i = gone + Len(buffer) + i
    BY <1>1, <1>2, <1>3
  <2> QED BY <2>1 DEF Flows
<1> QED BY <1>1, <1>3, <1>4, <1>5 DEF Flows

\* Where the rest of the stream begins and where its parts end.
LEMMA StreamIsCut ==
  ASSUME LinesType, StreamType, Flows
  PROVE  /\ Len(sent) \in Nat /\ Len(buffer) \in Nat /\ Len(pipe) \in Nat /\ gone \in Nat
         /\ Len(sent) = gone + Len(buffer) + Len(pipe)
BY DEF LinesType, StreamType, Flows, gone

\* Discarding begins or goes on in the line after those taken.
LEMMA DiscardKeepsLines ==
  ASSUME StreamType, LinesType, Reads, Discard
  PROVE  Reads'
<1>1. /\ Scanned > limit /\ overflowed' /\ Take(Scanned)
      /\ UNCHANGED <<config, sent, pipe, exited, eof, tail, taken>>
  BY DEF Discard, settings, agent
<1>2. /\ Len(sent) \in Nat /\ Len(buffer) \in Nat /\ gone \in Nat /\ limit \in Nat
      /\ Scanned \in 0..Len(buffer) /\ \A i \in 1..Scanned : buffer[i] # "nl"
  BY StreamIsCut, ScannedBytes DEF Reads, StreamType
<1>3. Flows' /\ gone' = gone + Scanned
  BY <1>1, <1>2, TakeFlows DEF Reads
<1>4. /\ limit' = limit /\ size' = size /\ kept' = kept /\ lineEnds' = lineEnds
  BY <1>1 DEF limit, size, kept, lineEnds
<1>5. PICK c \in Nat : TakenTo(c)
  BY DEF Reads
<1>6. TakenTo(c)'
  <2>1. c <= gone /\ gone - c \in Nat
    BY <1>2, <1>5 DEF TakenTo
  <2>2. c <= gone' /\ gone' - c > limit
    BY <1>1, <1>2, <1>3, <2>1
  <2>3. ASSUME NEW i \in c + 1..gone' PROVE sent[i] # "nl"
    <3>1. CASE i <= gone
      <4>1. i \in c + 1..gone
        BY <1>2, <1>3, <3>1
      <4> QED BY <1>5, <4>1 DEF TakenTo
    <3>2. CASE gone < i
      <4>1. i - gone \in 1..Scanned /\ i - gone \in 1..Len(buffer) /\ gone + (i - gone) = i
        BY <1>2, <1>3, <3>2
      <4> QED BY <1>2, <4>1 DEF Reads, Flows
    <3> QED BY <1>2, <1>3, <3>1, <3>2
  <2> QED BY <1>1, <1>4, <1>5, <2>2, <2>3 DEF TakenTo
<1>7. TailIsLast'
  BY <1>1, <1>4 DEF Reads, TailIsLast, Framed
<1> QED BY <1>1, <1>3, <1>4, <1>5, <1>6, <1>7 DEF Reads

\* What is read from the buffer is the line as it was sent.
LEMMA ReadAsSent ==
  ASSUME LinesType, StreamType, Flows, NEW n \in 1..Len(buffer)
  PROVE  SubSeq(sent, gone + 1, gone + n) = SubSeq(buffer, 1, n) /\ SubSeq(buffer, 1, n) \in Seq(Bytes)
<1>1. /\ Len(sent) \in Nat /\ Len(buffer) \in Nat /\ Len(pipe) \in Nat /\ gone \in Nat
      /\ Len(sent) = gone + Len(buffer) + Len(pipe) /\ n \in Nat
  BY StreamIsCut
<1>2. \A i \in 1..n : buffer[i] \in Bytes
  BY <1>1 DEF StreamType
<1>3. ASSUME NEW i \in gone + 1..gone + n PROVE sent[i] \in Bytes
  <2>1. i \in 1..Len(sent)
    BY <1>1
  <2> QED BY <2>1 DEF LinesType
<1>4. /\ SubSeq(buffer, 1, n) \in Seq(Bytes) /\ SubSeq(sent, gone + 1, gone + n) \in Seq(Bytes)
      /\ Len(SubSeq(buffer, 1, n)) = n
      /\ \A i \in 1..n : SubSeq(buffer, 1, n)[i] = buffer[i]
  <2>1. 1 \in Int /\ n \in Int /\ gone + 1 \in Int /\ gone + n \in Int
    BY <1>1
  <2> QED BY <1>1, <1>2, <1>3, <2>1, SubSeqProperties
<1>5. /\ Len(SubSeq(sent, gone + 1, gone + n)) = n
      /\ \A i \in 1..n : SubSeq(sent, gone + 1, gone + n)[i] = sent[gone + i]
  <2>1. PICK a \in Int, b \in Int : a = gone + 1 /\ b = gone + n
    BY <1>1
  <2>2. \A i \in a..b : sent[i] \in Bytes
    BY <1>3, <2>1
  <2>3. /\ Len(SubSeq(sent, a, b)) = (IF a <= b THEN b - a + 1 ELSE 0)
        /\ \A i \in 1..b - a + 1 : SubSeq(sent, a, b)[i] = sent[a + i - 1]
    BY <2>2, SubSeqProperties
  <2>4. a <= b /\ b - a + 1 = n /\ \A i \in 1..n : a + i - 1 = gone + i
    BY <1>1, <2>1
  <2> QED BY <2>1, <2>3, <2>4
<1>6. \A i \in 1..n : sent[gone + i] = buffer[i]
  BY <1>1 DEF Flows
<1>7. \A i \in 1..n : SubSeq(sent, gone + 1, gone + n)[i] = SubSeq(buffer, 1, n)[i]
  BY <1>4, <1>5, <1>6
<1> QED BY <1>1, <1>4, <1>5, <1>7

\* Whether a line is too long is a matter of where it begins and ends.
LEMMA FramedOfStream ==
  ASSUME LinesType, limit \in Nat, NEW c \in Nat, NEW e \in 1..Len(sent), c < e
  PROVE  /\ SubSeq(sent, c + 1, e) \in Line /\ Overlong \in Line
         /\ Framed(SubSeq(sent, c + 1, e))
              = IF e - c > (IF sent[e] = "nl" THEN limit + 1 ELSE limit) THEN Overlong
                ELSE SubSeq(sent, c + 1, e)
<1> DEFINE line == SubSeq(sent, c + 1, e)
<1>1. Len(sent) \in Nat /\ e \in Nat
  BY DEF LinesType
<1>2. PICK a \in Int : a = c + 1
  OBVIOUS
<1>3. \A i \in a..e : sent[i] \in Bytes
  <2>1. \A i \in a..e : i \in 1..Len(sent)
    BY <1>1, <1>2
  <2> QED BY <2>1 DEF LinesType
<1>4. /\ line \in Seq(Bytes) /\ Len(line) = (IF a <= e THEN e - a + 1 ELSE 0)
      /\ \A i \in 1..e - a + 1 : line[i] = sent[a + i - 1]
  BY <1>1, <1>2, <1>3, SubSeqProperties
<1> HIDE DEF line
<1>5. Len(line) = e - c /\ e - c \in 1..e - a + 1 /\ a + (e - c) - 1 = e
  BY <1>1, <1>2, <1>4
<1>6. line[Len(line)] = sent[e]
  BY <1>4, <1>5
<1>7. line \in Line
  BY <1>4 DEF Line
<1>8. Overlong \in Line
  BY DEF Overlong, Line
<1> QED BY <1>5, <1>6, <1>7, <1>8 DEF Framed, line

\* A line that readuntil returns is the next one.
LEMMA TakeLineKeepsLines ==
  ASSUME StreamType, LinesType, Reads, TakeLine
  PROVE  Reads' /\ tail' \in Seq(Line) /\ taken' \in Nat
<1>1. /\ Newlines(buffer) # {} /\ Scanned <= limit /\ ~overflowed' /\ Take(Scanned + 1)
      /\ UNCHANGED <<config, sent, pipe, exited, eof>>
  BY DEF TakeLine, settings, agent
<1>2. /\ Len(sent) \in Nat /\ Len(buffer) \in Nat /\ Len(pipe) \in Nat /\ gone \in Nat /\ limit \in Nat
      /\ Len(sent) = gone + Len(buffer) + Len(pipe)
      /\ Scanned \in 0..Len(buffer) /\ \A i \in 1..Scanned : buffer[i] # "nl"
      /\ Scanned < Len(buffer) /\ buffer[Scanned + 1] = "nl"
  BY <1>1, StreamIsCut, ScannedBytes DEF Reads, StreamType
<1>3. PICK n \in 1..Len(buffer) : n = Scanned + 1
  BY <1>2
<1>4. PICK e \in 1..Len(sent) : e = gone + n
  BY <1>2
<1>5. Flows' /\ gone' = e
  BY <1>1, <1>2, <1>3, <1>4, TakeFlows DEF Reads
<1>6. PICK c \in Nat : TakenTo(c)
  BY DEF Reads
<1>7. c <= gone /\ c < e /\ e \in Nat /\ n \in Nat
  BY <1>2, <1>3, <1>4, <1>6 DEF TakenTo
<1>8. sent[e] = "nl" /\ e \in lineEnds
  <2>1. sent[e] = "nl"
    BY <1>2, <1>3, <1>4 DEF Reads, Flows
  <2>2. e \in DOMAIN sent
    BY DEF LinesType
  <2> QED BY <2>1, <2>2 DEF lineEnds, Ends, Newlines
<1>9. ASSUME NEW i \in lineEnds, c < i, i < e PROVE FALSE
  <2>1. i \in 1..Len(sent) /\ i # Len(sent)
    BY <1>2, <1>9, EndsAreBytes DEF LinesType, lineEnds
  <2>2. sent[i] = "nl"
    BY <1>9, <2>1 DEF lineEnds, Ends, Newlines
  <2>3. CASE i <= gone
    <3>1. i \in c + 1..gone
      BY <1>2, <1>9, <2>1, <2>3
    <3> QED BY <1>6, <2>2, <3>1 DEF TakenTo
  <2>4. CASE gone < i
    <3>1. i - gone \in 1..Scanned /\ i - gone \in 1..Len(buffer) /\ gone + (i - gone) = i
      BY <1>2, <1>3, <1>4, <1>9, <2>1, <2>4
    <3>2. buffer[i - gone] = sent[gone + (i - gone)]
      BY <3>1 DEF Reads, Flows
    <3>3. buffer[i - gone] # "nl"
      BY <1>2, <3>1
    <3> QED BY <2>2, <3>1, <3>2, <3>3
  <2> QED BY <1>2, <2>1, <2>3, <2>4
<1>10. PICK line : line = (IF overflowed THEN Overlong ELSE SubSeq(buffer, 1, n)) /\ Keep(line)
  BY <1>3 DEF TakeLine
<1>11. line \in Line /\ line = Framed(SubSeq(sent, c + 1, e))
  <2>1. /\ SubSeq(sent, c + 1, e) \in Line /\ Overlong \in Line
        /\ Framed(SubSeq(sent, c + 1, e))
             = IF e - c > limit + 1 THEN Overlong ELSE SubSeq(sent, c + 1, e)
    BY <1>2, <1>7, <1>8, FramedOfStream
  <2>2. CASE overflowed
    <3>1. gone - c > limit
      BY <1>6, <2>2 DEF TakenTo
    <3>2. e - c > limit + 1
      BY <1>2, <1>3, <1>4, <1>7, <3>1
    <3> QED BY <1>10, <2>1, <2>2, <3>2
  <2>3. CASE ~overflowed
    <3>1. gone = c
      BY <1>6, <2>3 DEF TakenTo
    <3>2. ~(e - c > limit + 1)
      BY <1>1, <1>2, <1>3, <1>4, <3>1
    <3>3. SubSeq(sent, c + 1, e) = SubSeq(buffer, 1, n)
      BY <1>4, <3>1, ReadAsSent DEF Reads
    <3> QED BY <1>10, <2>1, <2>3, <3>2, <3>3
  <2> QED BY <2>2, <2>3
<1> QED BY <1>1, <1>5, <1>6, <1>7, <1>8, <1>9, <1>10, <1>11, LineTaken

\* At the end of the stream what is left is the last line, and with nothing
\* left the reader ends.
LEMMA TakeRestKeepsLines ==
  ASSUME StreamType, LinesType, Reads, TakeRest
  PROVE  Reads' /\ tail' \in Seq(Line) /\ taken' \in Nat
<1>1. /\ Newlines(buffer) = {} /\ Scanned <= limit /\ ~overflowed' /\ Take(Len(buffer)) /\ eof
      /\ UNCHANGED <<config, sent, pipe, exited, eof>>
  BY DEF TakeRest, agent
<1>2. /\ Len(sent) \in Nat /\ Len(buffer) \in Nat /\ Len(pipe) \in Nat /\ gone \in Nat /\ limit \in Nat
      /\ Len(sent) = gone + Len(buffer) + Len(pipe)
      /\ \A i \in 1..Len(buffer) : buffer[i] # "nl"
      /\ Scanned = Len(buffer)
  BY <1>1, StreamIsCut, ScannedBytes DEF Reads, StreamType
<1>3. Len(sent) = gone + Len(buffer)
  <2>1. Len(pipe) = 0
    BY <1>1 DEF Reads
  <2> QED BY <1>2, <2>1
<1>4. Flows' /\ gone' = Len(sent)
  <2>1. Len(buffer) \in 0..Len(buffer)
    BY <1>2
  <2> QED BY <1>1, <1>2, <1>3, <2>1, TakeFlows DEF Reads
<1>5. PICK c \in Nat : TakenTo(c)
  BY DEF Reads
<1>6. limit' = limit /\ size' = size /\ lineEnds' = lineEnds
  BY <1>1 DEF limit, size, lineEnds
<1>7. CASE buffer = <<>> /\ ~overflowed
  <2>1. UNCHANGED <<tail, taken, overflowed>> /\ gone' = gone /\ kept' = kept
    <3>1. overflowed' = FALSE /\ UNCHANGED <<tail, taken>>
      BY <1>7 DEF TakeRest
    <3>2. overflowed' = overflowed
      BY <1>7, <3>1 DEF LinesType
    <3>3. Len(buffer) = 0
      BY <1>7
    <3> QED BY <1>2, <1>3, <1>4, <1>6, <3>1, <3>2, <3>3 DEF kept
  <2>2. TakenTo(c)'
    BY <1>1, <1>5, <1>6, <2>1 DEF TakenTo
  <2>3. TailIsLast'
    BY <1>1, <1>6, <2>1 DEF Reads, TailIsLast, Framed
  <2> QED BY <1>1, <1>4, <1>5, <1>6, <2>1, <2>2, <2>3 DEF Reads, LinesType
<1>8. CASE ~(buffer = <<>> /\ ~overflowed)
  <2>1. c <= gone /\ c < Len(sent)
    <3>1. c <= gone
      BY <1>5 DEF TakenTo
    <3>2. CASE overflowed
      BY <1>2, <1>3, <1>5, <3>1, <3>2 DEF TakenTo
    <3>3. CASE buffer # <<>>
      <4>1. Len(buffer) > 0
        BY <3>3 DEF StreamType
      <4> QED BY <1>2, <1>3, <3>1, <4>1
    <3> QED BY <1>8, <3>1, <3>2, <3>3
  <2>2. PICK e \in 1..Len(sent) : e = Len(sent)
    BY <1>2, <2>1
  <2>3. e \in lineEnds
    BY <1>1, <2>2 DEF lineEnds, Ends
  <2>4. ASSUME NEW i \in c + 1..Len(sent) PROVE sent[i] # "nl"
    <3>1. CASE i <= gone
      <4>1. i \in c + 1..gone
        BY <1>2, <3>1
      <4> QED BY <1>5, <4>1 DEF TakenTo
    <3>2. CASE gone < i
      <4>1. i - gone \in 1..Len(buffer) /\ gone + (i - gone) = i
        BY <1>2, <1>3, <3>2
      <4> QED BY <1>2, <4>1 DEF Reads, Flows
    <3> QED BY <1>2, <3>1, <3>2
  <2>5. ASSUME NEW i \in lineEnds, c < i, i < e PROVE FALSE
    <3>1. i \in c + 1..Len(sent) /\ i # Len(sent)
      BY <1>2, <2>2, <2>5, EndsAreBytes DEF LinesType, lineEnds
    <3>2. sent[i] = "nl"
      BY <2>5, <3>1 DEF lineEnds, Ends, Newlines
    <3> QED BY <2>4, <3>1, <3>2
  <2>6. PICK line : line = (IF overflowed THEN Overlong ELSE buffer) /\ Keep(line)
    BY <1>8 DEF TakeRest
  <2>7. line \in Line /\ line = Framed(SubSeq(sent, c + 1, e))
    <3>1. sent[e] # "nl"
      BY <1>2, <2>1, <2>2, <2>4
    <3>2. /\ SubSeq(sent, c + 1, e) \in Line /\ Overlong \in Line
          /\ Framed(SubSeq(sent, c + 1, e))
               = IF e - c > limit THEN Overlong ELSE SubSeq(sent, c + 1, e)
      BY <1>2, <2>1, <2>2, <3>1, FramedOfStream
    <3>3. CASE overflowed
      <4>1. gone - c > limit
        BY <1>5, <3>3 DEF TakenTo
      <4>2. e - c > limit
        BY <1>2, <1>3, <2>1, <2>2, <4>1
      <4> QED BY <2>6, <3>2, <3>3, <4>2
    <3>4. CASE ~overflowed
      <4>1. gone = c
        BY <1>5, <3>4 DEF TakenTo
      <4>2. ~(e - c > limit) /\ Len(buffer) \in 1..Len(buffer) /\ e = gone + Len(buffer)
        BY <1>1, <1>2, <1>3, <2>1, <2>2, <4>1
      <4>3. SubSeq(sent, c + 1, e) = SubSeq(buffer, 1, Len(buffer))
        BY <4>1, <4>2, ReadAsSent DEF Reads
      <4>4. SubSeq(buffer, 1, Len(buffer)) = buffer
        BY SubSeqFull DEF StreamType
      <4> QED BY <2>6, <3>2, <3>4, <4>2, <4>3, <4>4
    <3> QED BY <3>3, <3>4
  <2> QED BY <1>1, <1>4, <1>5, <2>1, <2>2, <2>3, <2>5, <2>6, <2>7, LineTaken
<1> QED BY <1>7, <1>8

\* A session begins with nothing written and its own limits.
LEMMA CreateBegins ==
  ASSUME FramingInv, LinesInv, NEW a \in Arguments, Create(a)
  PROVE  LinesInv'
<1>1. /\ stage = "serving" /\ stage' = "reading"
      /\ ValidateConfig(SessionConfig(defaults, a)) /\ config' = SessionConfig(defaults, a)
      /\ UNCHANGED <<sent, pipe, exited, buffer, eof, overflowed, tail, taken>>
  BY DEF Create, agent, stream, reader
<1>2. NothingYet /\ LinesType'
  BY <1>1 DEF LinesInv, LinesType
<1>3. limit' \in Nat /\ size' \in Nat \ {0}
  <2>1. /\ {"max_read", "stderr_tail_buffer_size"} \subseteq KnownKeys \ ServerKeys
        /\ {"max_read", "stderr_tail_buffer_size"} \subseteq NumberKeys
    BY DEF KnownKeys, NumberKeys, ByteKeys, PlainIntegerKeys, ServerKeys
  <2>2. config'["max_read"] \in Int /\ config'["stderr_tail_buffer_size"] \in Int
    BY <1>1, <2>1, FramingAssumption DEF SessionConfig, FramingInv, FreshInv
  <2>3. config'["max_read"] > 0 /\ config'["stderr_tail_buffer_size"] > 0
    BY <1>1, <2>1 DEF ValidateConfig, SessionConfig
  <2> QED BY <2>2, <2>3 DEF limit, size
<1>4. Len(sent') = 0 /\ Len(buffer') = 0 /\ Len(pipe') = 0 /\ gone' = 0
  <2>1. Len(sent') = 0 /\ Len(buffer') = 0 /\ Len(pipe') = 0
    BY <1>1, <1>2 DEF NothingYet
  <2>2. gone' = Len(sent') - Len(buffer') - Len(pipe')
    BY DEF gone
  <2> QED BY <2>1, <2>2
<1>5. Flows'
  BY <1>4 DEF Flows
<1>6. lineEnds' = {}
  <2>1. DOMAIN sent' = {} /\ eof' = FALSE
    BY <1>1, <1>2 DEF NothingYet, LinesType
  <2> QED BY <2>1 DEF lineEnds, Ends, Newlines
<1>7. TakenTo(0)'
  <2>1. Rank({}, 0) = 0
    BY FS_EmptySet DEF Rank
  <2> QED BY <1>1, <1>2, <1>4, <1>6, <2>1 DEF NothingYet, TakenTo
<1>8. TailIsLast'
  <2>1. kept' = 0
    BY <1>1, <1>2, <1>3 DEF kept, NothingYet
  <2>2. Len(tail') = 0
    BY <1>1, <1>2 DEF NothingYet
  <2> QED BY <2>1, <2>2 DEF TailIsLast
<1>9. 0 \in Nat /\ ~eof'
  BY <1>1, <1>2 DEF NothingYet
<1> QED BY <1>1, <1>2, <1>3, <1>5, <1>7, <1>8, <1>9 DEF LinesInv, Reads

\* The agent adds to the end of the stream.
LEMMA WriteKeepsLines ==
  ASSUME StreamType, LinesType, Reads, NEW b \in Bytes, Write(b)
  PROVE  Reads' /\ LinesType'
<1>1. /\ ~exited /\ sent' = Append(sent, b) /\ pipe' = Append(pipe, b)
      /\ UNCHANGED <<config, exited, buffer, eof, overflowed, tail, taken>>
  BY DEF Write, settings, stream, reader
<1>2. /\ Len(sent) \in Nat /\ Len(buffer) \in Nat /\ Len(pipe) \in Nat /\ gone \in Nat
      /\ Len(sent) = gone + Len(buffer) + Len(pipe)
  BY StreamIsCut DEF Reads
<1>3. /\ sent' \in Seq(Bytes) /\ Len(sent') = Len(sent) + 1 /\ sent'[Len(sent) + 1] = b
      /\ \A i \in 1..Len(sent) : sent'[i] = sent[i]
      /\ DOMAIN sent' = 1..Len(sent) + 1 /\ DOMAIN sent = 1..Len(sent)
  BY <1>1 DEF LinesType
<1>4. /\ Len(pipe') = Len(pipe) + 1 /\ pipe'[Len(pipe) + 1] = b
      /\ \A i \in 1..Len(pipe) : pipe'[i] = pipe[i]
  BY <1>1 DEF StreamType
<1>5. gone' = gone /\ gone <= Len(sent)
  BY <1>1, <1>2, <1>3, <1>4 DEF gone
<1>6. Flows'
  <2>1. ASSUME NEW i \in 1..Len(buffer) PROVE buffer[i] = sent'[gone + i]
    <3>1. gone + i \in 1..Len(sent)
      BY <1>2
    <3> QED BY <1>3, <3>1 DEF Reads, Flows
  <2>2. ASSUME NEW i \in 1..Len(pipe) + 1 PROVE pipe'[i] = sent'[gone + Len(buffer) + i]
    <3>1. CASE i \in 1..Len(pipe)
      <4>1. gone + Len(buffer) + i \in 1..Len(sent)
        BY <1>2, <3>1
      <4> QED BY <1>3, <1>4, <3>1, <4>1 DEF Reads, Flows
    <3>2. CASE i = Len(pipe) + 1
      <4>1. gone + Len(buffer) + i = Len(sent) + 1
        BY <1>2, <3>2
      <4> QED BY <1>3, <1>4, <3>2, <4>1
    <3> QED BY <1>2, <3>1, <3>2
  <2> QED BY <1>1, <1>2, <1>4, <1>5, <2>1, <2>2 DEF Flows
<1>7. ~eof /\ eof' = FALSE
  BY <1>1 DEF Reads, LinesType
<1>8. /\ lineEnds \subseteq lineEnds'
      /\ \A x \in lineEnds' \ lineEnds : \A i \in lineEnds : i < x
  <2>1. lineEnds = {i \in 1..Len(sent) : sent[i] = "nl"}
    BY <1>3, <1>7 DEF lineEnds, Ends, Newlines
  <2>2. lineEnds' = {i \in 1..Len(sent) + 1 : sent'[i] = "nl"}
    BY <1>3, <1>7 DEF lineEnds, Ends, Newlines
  <2>3. \A i \in 1..Len(sent) + 1 : i \in 1..Len(sent) \/ i = Len(sent) + 1
    BY <1>2
  <2>4. \A i \in 1..Len(sent) : i \in 1..Len(sent) + 1 /\ i < Len(sent) + 1
    BY <1>2
  <2> QED BY <1>3, <2>1, <2>2, <2>3, <2>4
<1>9. LinesType'
  BY <1>1, <1>3 DEF LinesType
<1>10. Len(sent) <= Len(sent')
  BY <1>2, <1>3
<1> QED BY <1>1, <1>3, <1>5, <1>6, <1>7, <1>8, <1>9, <1>10, StreamGrows

\* The transport moves bytes from the pipe to the buffer.
LEMMA FeedKeepsLines ==
  ASSUME StreamType, LinesType, Reads, NEW n \in 1..MaxChunk, Feed(n)
  PROVE  Reads' /\ LinesType'
<1>1. /\ n \in 1..Len(pipe) /\ buffer' = buffer \o SubSeq(pipe, 1, n)
      /\ pipe' = SubSeq(pipe, n + 1, Len(pipe))
      /\ UNCHANGED <<config, sent, exited, eof, overflowed, tail, taken>>
  BY DEF Feed, settings, reader
<1>2. /\ Len(sent) \in Nat /\ Len(buffer) \in Nat /\ Len(pipe) \in Nat /\ gone \in Nat /\ n \in Nat
      /\ Len(sent) = gone + Len(buffer) + Len(pipe)
  BY <1>1, StreamIsCut DEF Reads
<1>3. /\ Len(pipe') = Len(pipe) - n
      /\ \A i \in 1..Len(pipe) - n : pipe'[i] = pipe[n + i]
  BY <1>1, <1>2, RestOfBytes DEF StreamType
<1>4. /\ SubSeq(pipe, 1, n) \in Seq(Bytes) /\ Len(SubSeq(pipe, 1, n)) = n
      /\ \A i \in 1..n : SubSeq(pipe, 1, n)[i] = pipe[i]
  BY <1>1 DEF StreamType
<1>5. /\ Len(buffer') = Len(buffer) + n
      /\ \A i \in 1..Len(buffer) : buffer'[i] = buffer[i]
      /\ \A i \in 1..n : buffer'[Len(buffer) + i] = pipe[i]
  BY <1>1, <1>4 DEF StreamType
<1>6. gone' = gone /\ gone <= Len(sent)
  <2>1. gone' = Len(sent) - Len(buffer') - Len(pipe')
    BY <1>1 DEF gone
  <2>2. gone' = Len(sent) - (Len(buffer) + n) - (Len(pipe) - n)
    BY <1>3, <1>5, <2>1
  <2> QED BY <1>2, <2>2
<1>7. Flows'
  <2>1. ASSUME NEW i \in 1..Len(buffer') PROVE buffer'[i] = sent[gone + i]
    <3>1. CASE i \in 1..Len(buffer)
      BY <1>5, <3>1 DEF Reads, Flows
    <3>2. CASE i \notin 1..Len(buffer)
      <4>1. PICK j \in 1..n : i = Len(buffer) + j
        <5>1. i - Len(buffer) \in 1..n /\ i = Len(buffer) + (i - Len(buffer))
          BY <1>2, <1>5, <3>2
        <5> QED BY <5>1
      <4>2. j \in 1..Len(pipe) /\ gone + Len(buffer) + j = gone + i
        BY <1>1, <1>2, <4>1
      <4> QED BY <1>5, <4>1, <4>2 DEF Reads, Flows
    <3> QED BY <3>1, <3>2
  <2>2. ASSUME NEW i \in 1..Len(pipe') PROVE pipe'[i] = sent[gone + Len(buffer') + i]
    <3>1. n + i \in 1..Len(pipe) /\ gone + Len(buffer) + (n + i) = gone + Len(buffer') + i
      BY <1>1, <1>2, <1>3, <1>5
    <3>2. pipe[n + i] = sent[gone + Len(buffer) + (n + i)]
      BY <3>1 DEF Reads, Flows
    <3> QED BY <1>3, <3>1, <3>2
  <2> QED BY <1>1, <1>2, <1>6, <2>1, <2>2 DEF Flows
<1>8. LinesType' /\ lineEnds' = lineEnds
  BY <1>1 DEF LinesType, lineEnds
<1>9. ~eof'
  <2>1. CASE eof
    <3>1. Len(pipe) = 0
      BY <2>1 DEF Reads
    <3> QED BY <1>1, <3>1
  <2> QED BY <1>1, <2>1
<1>10. Len(sent) <= Len(sent') /\ \A i \in 1..Len(sent) : sent'[i] = sent[i]
  BY <1>1, <1>2
<1> QED BY <1>1, <1>6, <1>7, <1>8, <1>9, <1>10, StreamGrows

\* When the stream has ended, its last byte ends a line.
LEMMA EofKeepsLines ==
  ASSUME StreamType, LinesType, Reads, FeedEof
  PROVE  Reads' /\ LinesType'
<1>1. /\ eof' = TRUE /\ exited /\ pipe = <<>> /\ ~eof
      /\ UNCHANGED <<config, sent, pipe, exited, buffer, overflowed, tail, taken>>
  BY DEF FeedEof, settings, agent, reader
<1>2. Len(sent) \in Nat /\ gone <= Len(sent) /\ gone' = gone
  <2>1. gone' = gone
    BY <1>1 DEF gone
  <2> QED BY <2>1, StreamIsCut DEF Reads
<1>3. LinesType' /\ Flows'
  BY <1>1, <1>2 DEF LinesType, Reads, Flows
<1>4. /\ lineEnds \subseteq lineEnds'
      /\ \A x \in lineEnds' \ lineEnds : \A i \in lineEnds : i < x
  <2>1. lineEnds = Newlines(sent) /\ lineEnds \subseteq 1..Len(sent)
    BY <1>1, EndsAreBytes DEF lineEnds, Ends, LinesType
  <2>2. lineEnds' = Newlines(sent) \cup (IF sent # <<>> THEN {Len(sent)} ELSE {})
    BY <1>1 DEF lineEnds, Ends, Newlines
  <2>3. \A i \in 1..Len(sent) : i # Len(sent) => i < Len(sent)
    BY <1>2
  <2> QED BY <2>1, <2>2, <2>3
<1>5. Len(sent) <= Len(sent') /\ \A i \in 1..Len(sent) : sent'[i] = sent[i]
  BY <1>1, <1>2
<1> QED BY <1>1, <1>2, <1>3, <1>4, <1>5, StreamGrows

\* Every step keeps the lines.
LEMMA LinesStep == FramingInv /\ LinesInv /\ [Next]_vars => LinesInv'
<1> SUFFICES ASSUME FramingInv, LinesInv, [Next]_vars PROVE LinesInv'
  OBVIOUS
<1>1. StreamType /\ LinesType /\ (stage = "reading" => Reads)
  BY DEF FramingInv, LinesInv
<1>2. CASE UNCHANGED <<stage, config, sent, pipe, buffer, eof, overflowed, tail, taken>> /\ exited' \in {exited, TRUE}
  <2>1. LinesType' /\ (NothingYet => NothingYet')
    BY <1>1, <1>2 DEF LinesType, NothingYet
  <2>2. ASSUME Reads PROVE Reads'
    <3>1. limit' = limit /\ size' = size /\ kept' = kept /\ gone' = gone /\ lineEnds' = lineEnds
      BY <1>2 DEF limit, size, kept, gone, lineEnds
    <3>2. Flows' /\ TailIsLast'
      BY <1>2, <2>2, <3>1 DEF Reads, Flows, TailIsLast, Framed
    <3>3. \A c \in Nat : TakenTo(c) => TakenTo(c)'
      BY <1>2, <3>1 DEF TakenTo
    <3> QED BY <1>2, <2>2, <3>1, <3>2, <3>3 DEF Reads
  <2> QED BY <1>2, <2>1, <2>2 DEF LinesInv
<1>3. CASE UNCHANGED vars \/ Exit
  BY <1>2, <1>3 DEF vars, Exit, settings, agent, stream, reader
<1>4. CASE Load
  <2>1. /\ stage = "importing" /\ stage' \in {"refused", "serving"}
        /\ UNCHANGED <<sent, pipe, exited, buffer, eof, overflowed, tail, taken>>
    BY <1>4 DEF Load, agent, stream, reader
  <2> QED BY <2>1 DEF LinesInv, LinesType, NothingYet
<1>5. ASSUME NEW a \in Arguments, Create(a) PROVE LinesInv'
  BY <1>5, CreateBegins
<1>6. ASSUME stage = "reading", stage' \in {"reading", "ended"}, LinesType', Reads' PROVE LinesInv'
  BY <1>6 DEF LinesInv
<1>7. ASSUME NEW b \in Bytes, Write(b) PROVE LinesInv'
  <2>1. stage = "reading" /\ stage' = "reading"
    BY <1>7 DEF Write, settings
  <2> QED BY <1>1, <1>6, <1>7, <2>1, WriteKeepsLines
<1>8. ASSUME NEW n \in 1..MaxChunk, Feed(n) PROVE LinesInv'
  <2>1. stage = "reading" /\ stage' = "reading"
    BY <1>8 DEF Feed, settings
  <2> QED BY <1>1, <1>6, <1>8, <2>1, FeedKeepsLines
<1>9. CASE FeedEof
  <2>1. stage = "reading" /\ stage' = "reading"
    BY <1>9 DEF FeedEof, settings
  <2> QED BY <1>1, <1>6, <1>9, <2>1, EofKeepsLines
<1>10. CASE Discard
  <2>1. stage = "reading" /\ stage' = "reading" /\ LinesType'
    BY <1>1, <1>10 DEF Discard, settings, agent, LinesType
  <2> QED BY <1>1, <1>6, <1>10, <2>1, DiscardKeepsLines
<1>11. CASE TakeLine
  <2>1. stage = "reading" /\ stage' = "reading" /\ UNCHANGED <<sent, exited, eof>> /\ overflowed' = FALSE
    BY <1>11 DEF TakeLine, settings, agent
  <2>2. Reads' /\ LinesType'
    BY <1>1, <1>11, <2>1, TakeLineKeepsLines DEF LinesType
  <2> QED BY <1>6, <2>1, <2>2
<1>12. CASE TakeRest
  <2>1. stage = "reading" /\ stage' \in {"reading", "ended"} /\ UNCHANGED <<sent, exited, eof>> /\ overflowed' = FALSE
    BY <1>12 DEF TakeRest, agent
  <2>2. Reads' /\ LinesType'
    BY <1>1, <1>12, <2>1, TakeRestKeepsLines DEF LinesType
  <2> QED BY <1>6, <2>1, <2>2
<1> QED BY <1>3, <1>4, <1>5, <1>7, <1>8, <1>9, <1>10, <1>11, <1>12 DEF Next, Transport, Read, Bytes

\* The lines kept are the last ones of the lines the agent wrote.
LEMMA LinesAreFramed == LinesInv => FramedSoFar
<1> SUFFICES ASSUME LinesInv, stage \in {"reading", "ended"}
             PROVE  /\ taken <= Len(Frames(sent, eof))
                    /\ tail = SubSeq(Frames(sent, eof), Max({1, taken - size + 1}), taken)
  BY DEF FramedSoFar, size
<1> DEFINE frames == Frames(sent, eof)
           first == Max({1, taken - size + 1})
<1>1. Reads /\ LinesType
  BY DEF LinesInv
<1>2. /\ taken \in Nat /\ size \in Nat \ {0} /\ kept = (IF taken < size THEN taken ELSE size)
      /\ tail \in Seq(Line) /\ Len(tail) = kept
  BY <1>1 DEF Reads, LinesType, kept, TailIsLast
<1>3. lineEnds \in SUBSET (1..Len(sent)) /\ Len(sent) \in Nat
  BY <1>1, EndsAreBytes DEF LinesType, lineEnds
<1>4. taken <= Cardinality(lineEnds) /\ Cardinality(lineEnds) \in Nat
  <2>1. PICK c \in Nat : TakenTo(c)
    BY <1>1 DEF Reads
  <2> QED BY <1>3, <2>1, RankIsNat DEF TakenTo
<1>5. /\ Len(frames) = Cardinality(lineEnds)
      /\ \A k \in 1..Cardinality(lineEnds) : frames[k] = Framed(NthLine(sent, lineEnds, k))
  BY <1>4 DEF Frames, lineEnds
<1> HIDE DEF frames
<1>6. first = taken - kept + 1
  <2>1. taken - size + 1 \in Int
    BY <1>2
  <2> QED BY <1>2, <2>1, MaxOfOneAnd
<1> HIDE DEF first
<1>7. \A i \in 1..kept : tail[i] = frames[taken - kept + i]
  <2>1. \A i \in 1..kept : taken - kept + i \in 1..Cardinality(lineEnds)
    BY <1>2, <1>4
  <2> QED BY <1>1, <1>5, <2>1 DEF Reads, TailIsLast
<1>8. \A k \in first..taken : frames[k] \in Line
  <2> SUFFICES ASSUME NEW k \in first..taken PROVE frames[k] \in Line
    OBVIOUS
  <2>1. k - (taken - kept) \in 1..kept /\ taken - kept + (k - (taken - kept)) = k
    BY <1>2, <1>6
  <2>2. tail[k - (taken - kept)] \in Line
    BY <1>2, <2>1
  <2> QED BY <1>7, <2>1, <2>2
<1>9. /\ SubSeq(frames, first, taken) \in Seq(Line)
      /\ Len(SubSeq(frames, first, taken)) = (IF first <= taken THEN taken - first + 1 ELSE 0)
      /\ \A i \in 1..taken - first + 1 : SubSeq(frames, first, taken)[i] = frames[first + i - 1]
  <2>1. first \in Int /\ taken \in Int
    BY <1>2, <1>6
  <2> QED BY <1>8, <2>1, SubSeqProperties
<1>10. Len(SubSeq(frames, first, taken)) = kept
  BY <1>2, <1>6, <1>9
<1>11. \A i \in 1..kept : SubSeq(frames, first, taken)[i] = tail[i]
  <2>1. \A i \in 1..kept : i \in 1..taken - first + 1 /\ first + i - 1 = taken - kept + i
    BY <1>2, <1>6
  <2> QED BY <1>7, <1>9, <2>1
<1>12. tail = SubSeq(frames, first, taken)
  BY <1>2, <1>9, <1>10, <1>11
<1> QED BY <1>4, <1>5, <1>12 DEF frames, first

\* However the agent's bytes are cut into chunks and wherever a line crosses
\* the limit: no line is split, joined, lost or repeated, a line of exactly
\* max_read bytes is kept, and one marker stands for each longer one.
THEOREM LinesAreKept == Spec => []FramedSoFar
<1>1. Init => LinesInv
  <2> SUFFICES ASSUME Init PROVE LinesInv
    OBVIOUS
  <2>1. /\ stage = "importing" /\ sent = <<>> /\ pipe = <<>> /\ buffer = <<>> /\ tail = <<>>
        /\ taken = 0 /\ exited = FALSE /\ eof = FALSE /\ overflowed = FALSE
    BY DEF Init
  <2>2. <<>> \in Seq(Bytes) /\ <<>> \in Seq(Line)
    OBVIOUS
  <2>3. LinesType /\ NothingYet
    BY <2>1, <2>2 DEF LinesType, NothingYet
  <2> QED BY <2>1, <2>3 DEF LinesInv
<1> QED BY <1>1, LinesStep, LinesAreFramed, FramingInvariant, PTL DEF Spec
====
