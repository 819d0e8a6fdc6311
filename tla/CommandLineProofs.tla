-------------------------- MODULE CommandLineProofs --------------------------
(***************************************************************************)
(* The lookup of a command line, for any package lists, any removals and   *)
(* any size of the log's buffers; and what openCache() removes, for any    *)
(* number of processes and any tables in the file there may be.            *)
(***************************************************************************)
EXTENDS CommandLine, SequenceTheorems, WellFoundedInduction, TLAPS

-----------------------------------------------------------------------------
(* Counting. *)

\* A set of numbers that has 0, and with a number its successor, has them all.
LEMMA CountedUp ==
  ASSUME NEW S \in SUBSET Nat, 0 \in S, \A n \in S : n + 1 \in S
  PROVE  S = Nat
<1> SUFFICES ASSUME S # Nat PROVE FALSE
  OBVIOUS
<1> DEFINE less == OpToRel(<, Nat)
           rest == Nat \ S
<1>1. IsWellFoundedOn(less, Nat)
  BY NatLessThanWellFounded
<1>2. \A x, y \in Nat : x < y => <<x, y>> \in less
  BY DEF OpToRel
<1>3. rest \subseteq Nat /\ rest # {}
  OBVIOUS
<1> HIDE DEF less
<1>4. PICK m \in rest : \A k \in rest : ~(<<k, m>> \in less)
  BY <1>1, <1>3, WFMin
<1>5. m \in Nat /\ m # 0 /\ m - 1 \in Nat /\ m - 1 < m /\ (m - 1) + 1 = m
  OBVIOUS
<1>6. m - 1 \in S
  BY <1>2, <1>4, <1>5
<1> QED BY <1>5, <1>6

\* Of a quotient nothing is needed but between which multiples it is.
LEMMA DivIs ==
  ASSUME NEW p \in Nat \ {0}, NEW x \in Nat, NEW k \in Nat
  PROVE  /\ x \div p \in Nat
         /\ k * p <= x /\ x < (k + 1) * p => x \div p = k
         /\ x < k * p => x \div p # k
<1> DEFINE q == x \div p
<1>1. q \in Nat /\ q * p <= x /\ x < (q + 1) * p
  BY SMTT(30)
<1> HIDE DEF q
<1>2. ASSUME NEW a \in Nat, NEW b \in Nat, a < b PROVE (a + 1) * p <= b * p
  <2>1. PICK d \in Nat : b = (a + 1) + d
    <3>1. b - (a + 1) \in Nat /\ b = (a + 1) + (b - (a + 1))
      BY <1>2
    <3> QED BY <3>1
  <2>2. b * p = (a + 1) * p + d * p /\ d * p \in Nat /\ (a + 1) * p \in Nat
    BY <2>1, SMTT(30)
  <2> QED BY <2>2
<1>3. q * p \in Nat /\ (q + 1) * p \in Nat /\ k * p \in Nat /\ (k + 1) * p \in Nat
  BY <1>1
<1>4. k < q => (k + 1) * p <= q * p
  BY <1>1, <1>2
<1>5. q < k => (q + 1) * p <= k * p
  BY <1>1, <1>2
<1>6. q = k \/ q < k \/ k < q
  BY <1>1
<1> QED BY <1>1, <1>3, <1>4, <1>5, <1>6 DEF q

-----------------------------------------------------------------------------
(* Those: the elements of a sequence that are in a set.                    *)

\* c has, for each number of elements, those among so many of the first.
Collects(c, R, s, S) ==
  /\ c \in [0..Len(s) -> Seq(R)]
  /\ c[0] = <<>>
  /\ \A i \in 1..Len(s) :
       c[i] = IF s[i] \in S THEN Append(c[i - 1], s[i]) ELSE c[i - 1]

\* There is such a function, begun with nothing and continued element by element.
LEMMA CollectsSome ==
  ASSUME NEW R, NEW s \in Seq(R), NEW S
  PROVE  \E c : Collects(c, R, s, S)
<1> DEFINE N == Len(s)
           Goes(n) == \E c \in [0..n -> Seq(R)] :
                        /\ c[0] = <<>>
                        /\ \A i \in 1..n :
                             c[i] = IF s[i] \in S THEN Append(c[i - 1], s[i]) ELSE c[i - 1]
           T == {n \in Nat : n <= N => Goes(n)}
<1>1. N \in Nat /\ \A i \in 1..N : s[i] \in R
  OBVIOUS
<1>2. Goes(0)
  <2> DEFINE c == [i \in 0..0 |-> <<>>]
  <2>1. c \in [0..0 -> Seq(R)] /\ c[0] = <<>> /\ 1..0 = {}
    OBVIOUS
  <2> QED BY <2>1
<1>3. ASSUME NEW n \in T PROVE n + 1 \in T
  <2> SUFFICES ASSUME n + 1 <= N PROVE Goes(n + 1)
    <3> HIDE DEF Goes
    <3> QED BY <1>1
  <2>1. n \in Nat /\ n + 1 \in 1..N /\ n <= N
    BY <1>1
  <2>0. Goes(n)
    BY <2>1
  <2>2. PICK c \in [0..n -> Seq(R)] :
          /\ c[0] = <<>>
          /\ \A i \in 1..n :
               c[i] = IF s[i] \in S THEN Append(c[i - 1], s[i]) ELSE c[i - 1]
    BY <2>0
  <2> DEFINE e == IF s[n + 1] \in S THEN Append(c[n], s[n + 1]) ELSE c[n]
             d == [i \in 0..(n + 1) |-> IF i = n + 1 THEN e ELSE c[i]]
  <2>3. c[n] \in Seq(R) /\ s[n + 1] \in R
    BY <1>1, <2>1
  <2>4. e \in Seq(R)
    BY <2>3
  <2> HIDE DEF e
  <2>5. d \in [0..(n + 1) -> Seq(R)]
    BY <2>1, <2>4
  <2>6. d[0] = <<>> /\ d[n + 1] = e
    BY <2>1, <2>2
  <2>7. \A i \in 0..n : d[i] = c[i]
    BY <2>1
  <2> HIDE DEF d
  <2>8. ASSUME NEW i \in 1..(n + 1)
        PROVE  d[i] = IF s[i] \in S THEN Append(d[i - 1], s[i]) ELSE d[i - 1]
    <3>1. CASE i = n + 1
      <4>1. i - 1 = n /\ n \in 0..n
        BY <2>1, <3>1
      <4> QED BY <2>6, <2>7, <3>1, <4>1 DEF e
    <3>2. CASE i # n + 1
      <4>1. i \in 1..n /\ i \in 0..n /\ i - 1 \in 0..n
        BY <2>1, <3>2
      <4> QED BY <2>2, <2>7, <4>1
    <3> QED BY <3>1, <3>2
  <2> QED BY <2>5, <2>6, <2>8
<1>4. N \in T
  <2>1. T \in SUBSET Nat /\ 0 \in T
    BY <1>2
  <2> HIDE DEF T
  <2> QED BY <1>1, <1>2, <1>3, <2>1, CountedUp
<1>5. Goes(N)
  <2> HIDE DEF Goes
  <2> QED BY <1>1, <1>4
<1> QED BY <1>5 DEF Collects

\* Those() is the last value of one.
LEMMA ThoseCollects ==
  ASSUME NEW R, NEW s \in Seq(R), NEW S
  PROVE  \E c : Collects(c, R, s, S) /\ Those(s, S) = c[Len(s)]
<1> DEFINE Rest(f) == [i \in 0..Len(s) |->
                         IF i = 0 THEN <<>>
                         ELSE IF s[i] \in S THEN Append(f[i - 1], s[i]) ELSE f[i - 1]]
           those == CHOOSE f : f = Rest(f)
<1>1. Len(s) \in Nat
  OBVIOUS
<1>2. \E f : f = Rest(f)
  <2>1. PICK c : Collects(c, R, s, S)
    BY CollectsSome
  <2>2. c \in [0..Len(s) -> Seq(R)] /\ c[0] = <<>>
    BY <2>1 DEF Collects
  <2>3. ASSUME NEW i \in 0..Len(s)
        PROVE  c[i] = IF i = 0 THEN <<>>
                      ELSE IF s[i] \in S THEN Append(c[i - 1], s[i]) ELSE c[i - 1]
    <3>1. i # 0 => i \in 1..Len(s)
      BY <1>1
    <3> QED BY <2>1, <3>1 DEF Collects
  <2>4. c = Rest(c)
    BY <2>2, <2>3
  <2> QED BY <2>4
<1>3. those = Rest(those)
  <2> HIDE DEF Rest
  <2> QED BY <1>2
<1>4. Those(s, S) = those[Len(s)]
  BY DEF Those
<1> HIDE DEF those
<1>5. those[0] = <<>> /\ DOMAIN those = 0..Len(s)
  BY <1>1, <1>3
<1>6. ASSUME NEW i \in 1..Len(s)
      PROVE  those[i] = IF s[i] \in S THEN Append(those[i - 1], s[i]) ELSE those[i - 1]
  <2>1. i \in 0..Len(s) /\ i # 0
    BY <1>1
  <2> QED BY <1>3, <2>1
<1>7. \A n \in 0..Len(s) : those[n] \in Seq(R)
  <2> DEFINE T == {n \in Nat : n <= Len(s) => those[n] \in Seq(R)}
  <2>1. 0 \in T
    BY <1>5
  <2>2. ASSUME NEW n \in T PROVE n + 1 \in T
    <3> SUFFICES ASSUME n + 1 <= Len(s) PROVE those[n + 1] \in Seq(R)
      OBVIOUS
    <3>1. n \in Nat /\ n + 1 \in 1..Len(s) /\ (n + 1) - 1 = n /\ n <= Len(s)
      BY <1>1
    <3>2. s[n + 1] \in R /\ those[n] \in Seq(R)
      BY <3>1
    <3>3. those[n + 1] = IF s[n + 1] \in S THEN Append(those[n], s[n + 1]) ELSE those[n]
      BY <1>6, <3>1
    <3> QED BY <3>2, <3>3
  <2>3. T = Nat
    <3>1. T \in SUBSET Nat
      OBVIOUS
    <3> HIDE DEF T
    <3> QED BY <2>1, <2>2, <3>1, CountedUp
  <2> QED BY <1>1, <2>3
<1>8. those \in [0..Len(s) -> Seq(R)]
  <2>1. those = [i \in 0..Len(s) |-> those[i]]
    BY <1>3, <1>5
  <2> QED BY <1>7, <2>1
<1> QED BY <1>4, <1>5, <1>6, <1>8 DEF Collects

\* What is collected depends on the elements seen, and on which of them are wanted.
LEMMA CollectsSame ==
  ASSUME NEW R, NEW s \in Seq(R), NEW t \in Seq(R), NEW S, NEW T, NEW c, NEW d,
         Collects(c, R, s, S), Collects(d, R, t, T),
         NEW m \in Nat, m <= Len(s), m <= Len(t),
         \A i \in 1..m : s[i] = t[i] /\ (s[i] \in S <=> t[i] \in T)
  PROVE  c[m] = d[m]
<1> DEFINE A == {n \in Nat : n <= m => c[n] = d[n]}
<1>1. 0 \in A
  BY DEF Collects
<1>2. ASSUME NEW n \in A PROVE n + 1 \in A
  <2> SUFFICES ASSUME n + 1 <= m PROVE c[n + 1] = d[n + 1]
    OBVIOUS
  <2>1. /\ n \in Nat /\ n <= m /\ (n + 1) - 1 = n
        /\ n + 1 \in 1..m /\ n + 1 \in 1..Len(s) /\ n + 1 \in 1..Len(t)
    OBVIOUS
  <2>2. c[n] = d[n]
    BY <2>1
  <2>3. c[n + 1] = IF s[n + 1] \in S THEN Append(c[n], s[n + 1]) ELSE c[n]
    BY <2>1 DEF Collects
  <2>4. d[n + 1] = IF t[n + 1] \in T THEN Append(d[n], t[n + 1]) ELSE d[n]
    BY <2>1 DEF Collects
  <2> QED BY <2>1, <2>2, <2>3, <2>4
<1>3. A = Nat
  <2>1. A \in SUBSET Nat
    OBVIOUS
  <2> HIDE DEF A
  <2> QED BY <1>1, <1>2, <2>1, CountedUp
<1> QED BY <1>3

\* Of the empty sequence there are none.
LEMMA ThoseOfNone == \A S : Those(<<>>, S) = <<>>
<1> TAKE S
<1>1. <<>> \in Seq({}) /\ Len(<<>>) = 0
  OBVIOUS
<1>2. PICK c : Collects(c, {}, <<>>, S) /\ Those(<<>>, S) = c[Len(<<>>)]
  BY <1>1, ThoseCollects
<1> QED BY <1>1, <1>2 DEF Collects

\* One more element is collected behind the others, or not.
LEMMA ThoseAppend ==
  ASSUME NEW R, NEW s \in Seq(R), NEW e \in R, NEW S, NEW T,
         \A i \in 1..Len(s) : s[i] \in S <=> s[i] \in T
  PROVE  Those(Append(s, e), T) = IF e \in T THEN Append(Those(s, S), e) ELSE Those(s, S)
<1> DEFINE t == Append(s, e)
           n == Len(s)
<1>1. /\ t \in Seq(R) /\ Len(t) = n + 1 /\ n \in Nat /\ t[n + 1] = e
      /\ \A i \in 1..n : t[i] = s[i]
  OBVIOUS
<1> HIDE DEF t
<1>2. PICK c : Collects(c, R, s, S) /\ Those(s, S) = c[n]
  BY ThoseCollects
<1>3. PICK d : Collects(d, R, t, T) /\ Those(t, T) = d[n + 1]
  BY <1>1, ThoseCollects
<1>4. c[n] = d[n]
  <2>1. \A i \in 1..n : s[i] = t[i] /\ (s[i] \in S <=> t[i] \in T)
    BY <1>1
  <2>2. n <= Len(s) /\ n <= Len(t)
    BY <1>1
  <2> HIDE DEF n
  <2> QED BY <1>1, <1>2, <1>3, <2>1, <2>2, CollectsSame
<1>5. n + 1 \in 1..Len(t) /\ (n + 1) - 1 = n
  BY <1>1
<1>6. d[n + 1] = IF t[n + 1] \in T THEN Append(d[n], t[n + 1]) ELSE d[n]
  <2> HIDE DEF n
  <2> QED BY <1>3, <1>5 DEF Collects
<1> QED BY <1>1, <1>2, <1>3, <1>4, <1>6 DEF t

\* They are elements of the sequence and of the set, and where there is one, they are
\* not none.
LEMMA ThoseAre ==
  ASSUME NEW R, NEW s \in Seq(R), NEW S
  PROVE  /\ Those(s, S) \in Seq(R)
         /\ Those(s, S) \in Seq({s[i] : i \in 1..Len(s)} \cap S)
         /\ \A i \in 1..Len(s) : s[i] \in S => Those(s, S) # <<>>
<1> DEFINE Wanted == {s[i] : i \in 1..Len(s)} \cap S
<1>1. PICK c : Collects(c, R, s, S) /\ Those(s, S) = c[Len(s)]
  BY ThoseCollects
<1>2. Len(s) \in Nat
  OBVIOUS
<1> DEFINE Right(n) == /\ c[n] \in Seq(Wanted)
                       /\ \A i \in 1..n : s[i] \in S => c[n] # <<>>
           T == {n \in Nat : n <= Len(s) => Right(n)}
<1>3. 0 \in T
  BY <1>1 DEF Collects
<1>4. ASSUME NEW n \in T PROVE n + 1 \in T
  <2> SUFFICES ASSUME n + 1 <= Len(s) PROVE Right(n + 1)
    OBVIOUS
  <2>1. n \in Nat /\ n + 1 \in 1..Len(s) /\ (n + 1) - 1 = n /\ n <= Len(s) /\ n \in 0..Len(s)
    BY <1>2
  <2>2. c[n + 1] = IF s[n + 1] \in S THEN Append(c[n], s[n + 1]) ELSE c[n]
    BY <1>1, <2>1 DEF Collects
  <2>3. Right(n)
    BY <2>1
  <2>4. CASE s[n + 1] \in S
    <3>1. s[n + 1] \in Wanted
      BY <2>1, <2>4
    <3> HIDE DEF Wanted
    <3>2. Append(c[n], s[n + 1]) \in Seq(Wanted) /\ Append(c[n], s[n + 1]) # <<>>
      BY <2>3, <3>1, AppendProperties
    <3> QED BY <2>2, <2>4, <3>2
  <2>5. CASE s[n + 1] \notin S
    <3>1. \A i \in 1..(n + 1) : s[i] \in S => i \in 1..n
      BY <2>1, <2>5
    <3> HIDE DEF Wanted
    <3> QED BY <2>2, <2>3, <2>5, <3>1
  <2> QED BY <2>4, <2>5
<1>5. T = Nat
  <2>1. T \in SUBSET Nat
    OBVIOUS
  <2> HIDE DEF T
  <2> QED BY <1>3, <1>4, <2>1, CountedUp
<1>6. Right(Len(s))
  BY <1>2, <1>5
<1>7. Those(s, S) \in Seq(R)
  <2>1. Len(s) \in 0..Len(s)
    BY <1>2
  <2> QED BY <1>1, <2>1 DEF Collects
<1> QED BY <1>1, <1>6, <1>7

-----------------------------------------------------------------------------
(* The lookup: who has which list, and what is written of it.              *)

Words == {"nothing found", "can not read", "absolute match", "filename found"}
Texts == Seq(PathNames \cup Words)
\* NoName is no channel, and no lookup.
Channels == {"error", "info", "msg"}
Abouts == {<<>>} \cup {Lists[i] : i \in 1..Size}
Unit == [channel : Channels, about : Abouts, n : Nat \ {0}, text : Texts]
Message == [channel : {NoName} \cup Channels, piece : Seq(Unit), rest : Seq(Unit)]

LookTypes ==
  /\ kind \in {NoName, "file", "text"} /\ pos \in 1..(Size + 1)
  /\ lookPc \in [Threads -> {"pop", "read", "end", "over"}]
  /\ item \in [Threads -> 0..Size] /\ hadMatch \in [Threads -> BOOLEAN]
  /\ message \in [Threads -> Message] /\ out \in Seq(Unit)

\* The lists that are there can be read.
ListsHaveLines(world) ==
  \A i \in 1..Size : Lists[i] \in DOMAIN world => world[Lists[i]].lines \in Seq(Texts)

\* A lookup is begun once, by an execution that has made the log.
BegunInv ==
  /\ kind # NoName => phase \in {"lookup", "find", "done"}
  /\ kind # NoName \/ phase \notin {"start", "done"} => AppStream \in {"stdout", "file"}
  /\ kind = NoName =>
       /\ PeekInit /\ message = [t \in Threads |-> NoMessage] /\ out = <<>>
       /\ \A t \in Threads : lookPc[t] = "pop" /\ item[t] = 0 /\ ~hadMatch[t]

\* What is left of a thread's message, in the buffer of its stream and in the writer.
Left(t) == message[t].piece \o message[t].rest

\* A thread has a list from when it picks it until it picks another one, and a message
\* about that list; at the end it has none.
HandInv ==
  /\ lookPc["other"] # "over"
  /\ item["main"] = item["other"] => item["main"] = 0
  /\ \A t \in Threads :
       /\ item[t] < pos
       /\ lookPc[t] = "read" => item[t] # 0
       /\ lookPc[t] \in {"read", "end"} => Silent(t)
       /\ lookPc[t] \in {"end", "over"} => item[t] = 0 /\ pos = Size + 1
       /\ Silent(t) <=> message[t].channel = NoName
       /\ ~Silent(t) => Left(t) # <<>>
       /\ message[t].channel \in {"msg", "error"} => lookPc[t] = "pop" /\ item[t] # 0
       /\ message[t].channel = "info" => lookPc[t] = "over"

\* What is left of the message about a list.
LeftOf(i) ==
  IF item["main"] = i THEN Left("main") ELSE IF item["other"] = i THEN Left("other") ELSE <<>>

Unread(i) == i >= pos \/ \E t \in Threads : lookPc[t] = "read" /\ item[t] = i

\* Of a list nothing is written before it is read, then what was found or the complaint,
\* and what is not written yet is left.
ListIs(i, channel, unused, texts) ==
  /\ \A t \in Threads : item[t] = i => message[t].channel \in {NoName, channel}
  /\ UnitsAbout(unused, Lists[i]) = <<>>
  /\ UnitsAbout(channel, Lists[i]) \o LeftOf(i) = Units(channel, Lists[i], texts)

ListInv(i) ==
  /\ Unread(i) => UnitsAbout("msg", Lists[i]) = <<>> /\ UnitsAbout("error", Lists[i]) = <<>>
  /\ ~Unread(i) =>
       \/ \E texts \in Seq(Texts) \ {<<>>} : ListIs(i, "error", "msg", texts)
       \/ \E texts \in Seq(Texts) :
            /\ ListIs(i, "msg", "error", texts)
            /\ Lists[i] \in DOMAIN fs => texts = Found(fs, Lists[i])

\* The last words are said when the main thread knows what it needs of the other one.
WordsOf(nothing) == IF nothing THEN <<<<"nothing found">>, <<>>>> ELSE <<<<>>>>

LastInv ==
  IF lookPc["main"] = "over"
  THEN /\ lookPc["other"] = "end" \/ (kind = "file" /\ hadMatch["main"])
       /\ UnitsAbout("info", <<>>) \o Left("main") =
            IF Quiet THEN <<>> ELSE Units("info", <<>>, WordsOf(NothingFound))
  ELSE UnitsAbout("info", <<>>) = <<>>

\* A thread has had a match if there is something written, or to be written.
MatchInv ==
  (\E t \in Threads : hadMatch[t]) <=>
    UnitsOf("msg") # <<>> \/ \E t \in Threads : message[t].channel = "msg"

\* A piece is a part of Piece units of its message, and all of it but for the last one.
About(t) == IF message[t].channel = "info" THEN <<>> ELSE Lists[item[t]]
Done(t) == Len(UnitsAbout(message[t].channel, About(t)))

PieceIs(t) ==
  \E k \in Nat :
    LET piece == message[t].piece
    IN /\ k * Piece <= Done(t) /\ Done(t) + Len(piece) <= (k + 1) * Piece
       /\ piece = <<>> => Done(t) = k * Piece
       /\ piece # <<>> /\ message[t].rest # <<>> => Done(t) + Len(piece) = (k + 1) * Piece

PieceInv == \A t \in Threads : ~Silent(t) => PieceIs(t)

\* One thread at a time is in the writer, the units there continue those of its piece
\* that were written last, and those are numbered.
WriterInv ==
  /\ \A t, u \in Threads : Flushing(t, "msg") /\ Flushing(u, "msg") => t = u
  /\ \A t \in Threads : Flushing(t, "msg") =>
       \A i \in DOMAIN UnitsOf("msg") : SamePiece(UnitsOf("msg")[i], Head(message[t].piece)) =>
         \A j \in i..Len(UnitsOf("msg")) : SamePiece(UnitsOf("msg")[i], UnitsOf("msg")[j])
  /\ \A i \in DOMAIN UnitsOf("msg") :
       UnitsOf("msg")[i].n <= Len(UnitsAbout("msg", UnitsOf("msg")[i].about))

LookInv ==
  /\ LookTypes /\ ListsHaveLines(fs) /\ BegunInv /\ HandInv
  /\ \A i \in 1..Size : ListInv(i)
  /\ LastInv /\ MatchInv /\ PieceInv /\ WriterInv /\ PiecesAreWhole("msg")

\* Some sequences of units.
LEMMA UnitsAre ==
  ASSUME out \in Seq(Unit), NEW c, NEW a
  PROVE  /\ UnitsOf(c) \in Seq(Unit) /\ UnitsAbout(c, a) \in Seq(Unit)
         /\ \A i \in 1..Len(UnitsOf(c)) :
              /\ UnitsOf(c)[i] \in Unit
              /\ UnitsOf(c)[i].about = a => UnitsAbout(c, a) # <<>>
<1>1. UnitsOf(c) \in Seq(Unit)
  BY ThoseAre DEF UnitsOf
<1> DEFINE units == UnitsOf(c)
           S == {u \in Range(units) : u.about = a}
<1>2. UnitsAbout(c, a) = Those(units, S)
  BY DEF UnitsAbout
<1>3. units \in Seq(Unit)
  BY <1>1
<1> HIDE DEF units
<1>4. Those(units, S) \in Seq(Unit) /\ \A i \in 1..Len(units) : units[i] \in S => Those(units, S) # <<>>
  <2> HIDE DEF S
  <2> QED BY <1>3, ThoseAre
<1>5. \A i \in 1..Len(units) : units[i] \in Unit /\ (units[i].about = a => units[i] \in S)
  BY <1>3 DEF Range
<1> QED BY <1>2, <1>3, <1>4, <1>5 DEF units

\* One more unit is behind those of its channel, and behind those of what it is about.
LEMMA CopyUnits ==
  ASSUME out \in Seq(Unit), NEW e \in Unit, out' = Append(out, e), NEW c, NEW a
  PROVE  /\ UnitsOf(c)' = IF e.channel = c THEN Append(UnitsOf(c), e) ELSE UnitsOf(c)
         /\ UnitsAbout(c, a)' = IF e.channel = c /\ e.about = a THEN Append(UnitsAbout(c, a), e)
                                ELSE UnitsAbout(c, a)
<1> DEFINE S == {u \in Range(out) : u.channel = c}
           T == {u \in Range(out') : u.channel = c}
<1>1. /\ out' \in Seq(Unit) /\ Len(out') = Len(out) + 1 /\ Len(out) \in Nat
      /\ out'[Len(out) + 1] = e /\ \A i \in 1..Len(out) : out'[i] = out[i]
  OBVIOUS
<1>2. \A i \in 1..Len(out) : out[i] \in S <=> out[i] \in T
  <2> SUFFICES ASSUME NEW i \in 1..Len(out) PROVE out[i] \in Range(out) /\ out[i] \in Range(out')
    OBVIOUS
  <2>1. i \in DOMAIN out /\ i \in DOMAIN out'
    BY <1>1
  <2> QED BY <1>1, <2>1 DEF Range
<1>3. e \in T <=> e.channel = c
  <2>1. Len(out) + 1 \in DOMAIN out'
    BY <1>1
  <2>2. e \in Range(out')
    BY <1>1, <2>1 DEF Range
  <2> QED BY <2>2
<1>4. UnitsOf(c)' = IF e \in T THEN Append(UnitsOf(c), e) ELSE UnitsOf(c)
  <2>1. UnitsOf(c)' = Those(out', T) /\ UnitsOf(c) = Those(out, S)
    BY DEF UnitsOf
  <2> HIDE DEF S, T
  <2> QED BY <1>2, <2>1, ThoseAppend
<1>5. UnitsOf(c)' = IF e.channel = c THEN Append(UnitsOf(c), e) ELSE UnitsOf(c)
  BY <1>3, <1>4
<1> HIDE DEF S, T
<1> DEFINE s == UnitsOf(c)
           s1 == UnitsOf(c)'
           A == {u \in Range(s) : u.about = a}
           B == {u \in Range(s1) : u.about = a}
<1>6. UnitsAbout(c, a) = Those(s, A) /\ UnitsAbout(c, a)' = Those(s1, B)
  BY DEF UnitsAbout
<1>7. s \in Seq(Unit)
  BY UnitsAre
<1>8. CASE e.channel # c
  <2>1. s1 = s
    BY <1>5, <1>8
  <2> HIDE DEF s, s1
  <2> QED BY <1>5, <1>6, <1>8, <2>1
<1>9. CASE e.channel = c
  <2>1. s1 = Append(s, e)
    BY <1>5, <1>9
  <2> HIDE DEF s, s1
  <2>2. \A i \in 1..Len(s) : s[i] \in A <=> s[i] \in B
    <3> SUFFICES ASSUME NEW i \in 1..Len(s) PROVE s[i] \in Range(s) /\ s[i] \in Range(s1)
      OBVIOUS
    <3>1. i \in DOMAIN s /\ i \in DOMAIN s1 /\ s1[i] = s[i]
      BY <1>7, <2>1
    <3> QED BY <3>1 DEF Range
  <2>3. e \in B <=> e.about = a
    <3>1. Len(s) + 1 \in DOMAIN s1 /\ s1[Len(s) + 1] = e
      BY <1>7, <2>1
    <3> QED BY <3>1 DEF Range
  <2>4. Those(Append(s, e), B) = IF e \in B THEN Append(Those(s, A), e) ELSE Those(s, A)
    <3>1. /\ s \in Seq(Unit) /\ e \in Unit
          /\ \A i \in 1..Len(s) : s[i] \in A <=> s[i] \in B
      BY <1>7, <2>2
    <3> HIDE DEF A, B
    <3> QED BY ONLY <3>1, ThoseAppend
  <2> QED BY <1>5, <1>6, <1>9, <2>1, <2>3, <2>4
<1> QED BY <1>8, <1>9

\* As long as nothing is written, what was written stays.
LEMMA UnitsStay ==
  ASSUME UNCHANGED out
  PROVE  \A c, a : UnitsOf(c)' = UnitsOf(c) /\ UnitsAbout(c, a)' = UnitsAbout(c, a)
BY DEF UnitsOf, UnitsAbout

\* The units of a message.
LEMMA UnitsOfMessage ==
  ASSUME NEW c \in Channels, NEW a \in Abouts, NEW texts \in Seq(Texts)
  PROVE  /\ Units(c, a, texts) \in Seq(Unit) /\ Len(Units(c, a, texts)) = Len(texts)
         /\ \A i \in 1..Len(texts) :
              Units(c, a, texts)[i] = [channel |-> c, about |-> a, n |-> i, text |-> texts[i]]
<1>1. Len(texts) \in Nat /\ DOMAIN texts = 1..Len(texts) /\ \A i \in 1..Len(texts) : texts[i] \in Texts
  OBVIOUS
<1> DEFINE u == [i \in 1..Len(texts) |-> [channel |-> c, about |-> a, n |-> i, text |-> texts[i]]]
<1>2. Units(c, a, texts) = u
  BY <1>1 DEF Units
<1>3. \A i \in 1..Len(texts) : [channel |-> c, about |-> a, n |-> i, text |-> texts[i]] \in Unit
  BY <1>1 DEF Unit
<1>4. u \in [1..Len(texts) -> Unit]
  BY <1>3
<1>5. u \in Seq(Unit) /\ Len(u) = Len(texts)
  BY <1>1, <1>4
<1> QED BY <1>2, <1>5

\* Units that continue those of their channel about the same.
Continues(s, left, c, a) ==
  \A r \in 1..Len(left) :
    left[r].channel = c /\ left[r].about = a /\ left[r].n = Len(s) + r

\* The unit that is next continues those that are written.
LEMMA NextUnit ==
  ASSUME NEW c \in Channels, NEW a \in Abouts, NEW texts \in Seq(Texts),
         NEW s \in Seq(Unit), NEW left \in Seq(Unit), s \o left = Units(c, a, texts), left # <<>>
  PROVE  /\ Continues(s, left, c, a)
         /\ Append(s, Head(left)) \o Tail(left) = Units(c, a, texts)
<1> DEFINE u == Units(c, a, texts)
<1>1. /\ u \in Seq(Unit) /\ Len(u) = Len(texts)
      /\ \A i \in 1..Len(texts) : u[i].channel = c /\ u[i].about = a /\ u[i].n = i
  <2>1. /\ u \in Seq(Unit) /\ Len(u) = Len(texts)
        /\ \A i \in 1..Len(texts) :
             u[i] = [channel |-> c, about |-> a, n |-> i, text |-> texts[i]]
    BY UnitsOfMessage
  <2> HIDE DEF u
  <2>2. ASSUME NEW i \in 1..Len(texts)
        PROVE  u[i].channel = c /\ u[i].about = a /\ u[i].n = i
    <3>1. u[i] = [channel |-> c, about |-> a, n |-> i, text |-> texts[i]]
      BY <2>1
    <3> QED BY <3>1
  <2> QED BY <2>1, <2>2
<1>2. u = s \o left
  OBVIOUS
<1> HIDE DEF u
<1>3. Len(u) = Len(s) + Len(left) /\ \A r \in 1..Len(left) : u[Len(s) + r] = left[r]
  BY <1>2
<1>4. Append(s, Head(left)) \o Tail(left) = s \o left
  <2>1. left = <<Head(left)>> \o Tail(left) /\ Append(s, Head(left)) = s \o <<Head(left)>>
    OBVIOUS
  <2>2. <<Head(left)>> \in Seq(Unit) /\ Tail(left) \in Seq(Unit)
    OBVIOUS
  <2> QED BY <2>1, <2>2, ConcatAssociative
<1>5. \A r \in 1..Len(left) : Len(s) + r \in 1..Len(texts)
  BY <1>1, <1>3
<1> QED BY <1>1, <1>2, <1>3, <1>4, <1>5 DEF u, Continues

-----------------------------------------------------------------------------
(* The writer.                                                             *)

\* The threads that log are the two of the lookup.
LEMMA ThreadsAre == Threads = {"main", "other"} /\ Loggers = Threads
BY LookupAssumption DEF Threads

\* No message has no channel, and nothing to be written.
LEMMA NoMessageIs ==
  /\ NoMessage.channel = NoName /\ NoMessage.piece = <<>> /\ NoMessage.rest = <<>>
  /\ NoName \notin Channels
BY DEF NoMessage, NoName, Channels

\* The first element of two sequences that follow each other is that of the first one.
LEMMA HeadOfBoth ==
  ASSUME NEW U, NEW p \in Seq(U), NEW r \in Seq(U), p # <<>>
  PROVE  /\ p \o r # <<>> /\ Head(p \o r) = Head(p) /\ Tail(p \o r) = Tail(p) \o r
         /\ Len(p) \in Nat \ {0} /\ Head(p) \in U /\ Tail(p) \in Seq(U)
         /\ Len(p) = 1 <=> Tail(p) = <<>>
<1>1. Head(p \o r) = Head(p)
  OBVIOUS
<1>2. Tail(p \o r) = Tail(p) \o r
  OBVIOUS
<1>3. p \o r # <<>>
  BY ConcatEqualIffEmpty
<1>4. Len(p) \in Nat \ {0} /\ Head(p) \in U /\ Tail(p) \in Seq(U) /\ Len(Tail(p)) = Len(p) - 1
  OBVIOUS
<1> DEFINE q == Tail(p)
<1>5. q \in Seq(U) /\ Len(q) = Len(p) - 1
  BY <1>4
<1> HIDE DEF q
<1>6. Len(q) = 0 <=> q = <<>>
  BY <1>5, EmptySeq
<1> QED BY <1>1, <1>2, <1>3, <1>4, <1>5, <1>6 DEF q

\* What is written by and by is the same message.
LEMMA MessageIs ==
  ASSUME NEW m \in Message, NEW q \in Seq(Unit)
  PROVE  /\ [m EXCEPT !.piece = q] = [channel |-> m.channel, piece |-> q, rest |-> m.rest]
         /\ [m EXCEPT !.piece = q] \in Message
         /\ m.channel \in {NoName} \cup Channels /\ m.piece \in Seq(Unit) /\ m.rest \in Seq(Unit)
<1> DEFINE A == {NoName} \cup Channels
           B == Seq(Unit)
<1>1. m \in [channel : A, piece : B, rest : B] /\ q \in B
  BY DEF Message
<1> HIDE DEF A, B
<1>2. [m EXCEPT !.piece = q] = [channel |-> m.channel, piece |-> q, rest |-> m.rest]
  BY <1>1
<1>3. [m EXCEPT !.piece = q] \in [channel : A, piece : B, rest : B]
  BY <1>1
<1>4. m.channel \in A /\ m.piece \in B /\ m.rest \in B
  BY <1>1
<1> QED BY <1>2, <1>3, <1>4 DEF A, B, Message

\* A message of any channel, piece and rest.
LEMMA AMessage ==
  ASSUME NEW c \in {NoName} \cup Channels, NEW q \in Seq(Unit), NEW r \in Seq(Unit)
  PROVE  [channel |-> c, piece |-> q, rest |-> r] \in Message
BY DEF Message

\* What is left of a message are units, and messages say what they are about.
LEMMA LeftIs ==
  ASSUME LookTypes, NEW t \in Threads
  PROVE  /\ message[t] \in Message /\ Left(t) \in Seq(Unit)
         /\ message[t].piece \in Seq(Unit) /\ message[t].rest \in Seq(Unit)
         /\ Silent(t) => message[t].channel = NoName /\ Left(t) = <<>>
         /\ message[t].piece = <<>> => Left(t) = message[t].rest
         /\ message[t].rest = <<>> => Left(t) = message[t].piece
<1>1. message[t] \in Message
  BY DEF LookTypes
<1>2. message[t].piece \in Seq(Unit) /\ message[t].rest \in Seq(Unit)
  BY <1>1 DEF Message
<1>3. Left(t) \in Seq(Unit)
  BY <1>2 DEF Left
<1>4. Silent(t) => message[t].channel = NoName /\ message[t].piece = <<>> /\ message[t].rest = <<>>
  BY NoMessageIs DEF Silent
<1>5. message[t].piece = <<>> => Left(t) = message[t].rest
  BY <1>2 DEF Left
<1>6. message[t].rest = <<>> => Left(t) = message[t].piece
  BY <1>2 DEF Left
<1> QED BY <1>1, <1>2, <1>3, <1>4, <1>5, <1>6

\* Copying takes the first unit of what is left.
LEMMA CopyIs ==
  ASSUME LookTypes, NEW t \in Threads, Copy(t)
  PROVE  /\ Left(t) # <<>> /\ Head(Left(t)) \in Unit /\ out' = Append(out, Head(Left(t)))
         /\ Head(Left(t)) = Head(message[t].piece)
         /\ Left(t)' = Tail(Left(t))
         /\ message' \in [Threads -> Message] /\ out' \in Seq(Unit)
         /\ message'[t].piece = Tail(message[t].piece) /\ message'[t].rest = message[t].rest
         /\ IF Left(t)' = <<>> THEN message'[t] = NoMessage
            ELSE message'[t].channel = message[t].channel
         /\ \A u \in Threads \ {t} : message'[u] = message[u] /\ Left(u)' = Left(u)
<1> DEFINE p == message[t].piece
           r == message[t].rest
           m == [channel |-> message[t].channel, piece |-> Tail(p), rest |-> r]
<1>1. message[t] \in Message /\ p \in Seq(Unit) /\ r \in Seq(Unit) /\ p # <<>>
  BY LeftIs DEF Copy
<1>2. /\ Len(p) \in Nat \ {0} /\ Tail(p) \in Seq(Unit) /\ Head(p) \in Unit
      /\ Len(p) = 1 <=> Tail(p) = <<>>
  <2> HIDE DEF p, r
  <2> QED BY <1>1, HeadOfBoth
<1>3. /\ p \o r # <<>> /\ Head(p \o r) = Head(p) /\ Tail(p \o r) = Tail(p) \o r
      /\ Tail(p) \o r = <<>> <=> Tail(p) = <<>> /\ r = <<>>
  <2> HIDE DEF p, r
  <2>1. p \o r # <<>> /\ Head(p \o r) = Head(p) /\ Tail(p \o r) = Tail(p) \o r
    BY <1>1, HeadOfBoth
  <2>2. Tail(p) \o r = <<>> <=> Tail(p) = <<>> /\ r = <<>>
    BY <1>1, <1>2, ConcatEqualIffEmpty
  <2> QED BY <2>1, <2>2
<1>4. message[t].channel \in {NoName} \cup Channels
  BY <1>1 DEF Message
<1>5. m \in Message
  BY <1>1, <1>2, <1>4, AMessage
<1>6. NoMessage \in Message
  <2>1. <<>> \in Seq(Unit)
    OBVIOUS
  <2> QED BY <2>1, AMessage DEF NoMessage, NoName
<1>7. message' = [message EXCEPT ![t] = IF Len(p) = 1 /\ r = <<>> THEN NoMessage
                                        ELSE m]
  <2>1. message' = [message EXCEPT ![t] = IF Len(p) = 1 /\ r = <<>> THEN NoMessage
                                          ELSE [message[t] EXCEPT !.piece = Tail(p)]]
    BY DEF Copy
  <2>2. [message[t] EXCEPT !.piece = Tail(p)] = m
    BY <1>1, <1>2, MessageIs
  <2> QED BY <2>1, <2>2
<1>8. message \in [Threads -> Message]
  BY DEF LookTypes
<1>10. message'[t] = IF Len(p) = 1 /\ r = <<>> THEN NoMessage ELSE m
  BY <1>7, <1>8
<1>11. \A u \in Threads \ {t} : message'[u] = message[u]
  BY <1>7, <1>8
<1>12. message' \in [Threads -> Message]
  BY <1>5, <1>6, <1>7, <1>8
<1>13. message'[t].piece = Tail(p) /\ message'[t].rest = r
  <2>1. CASE Len(p) = 1 /\ r = <<>>
    BY <1>2, <1>10, <2>1, NoMessageIs
  <2>2. CASE ~(Len(p) = 1 /\ r = <<>>)
    BY <1>10, <2>2
  <2> QED BY <2>1, <2>2
<1>14. Left(t)' = Tail(p) \o r /\ Left(t) = p \o r
  BY <1>13 DEF Left
<1>15. IF Left(t)' = <<>> THEN message'[t] = NoMessage ELSE message'[t].channel = message[t].channel
  BY <1>2, <1>3, <1>10, <1>14
<1>16. out' = Append(out, Head(p)) /\ out' \in Seq(Unit)
  <2>1. out' = Append(out, Head(p))
    BY DEF Copy
  <2>2. out \in Seq(Unit)
    BY DEF LookTypes
  <2> HIDE DEF p
  <2> QED BY <1>2, <2>1, <2>2
<1>17. \A u \in Threads \ {t} : Left(u)' = Left(u)
  BY <1>11 DEF Left
<1> QED BY <1>2, <1>3, <1>11, <1>12, <1>13, <1>14, <1>15, <1>16, <1>17

\* Flushing takes nothing of what is left: its first units become the piece.
LEMMA FlushIs ==
  ASSUME LookTypes, NEW t \in Threads, ~Silent(t) => Left(t) # <<>>, Flush(t)
  PROVE  /\ Left(t)' = Left(t) /\ Left(t) # <<>> /\ UNCHANGED out
         /\ message' \in [Threads -> Message]
         /\ message'[t].channel = message[t].channel
         /\ message[t].piece = <<>> /\ message[t].rest = Left(t)
         /\ \E n \in 1..Piece :
              /\ n <= Len(Left(t)) /\ n # Piece => n = Len(Left(t))
              /\ message'[t].piece = SubSeq(Left(t), 1, n)
              /\ message'[t].rest = SubSeq(Left(t), n + 1, Len(Left(t)))
              /\ Len(message'[t].piece) = n /\ message'[t].piece # <<>>
              /\ Head(message'[t].piece) = Head(Left(t))
              /\ message'[t].rest # <<>> => n = Piece
         /\ \A u \in Threads \ {t} :
              /\ message'[u] = message[u] /\ Left(u)' = Left(u)
              /\ ~Flushing(u, message[t].channel)
<1> DEFINE r == message[t].rest
           n == IF Len(r) < Piece THEN Len(r) ELSE Piece
           p1 == SubSeq(r, 1, n)
           r1 == SubSeq(r, n + 1, Len(r))
<1>1. /\ message[t] \in Message /\ r \in Seq(Unit) /\ message[t].piece = <<>> /\ Left(t) = r
      /\ ~Silent(t) /\ r # <<>>
  BY LeftIs DEF Flush, GiveAway
<1>2. Piece \in Nat \ {0} /\ Len(r) \in Nat \ {0} /\ n \in 1..Piece /\ n <= Len(r) /\ n \in Nat
      /\ (n # Piece => n = Len(r))
  BY <1>1, LogAssumption
<1>3. message' = [message EXCEPT ![t].piece = p1, ![t].rest = r1]
  BY DEF Flush, GiveAway
<1>4. message \in [Threads -> Message]
  BY DEF LookTypes
<1> HIDE DEF n
<1>5. /\ p1 \in Seq(Unit) /\ Len(p1) = n /\ p1 # <<>> /\ Head(p1) = Head(r)
      /\ r1 \in Seq(Unit) /\ Len(r1) = Len(r) - n /\ p1 \o r1 = r
      /\ r1 # <<>> => n # Len(r)
  <2>1. p1 \in Seq(Unit) /\ Len(p1) = n /\ p1[1] = r[1]
    BY <1>1, <1>2
  <2>2. r1 \in Seq(Unit) /\ Len(r1) = Len(r) - n
    BY <1>1, <1>2
  <2>3. p1 \o r1 = SubSeq(r, 1, Len(r))
    <3>1. 1 \in 1..(Len(r) + 1) /\ n \in 0..Len(r) /\ Len(r) \in n..Len(r) /\ n \in (1 - 1)..Len(r)
      BY <1>2
    <3> QED BY <1>1, <3>1, ConcatAdjacentSubSeq
  <2>4. SubSeq(r, 1, Len(r)) = r
    BY <1>1, SubSeqFull
  <2>5. p1 # <<>> /\ Head(p1) = Head(r)
    BY <1>1, <1>2, <2>1
  <2>6. r1 # <<>> => n # Len(r)
    BY <1>2, <2>2
  <2> QED BY <2>1, <2>2, <2>3, <2>4, <2>5, <2>6
<1> HIDE DEF p1, r1
<1>6. message[t].channel \in {NoName} \cup Channels
  BY <1>1 DEF Message
<1>7. message'[t] = [channel |-> message[t].channel, piece |-> p1, rest |-> r1]
  BY <1>1, <1>3, <1>4 DEF Message
<1>8. message'[t] \in Message
  BY <1>5, <1>6, <1>7, AMessage
<1>9. \A u \in Threads \ {t} : message'[u] = message[u]
  BY <1>3, <1>4
<1>10. message' \in [Threads -> Message]
  <2>1. DOMAIN message' = Threads /\ message' = [u \in Threads |-> message'[u]]
    BY <1>3, <1>4
  <2> QED BY <1>4, <1>8, <1>9, <2>1
<1>11. message'[t].channel = message[t].channel /\ message'[t].piece = p1 /\ message'[t].rest = r1
  BY <1>7
<1>12. Left(t)' = p1 \o r1
  BY <1>11 DEF Left
<1>13. \A u \in Threads \ {t} : Left(u)' = Left(u) /\ ~Flushing(u, message[t].channel)
  BY <1>9, ThreadsAre DEF Left, Flush
<1>14. UNCHANGED out
  BY DEF Flush, GiveAway
<1>15. /\ n \in 1..Piece /\ n <= Len(Left(t)) /\ (n # Piece => n = Len(Left(t)))
       /\ message'[t].piece = SubSeq(Left(t), 1, n)
       /\ message'[t].rest = SubSeq(Left(t), n + 1, Len(Left(t)))
       /\ Len(message'[t].piece) = n /\ message'[t].piece # <<>>
       /\ Head(message'[t].piece) = Head(Left(t))
       /\ message'[t].rest # <<>> => n = Piece
  BY <1>1, <1>2, <1>5, <1>11 DEF p1, r1
<1> QED BY <1>1, <1>5, <1>9, <1>10, <1>11, <1>12, <1>13, <1>14, <1>15

\* A message is about a list, or the last words, and what is left of it continues what
\* has been written.
LEMMA Told ==
  ASSUME LookInv, NEW t \in Threads, ~Silent(t)
  PROVE  /\ message[t].channel \in Channels /\ About(t) \in Abouts
         /\ IF message[t].channel = "info" THEN t = "main" /\ lookPc[t] = "over" /\ item[t] = 0
            ELSE item[t] \in 1..Size /\ ~Unread(item[t]) /\ About(t) = Lists[item[t]] /\ lookPc[t] = "pop"
         /\ \E texts \in Seq(Texts) :
              UnitsAbout(message[t].channel, About(t)) \o Left(t)
                = Units(message[t].channel, About(t), texts)
<1> DEFINE c == message[t].channel
           i == item[t]
<1>1. message[t] \in Message /\ Left(t) # <<>> /\ c # NoName
  BY LeftIs DEF LookInv, HandInv
<1>2. c \in Channels
  BY <1>1 DEF Message
<1>3. CASE c = "info"
  <2>1. lookPc[t] = "over" /\ t = "main" /\ item[t] = 0
    BY <1>3, ThreadsAre DEF LookInv, HandInv
  <2>2. About(t) = <<>> /\ About(t) \in Abouts
    BY <1>3 DEF About, Abouts
  <2>3. UnitsAbout("info", <<>>) \o Left("main") =
          IF Quiet THEN <<>> ELSE Units("info", <<>>, WordsOf(NothingFound))
    BY <2>1 DEF LookInv, LastInv
  <2>4. ~Quiet
    <3>1. UnitsAbout("info", <<>>) \in Seq(Unit) /\ Left("main") \in Seq(Unit)
      BY <2>1, UnitsAre, LeftIs DEF LookInv, LookTypes
    <3>2. UnitsAbout("info", <<>>) \o Left("main") # <<>>
      <4> DEFINE s == UnitsAbout("info", <<>>)
                 u == Left("main")
      <4>1. s \in Seq(Unit) /\ u \in Seq(Unit) /\ u # <<>>
        BY <1>1, <2>1, <3>1
      <4> HIDE DEF s, u
      <4>2. s \o u # <<>>
        BY <4>1, ConcatEqualIffEmpty
      <4> QED BY <4>2 DEF s, u
    <3> QED BY <2>3, <3>2
  <2>5. WordsOf(NothingFound) \in Seq(Texts)
    <3>1. <<>> \in Texts /\ <<"nothing found">> \in Texts
      BY DEF Texts, Words
    <3> HIDE DEF NothingFound
    <3>2. \A v, w \in Texts : <<v, w>> \in Seq(Texts) /\ <<v>> \in Seq(Texts)
      OBVIOUS
    <3>3. <<<<"nothing found">>, <<>>>> \in Seq(Texts) /\ <<<<>>>> \in Seq(Texts)
      BY <3>1, <3>2, Zenon
    <3> QED BY <3>3 DEF WordsOf
  <2> QED BY <1>2, <1>3, <2>1, <2>2, <2>3, <2>4, <2>5
<1>4. CASE c # "info"
  <2>1. c \in {"msg", "error"} /\ lookPc[t] = "pop" /\ i # 0 /\ i < pos /\ i \in 0..Size
    BY <1>2, <1>4 DEF Channels, LookInv, HandInv, LookTypes
  <2>2. i \in 1..Size /\ About(t) = Lists[i] /\ About(t) \in Abouts
    BY <1>4, <2>1, SizeAssumption DEF About, Abouts
  <2>3. ~Unread(i)
    <3>1. ~(i >= pos)
      <4>1. pos \in 1..(Size + 1)
        BY DEF LookInv, LookTypes
      <4> QED BY <2>1, <2>2, <4>1, SizeAssumption
    <3>2. \A u \in Threads : item[u] = i => u = t
      BY <2>1, ThreadsAre DEF LookInv, HandInv
    <3> QED BY <2>1, <3>1, <3>2 DEF Unread
  <2>4. LeftOf(i) = Left(t)
    <3>1. item["main"] = item["other"] => item["main"] = 0
      BY DEF LookInv, HandInv
    <3>2. i # 0 /\ (t = "main" \/ t = "other")
      BY <2>1, ThreadsAre
    <3> HIDE DEF Left
    <3>3. CASE t = "main"
      <4>1. item["main"] = i /\ item["other"] # i
        BY <3>1, <3>2, <3>3
      <4> QED BY ONLY <3>3, <4>1 DEF LeftOf
    <3>4. CASE t = "other"
      <4>1. item["main"] # i /\ item["other"] = i
        BY <3>1, <3>2, <3>4
      <4> QED BY ONLY <3>4, <4>1 DEF LeftOf
    <3> QED BY <3>2, <3>3, <3>4
  <2>5. \E texts \in Seq(Texts) : ListIs(i, "error", "msg", texts) \/ ListIs(i, "msg", "error", texts)
    BY <2>2, <2>3 DEF LookInv, ListInv
  <2>6. PICK texts \in Seq(Texts) : ListIs(i, c, IF c = "msg" THEN "error" ELSE "msg", texts)
    BY <2>1, <2>5, <1>1 DEF ListIs
  <2>7. UnitsAbout(c, About(t)) \o Left(t) = Units(c, About(t), texts)
    BY <2>2, <2>4, <2>6 DEF ListIs
  <2> QED BY <1>2, <1>4, <2>1, <2>2, <2>3, <2>7
<1> QED BY <1>3, <1>4

-----------------------------------------------------------------------------
(* What is found in a list.                                                *)

\* What is found are texts, as long as the list is there.
LEMMA FoundIs ==
  ASSUME NEW world, ListsHaveLines(world), NEW i \in 1..Size, Lists[i] \in DOMAIN world
  PROVE  Found(world, Lists[i]) \in Seq(Texts)
<1> DEFINE body == Body(world, Lists[i])
           lines == world[Lists[i]].lines
<1>1. body \in Seq(Texts)
  <2>1. lines \in Seq(Texts)
    BY DEF ListsHaveLines
  <2>2. body = SubSeq(lines, LookHeader + 1, Len(lines))
    BY DEF Body
  <2> HIDE DEF lines, body
  <2> QED BY <2>1, <2>2 DEF LookHeader
<1> HIDE DEF body
<1>2. \A S : Those(body, S) \in Seq(Texts)
  BY <1>1, ThoseAre
<1>3. Collected(world, Lists[i], what) \in Seq(Texts)
  BY <1>2 DEF Collected, body
<1>4. Matches(world, Lists[i], what) \in Seq(Texts)
  <2> DEFINE found == Those(body, {l \in Range(body) : FileNameMatch(l, what)})
             match == IF SameOrIncoming(found[1], what) THEN <<"absolute match">>
                      ELSE <<"filename found">>
  <2>1. Matches(world, Lists[i], what) = IF found = <<>> THEN <<>> ELSE <<match, found[1]>>
    BY DEF Matches, body
  <2>2. found \in Seq(Texts)
    BY <1>2
  <2>3. match \in Texts
    <3>1. <<"absolute match">> \in Texts /\ <<"filename found">> \in Texts
      BY DEF Texts, Words
    <3> QED BY <3>1
  <2> HIDE DEF found, match
  <2>4. found # <<>> => found[1] \in Texts
    BY <2>2
  <2>5. \A v, w \in Texts : <<v, w>> \in Seq(Texts)
    OBVIOUS
  <2>6. <<>> \in Seq(Texts)
    OBVIOUS
  <2> QED BY <2>1, <2>3, <2>4, <2>5, <2>6
<1> QED BY <1>3, <1>4 DEF Found

\* What is found in a list that has not been removed does not change.
LEMMA FoundStays ==
  ASSUME UNCHANGED <<kind, what>>, NEW list,
         list \in DOMAIN fs, list \in DOMAIN fs', fs'[list] = fs[list]
  PROVE  Found(fs, list)' = Found(fs, list)
<1> DEFINE lines(b, w) == Those(b, {l \in Range(b) : FileNameMatch(l, w)})
           m(l, w) == <<IF SameOrIncoming(l, w) THEN <<"absolute match">>
                        ELSE <<"filename found">>, l>>
           M(b, w) == IF lines(b, w) = <<>> THEN <<>> ELSE m(lines(b, w)[1], w)
           C(b, w) == Those(b, {l \in Range(b) : Holds(l, w)})
<1>1. Body(fs', list) = Body(fs, list)
  BY DEF Body
<1>2. ASSUME NEW f, NEW w
      PROVE  Matches(f, list, w) = M(Body(f, list), w) /\ Collected(f, list, w) = C(Body(f, list), w)
  BY DEF Matches, Collected
<1> HIDE DEF M, C
<1>3. Matches(fs', list, what') = Matches(fs, list, what)
  BY <1>1, <1>2
<1>4. Collected(fs', list, what') = Collected(fs, list, what)
  BY <1>1, <1>2
<1> QED BY <1>3, <1>4 DEF Found

-----------------------------------------------------------------------------
(* What stays as it was.                                                   *)

\* Positions and items are numbers.
LEMMA TypesAre ==
  ASSUME LookTypes
  PROVE  /\ pos \in Nat /\ 1 <= pos /\ pos <= Size + 1 /\ Size \in Nat
         /\ \A t \in Threads : item[t] \in Nat /\ item[t] <= Size
<1>1. pos \in 1..(Size + 1) /\ Size \in Nat
  BY SizeAssumption DEF LookTypes
<1>2. pos \in Nat /\ 1 <= pos /\ pos <= Size + 1
  BY ONLY <1>1
<1>3. \A t \in Threads : item[t] \in 0..Size
  BY DEF LookTypes
<1>4. \A i \in 0..Size : i \in Nat /\ i <= Size
  BY ONLY <1>1
<1> QED BY <1>1, <1>2, <1>3, <1>4

\* What is left of the message about a list.
LEMMA LeftOfIs ==
  ASSUME HandInv, NEW i, i # 0
  PROVE  /\ \A t \in Threads : item[t] = i => LeftOf(i) = Left(t)
         /\ (\A t \in Threads : item[t] # i) => LeftOf(i) = <<>>
<1>1. item["main"] = item["other"] => item["main"] = 0
  BY DEF HandInv
<1>2. ASSUME NEW t \in Threads, item[t] = i PROVE LeftOf(i) = Left(t)
  <2> HIDE DEF Left
  <2>1. CASE t = "main"
    BY <1>2, <2>1 DEF LeftOf
  <2>2. CASE t = "other"
    BY <1>1, <1>2, <2>2 DEF LeftOf
  <2> QED BY <2>1, <2>2, ThreadsAre
<1>3. (\A t \in Threads : item[t] # i) => LeftOf(i) = <<>>
  BY ThreadsAre DEF LeftOf
<1> QED BY <1>2, <1>3

\* It stays with who has the list and what is left of the message.
LEMMA LeftOfStays ==
  ASSUME NEW i, \A t \in Threads : (item'[t] = i <=> item[t] = i) /\ (item[t] = i => Left(t)' = Left(t))
  PROVE  LeftOf(i)' = LeftOf(i)
<1> HIDE DEF Left
<1>1. "main" \in Threads /\ "other" \in Threads
  BY ThreadsAre
<1> QED BY <1>1 DEF LeftOf

\* What is left stays with the message.
LEMMA LeftStays ==
  ASSUME NEW t, message'[t] = message[t]
  PROVE  Left(t)' = Left(t) /\ Silent(t)' = Silent(t)
BY DEF Left, Silent

\* A list that is not read now stays as it is told.
LEMMA ListStays ==
  ASSUME NEW i \in 1..Size, ListInv(i),
         LeftOf(i)' = LeftOf(i), Unread(i)' <=> Unread(i),
         \A c \in {"msg", "error"} : UnitsAbout(c, Lists[i])' = UnitsAbout(c, Lists[i]),
         ~Unread(i) => \A t \in Threads : item'[t] = i =>
                         item[t] = i /\ message'[t].channel \in {NoName, message[t].channel},
         Lists[i] \in DOMAIN fs' =>
           Lists[i] \in DOMAIN fs /\ Found(fs, Lists[i])' = Found(fs, Lists[i])
  PROVE  ListInv(i)'
<1>1. CASE Unread(i)
  <2>1. /\ UnitsAbout("msg", Lists[i])' = <<>> /\ UnitsAbout("error", Lists[i])' = <<>>
        /\ Unread(i)'
    BY <1>1 DEF ListInv
  <2> QED BY <2>1 DEF ListInv
<1>2. CASE ~Unread(i)
  <2>1. ASSUME NEW c \in {"msg", "error"}, NEW u \in {"msg", "error"}, NEW texts, ListIs(i, c, u, texts)
        PROVE  ListIs(i, c, u, texts)'
    <3>1. /\ \A t \in Threads : item[t] = i => message[t].channel \in {NoName, c}
          /\ UnitsAbout(u, Lists[i]) = <<>>
          /\ UnitsAbout(c, Lists[i]) \o LeftOf(i) = Units(c, Lists[i], texts)
      BY <2>1 DEF ListIs
    <3>2. \A t \in Threads : item'[t] = i => message'[t].channel \in {NoName, c}
      BY <1>2, <3>1
    <3>3. UnitsAbout(u, Lists[i])' = <<>>
      BY <3>1
    <3>4. UnitsAbout(c, Lists[i])' \o LeftOf(i)' = Units(c, Lists[i], texts)
      BY <3>1
    <3> QED BY <3>2, <3>3, <3>4 DEF ListIs
  <2>2. CASE \E texts \in Seq(Texts) \ {<<>>} : ListIs(i, "error", "msg", texts)
    <3>1. PICK texts \in Seq(Texts) \ {<<>>} : ListIs(i, "error", "msg", texts)
      BY <2>2
    <3>2. ListIs(i, "error", "msg", texts)'
      BY <2>1, <3>1
    <3> QED BY <1>2, <3>2 DEF ListInv
  <2>3. CASE \E texts \in Seq(Texts) :
               /\ ListIs(i, "msg", "error", texts)
               /\ Lists[i] \in DOMAIN fs => texts = Found(fs, Lists[i])
    <3>1. PICK texts \in Seq(Texts) :
               /\ ListIs(i, "msg", "error", texts)
               /\ Lists[i] \in DOMAIN fs => texts = Found(fs, Lists[i])
      BY <2>3
    <3>2. ListIs(i, "msg", "error", texts)'
      BY <2>1, <3>1
    <3>3. Lists[i] \in DOMAIN fs' => texts = Found(fs, Lists[i])'
      BY <3>1
    <3> QED BY <1>2, <3>2, <3>3 DEF ListInv
  <2> QED BY <1>2, <2>2, <2>3 DEF ListInv
<1> QED BY <1>1, <1>2

\* So does the message of a thread that writes nothing.
LEMMA PieceStays ==
  ASSUME NEW t, PieceIs(t), message'[t] = message[t], Done(t)' = Done(t)
  PROVE  PieceIs(t)'
BY DEF PieceIs

\* And what is written of it.
LEMMA DoneStays ==
  ASSUME NEW t, message'[t] = message[t], item'[t] = item[t], UNCHANGED out
  PROVE  Done(t)' = Done(t)
<1>1. About(t)' = About(t)
  BY DEF About
<1>2. \A a : UnitsAbout(message[t].channel, a)' = UnitsAbout(message[t].channel, a)
  BY UnitsStay
<1> QED BY <1>1, <1>2 DEF Done

\* Nobody comes into the writer.
LEMMA WriterStays ==
  ASSUME WriterInv, PiecesAreWhole("msg"), UnitsOf("msg")' = UnitsOf("msg"),
         \A a : UnitsAbout("msg", a)' = UnitsAbout("msg", a),
         \A t \in Threads : Flushing(t, "msg")' =>
           Flushing(t, "msg") /\ Head(message'[t].piece) = Head(message[t].piece)
  PROVE  WriterInv' /\ PiecesAreWhole("msg")'
<1>1. UnitsOf("msg")' = UnitsOf("msg") /\ \A a : UnitsAbout("msg", a)' = UnitsAbout("msg", a)
  OBVIOUS
<1> DEFINE U == UnitsOf("msg")
           N(a) == Len(UnitsAbout("msg", a))
<1>2. WriterInv =>
        /\ \A t, u \in Threads : Flushing(t, "msg") /\ Flushing(u, "msg") => t = u
        /\ \A t \in Threads : Flushing(t, "msg") =>
             \A i \in DOMAIN U : SamePiece(U[i], Head(message[t].piece)) =>
               \A j \in i..Len(U) : SamePiece(U[i], U[j])
        /\ \A i \in DOMAIN U : U[i].n <= N(U[i].about)
  BY DEF WriterInv
<1>3. /\ \A t, u \in Threads : Flushing(t, "msg")' /\ Flushing(u, "msg")' => t = u
      /\ \A t \in Threads : Flushing(t, "msg")' =>
           \A i \in DOMAIN U : SamePiece(U[i], Head(message'[t].piece)) =>
             \A j \in i..Len(U) : SamePiece(U[i], U[j])
      /\ \A i \in DOMAIN U : U[i].n <= N(U[i].about)
  <2> HIDE DEF U, N
  <2> QED BY <1>2
<1>4. WriterInv'
  BY <1>1, <1>3 DEF WriterInv
<1>5. PiecesAreWhole("msg")'
  BY <1>1 DEF PiecesAreWhole
<1> QED BY <1>4, <1>5

\* A lookup goes on for the execution that has begun it.
LEMMA BegunStays ==
  ASSUME BegunInv, kind # NoName, UNCHANGED <<kind, phase, setup>>
  PROVE  BegunInv'
BY DEF BegunInv, AppStream

\* Whether there was a match depends on what is written, and who writes matches.
LEMMA MatchStays ==
  ASSUME MatchInv, UNCHANGED <<hadMatch, out>>,
         \A t \in Threads : message'[t].channel = "msg" <=> message[t].channel = "msg"
  PROVE  MatchInv'
<1>1. UnitsOf("msg")' = UnitsOf("msg")
  BY UnitsStay
<1> QED BY <1>1 DEF MatchInv

-----------------------------------------------------------------------------
\* The parts of the invariant.
LEMMA InvIs ==
  ASSUME LookInv
  PROVE  /\ LookTypes /\ ListsHaveLines(fs) /\ BegunInv /\ HandInv
         /\ \A i \in 1..Size : ListInv(i)
         /\ LastInv /\ MatchInv /\ PieceInv /\ WriterInv /\ PiecesAreWhole("msg")
BY DEF LookInv

\* What it says of types.
LEMMA TypesOf ==
  ASSUME LookTypes
  PROVE  /\ kind \in {NoName, "file", "text"} /\ pos \in 1..(Size + 1)
         /\ lookPc \in [Threads -> {"pop", "read", "end", "over"}]
         /\ item \in [Threads -> 0..Size] /\ hadMatch \in [Threads -> BOOLEAN]
         /\ message \in [Threads -> Message] /\ out \in Seq(Unit) /\ Size \in Nat
BY SizeAssumption DEF LookTypes

\* What it says of the two threads.
LEMMA HandOf ==
  ASSUME HandInv
  PROVE  /\ item["main"] = item["other"] => item["main"] = 0
         /\ lookPc["other"] # "over"
         /\ \A u \in Threads :
              /\ item[u] < pos
              /\ lookPc[u] = "read" => item[u] # 0
              /\ lookPc[u] \in {"read", "end"} => Silent(u)
              /\ lookPc[u] \in {"end", "over"} => item[u] = 0 /\ pos = Size + 1
              /\ Silent(u) <=> message[u].channel = NoName
              /\ ~Silent(u) => Left(u) # <<>>
              /\ message[u].channel \in {"msg", "error"} => lookPc[u] = "pop" /\ item[u] # 0
              /\ message[u].channel = "info" => lookPc[u] = "over"
BY DEF HandInv

\* Threads that have a list have different ones.
LEMMA OneHand ==
  ASSUME HandInv, NEW t \in Threads, NEW u \in Threads, item[t] = item[u], item[t] # 0
  PROVE  t = u
BY ThreadsAre DEF HandInv

-----------------------------------------------------------------------------
(* Picking a list.                                                         *)

\* Who picks a list has it unread, and who finds none is at the end.
LEMMA PopKeeps ==
  ASSUME LookInv, kind # NoName, NEW t \in Threads, Pop(t), UNCHANGED <<fs, phase>>
  PROVE  LookInv'
<1>1. /\ LookTypes /\ ListsHaveLines(fs) /\ BegunInv /\ HandInv
      /\ \A i \in 1..Size : ListInv(i)
      /\ LastInv /\ MatchInv /\ PieceInv /\ WriterInv /\ PiecesAreWhole("msg")
  BY InvIs
<1>2. /\ lookPc[t] = "pop" /\ Silent(t)
      /\ item' = [item EXCEPT ![t] = Peeked] /\ pos' = IF AtEnd THEN pos ELSE pos + 1
      /\ lookPc' = [lookPc EXCEPT ![t] = IF AtEnd THEN "end" ELSE "read"]
      /\ UNCHANGED <<kind, what, hadMatch, setup, message, out>>
  BY DEF Pop, Peek, logVars
<1>3. /\ kind \in {NoName, "file", "text"} /\ pos \in 1..(Size + 1)
      /\ lookPc \in [Threads -> {"pop", "read", "end", "over"}]
      /\ item \in [Threads -> 0..Size] /\ hadMatch \in [Threads -> BOOLEAN]
      /\ message \in [Threads -> Message] /\ out \in Seq(Unit) /\ Size \in Nat
  BY <1>1, TypesOf
<1>3a. /\ pos \in Nat /\ 1 <= pos /\ pos <= Size + 1 /\ Size \in Nat
      /\ \A u \in Threads : item[u] \in Nat /\ item[u] <= Size
  BY <1>1, TypesAre
<1>4. /\ pos' \in 1..(Size + 1) /\ pos' \in Nat /\ pos <= pos' /\ Peeked \in 0..Size /\ Peeked < pos'
      /\ IF AtEnd THEN Peeked = 0 /\ pos = Size + 1 /\ pos' = pos
         ELSE Peeked = pos /\ pos' = pos + 1
  <2>1. pos' = IF AtEnd THEN pos ELSE pos + 1
    BY <1>2
  <2>2. AtEnd <=> pos = Size + 1
    BY <1>3a DEF AtEnd
  <2>3. Peeked = IF AtEnd THEN 0 ELSE pos
    BY DEF Peeked
  <2>4. ~AtEnd => pos <= Size /\ pos \in 0..Size /\ 0 < pos + 1 /\ pos < pos + 1
    BY ONLY <1>3a, <2>2
  <2>5. 0 \in 0..Size /\ 0 < pos /\ pos + 1 \in Nat /\ 1 <= pos + 1 /\ pos <= pos + 1 /\ pos <= pos
    BY ONLY <1>3a
  <2>6. pos' \in Nat /\ 1 <= pos' /\ pos' <= Size + 1 /\ pos <= pos'
    BY ONLY <1>3a, <2>1, <2>2, <2>5
  <2> HIDE DEF AtEnd
  <2>7. pos' \in 1..(Size + 1)
    BY ONLY <1>3a, <2>6
  <2> QED BY ONLY <2>1, <2>2, <2>3, <2>4, <2>5, <2>6, <2>7
<1>5. /\ item'[t] = Peeked /\ lookPc'[t] = IF AtEnd THEN "end" ELSE "read"
      /\ \A u \in Threads \ {t} : item'[u] = item[u] /\ lookPc'[u] = lookPc[u]
      /\ item' \in [Threads -> 0..Size]
      /\ lookPc' \in [Threads -> {"pop", "read", "end", "over"}]
  <2> HIDE DEF Peeked, AtEnd
  <2> QED BY <1>2, <1>3, <1>4
<1>6. /\ \A u \in Threads : Left(u)' = Left(u) /\ Silent(u)' = Silent(u)
      /\ \A c, a : UnitsAbout(c, a)' = UnitsAbout(c, a)
  BY <1>2, LeftStays, UnitsStay
<1>7. /\ item["main"] = item["other"] => item["main"] = 0
      /\ lookPc["other"] # "over"
      /\ \A u \in Threads :
           /\ item[u] < pos
           /\ lookPc[u] = "read" => item[u] # 0
           /\ lookPc[u] \in {"read", "end"} => Silent(u)
           /\ lookPc[u] \in {"end", "over"} => item[u] = 0 /\ pos = Size + 1
           /\ Silent(u) <=> message[u].channel = NoName
           /\ ~Silent(u) => Left(u) # <<>>
           /\ message[u].channel \in {"msg", "error"} => lookPc[u] = "pop" /\ item[u] # 0
           /\ message[u].channel = "info" => lookPc[u] = "over"
  BY <1>1, HandOf
<1> HIDE DEF AtEnd, Peeked, Left, Silent
<1>8. LookTypes'
  BY <1>2, <1>3, <1>4, <1>5 DEF LookTypes
<1>9. ListsHaveLines(fs)' /\ BegunInv'
  BY <1>1, <1>2, BegunStays DEF ListsHaveLines
<1>10. HandInv'
  <2>1. lookPc'["other"] # "over"
    BY <1>5, <1>7, ThreadsAre
  <2>2. item'["main"] = item'["other"] => item'["main"] = 0
    BY <1>3a, <1>4, <1>5, <1>7, ThreadsAre
  <2>3. ASSUME NEW u \in Threads
        PROVE  /\ item'[u] < pos'
               /\ lookPc'[u] = "read" => item'[u] # 0
               /\ lookPc'[u] \in {"read", "end"} => Silent(u)'
               /\ lookPc'[u] \in {"end", "over"} => item'[u] = 0 /\ pos' = Size + 1
               /\ Silent(u)' <=> message'[u].channel = NoName
               /\ ~Silent(u)' => Left(u)' # <<>>
               /\ message'[u].channel \in {"msg", "error"} => lookPc'[u] = "pop" /\ item'[u] # 0
               /\ message'[u].channel = "info" => lookPc'[u] = "over"
    <3>1. CASE u = t
      <4>1. /\ Silent(u)' /\ message'[u] = message[u] /\ message[u].channel = NoName
            /\ item'[u] = Peeked /\ lookPc'[u] = IF AtEnd THEN "end" ELSE "read"
        BY <1>2, <1>5, <1>6, <1>7, <3>1
      <4>2. NoName \notin Channels /\ Peeked < pos' /\ (~AtEnd => Peeked # 0)
        BY <1>3a, <1>4, NoMessageIs
      <4>3. message'[u].channel \notin {"msg", "error", "info"}
        BY <4>1, <4>2 DEF Channels
      <4> QED BY <1>4, <4>1, <4>2, <4>3
    <3>2. CASE u # t
      BY <1>2, <1>3a, <1>4, <1>5, <1>6, <1>7, <3>2
    <3> QED BY <3>1, <3>2
  <2> QED BY <2>1, <2>2, <2>3 DEF HandInv
<1>11. ASSUME NEW i \in 1..Size PROVE ListInv(i)'
  <2>1. ListInv(i) /\ i # 0 /\ i \in Nat
    BY <1>1, <1>3a
  <2>2. LeftOf(i)' = LeftOf(i)
    <3>1. CASE item[t] # i /\ item'[t] # i
      BY <1>5, <1>6, <3>1, LeftOfStays
    <3>2. CASE item[t] = i
      <4>1. LeftOf(i) = <<>> /\ item'[t] # i /\ item'[t] # item[t]
        <5>1. LeftOf(i) = Left(t) /\ Left(t) = <<>>
          BY <1>1, <1>2, <2>1, <3>2, LeftIs, LeftOfIs
        <5>2. item[t] < pos
          BY <1>7
        <5> QED BY <1>3a, <1>4, <1>5, <2>1, <3>2, <5>1, <5>2
      <4>2. \A u \in Threads : item'[u] # i
        BY <1>5, <1>7, <2>1, <3>2, <4>1, ThreadsAre
      <4> QED BY <4>1, <4>2, ThreadsAre DEF LeftOf
    <3>3. CASE item[t] # i /\ item'[t] = i
      <4>1. \A u \in Threads : item[u] # i
        <5>1. i = pos
          BY <1>4, <1>5, <2>1, <3>3
        <5> QED BY <1>3a, <1>7, <5>1
      <4>2. LeftOf(i) = <<>>
        BY <1>1, <2>1, <4>1, LeftOfIs
      <4>3. Left(t)' = <<>>
        BY <1>1, <1>2, <1>6, LeftIs
      <4>4. LeftOf(i)' = Left(t)'
        <5>1. \A u \in Threads \ {t} : item'[u] # i
          BY <1>5, <4>1
        <5> QED BY <3>3, <5>1, ThreadsAre DEF LeftOf
      <4> QED BY <4>2, <4>3, <4>4
    <3> QED BY <3>1, <3>2, <3>3
  <2>3. Unread(i)' <=> Unread(i)
    <3>1. i >= pos <=> i >= pos' \/ (~AtEnd /\ i = pos)
      BY <1>3a, <1>4, <2>1
    <3>2. (\E u \in Threads : lookPc'[u] = "read" /\ item'[u] = i)
            <=> (~AtEnd /\ i = pos) \/ \E u \in Threads : lookPc[u] = "read" /\ item[u] = i
      BY <1>2, <1>4, <1>5
    <3> QED BY <3>1, <3>2 DEF Unread
  <2>4. ~Unread(i) => \A u \in Threads : item'[u] = i =>
          item[u] = i /\ message'[u].channel \in {NoName, message[u].channel}
    <3>1. ~Unread(i) => ~(i >= pos)
      BY DEF Unread
    <3>2. item'[t] = i => i >= pos
      BY <1>3a, <1>4, <1>5, <2>1
    <3> QED BY <1>2, <1>5, <3>1, <3>2
  <2>5. Lists[i] \in DOMAIN fs' => Lists[i] \in DOMAIN fs /\ Found(fs, Lists[i])' = Found(fs, Lists[i])
    BY <1>2, FoundStays
  <2> QED BY ONLY <1>6, <2>1, <2>2, <2>3, <2>4, <2>5, ListStays
<1>12. LastInv'
  <2>1. /\ lookPc'["main"] = "over" <=> lookPc["main"] = "over"
        /\ lookPc["other"] = "end" => lookPc'["other"] = "end"
    BY <1>2, <1>5, ThreadsAre
  <2>2. Quiet' = Quiet /\ NothingFound' = NothingFound /\ Left("main")' = Left("main")
    BY <1>2, <1>6, ThreadsAre DEF Quiet, NothingFound
  <2> HIDE DEF Quiet, NothingFound
  <2> QED BY <1>1, <1>2, <1>6, <2>1, <2>2 DEF LastInv
<1>13. MatchInv'
  BY <1>1, <1>2, MatchStays
<1>14. PieceInv'
  <2> SUFFICES ASSUME NEW u \in Threads, ~Silent(u)' PROVE PieceIs(u)'
    BY DEF PieceInv
  <2>1. u # t /\ item'[u] = item[u] /\ message'[u] = message[u] /\ PieceIs(u)
    BY <1>1, <1>2, <1>5, <1>6 DEF PieceInv
  <2> QED BY <1>2, <2>1, DoneStays, PieceStays
<1>15. WriterInv' /\ PiecesAreWhole("msg")'
  <2>1. \A u \in Threads : Flushing(u, "msg")' =>
          Flushing(u, "msg") /\ Head(message'[u].piece) = Head(message[u].piece)
    BY <1>2 DEF Flushing
  <2>2. UnitsOf("msg")' = UnitsOf("msg")
    BY <1>2, UnitsStay
  <2> QED BY <1>1, <1>6, <2>1, <2>2, WriterStays
<1> QED BY <1>8, <1>9, <1>10, <1>11, <1>12, <1>13, <1>14, <1>15 DEF LookInv

-----------------------------------------------------------------------------
(* Reading a list.                                                         *)

\* What is said becomes a message, unless nothing is.
LEMMA SayIs ==
  ASSUME LookTypes, NEW t \in Threads, NEW c \in Channels, NEW a \in Abouts,
         NEW texts \in Seq(Texts), StreamOf(c) # "none", Say(t, c, a, texts)
  PROVE  /\ message' \in [Threads -> Message] /\ \A u \in Threads \ {t} : message'[u] = message[u]
         /\ message'[t].piece = <<>> /\ Left(t)' = Units(c, a, texts)
         /\ IF texts = <<>> THEN message'[t] = NoMessage /\ Left(t)' = <<>>
            ELSE message'[t].channel = c /\ ~Silent(t)' /\ Left(t)' # <<>>
<1> DEFINE u == Units(c, a, texts)
           m == [channel |-> c, piece |-> <<>>, rest |-> u]
<1>1. u \in Seq(Unit) /\ Len(u) = Len(texts) /\ <<>> \in Seq(Unit)
  BY UnitsOfMessage
<1>2. texts = <<>> => u = <<>>
  <2>1. Units(c, a, <<>>) = <<>>
    BY DEF Units
  <2> QED BY <2>1
<1>3. texts # <<>> => u # <<>>
  <2> HIDE DEF u
  <2>1. Len(texts) = 0 <=> texts = <<>>
    BY EmptySeq
  <2> QED BY <1>1, <2>1
<1> HIDE DEF u
<1>4. m \in Message /\ NoMessage \in Message /\ m.channel = c /\ m.piece = <<>> /\ m.rest = u
  BY <1>1, AMessage DEF NoMessage, NoName
<1>5. message' = [message EXCEPT ![t] = IF texts = <<>> THEN NoMessage ELSE m]
  BY DEF Say, u
<1>6. message \in [Threads -> Message]
  BY DEF LookTypes
<1> HIDE DEF m
<1>7. /\ message' \in [Threads -> Message]
      /\ \A v \in Threads \ {t} : message'[v] = message[v]
      /\ message'[t] = IF texts = <<>> THEN NoMessage ELSE m
  BY <1>4, <1>5, <1>6
<1>8. message'[t].piece = <<>> /\ Left(t)' = u
  <2>1. message'[t].piece = <<>> /\ message'[t].rest = u
    BY <1>2, <1>4, <1>7, NoMessageIs
  <2>2. Left(t)' = message'[t].piece \o message'[t].rest
    BY DEF Left
  <2> QED BY <1>1, <2>1, <2>2, ConcatEmptySeq
<1>9. texts # <<>> => message'[t].channel = c /\ ~Silent(t)'
  <2>1. texts # <<>> => message'[t] = m /\ m # NoMessage
    BY <1>4, <1>7, NoMessageIs
  <2> QED BY <1>4, <2>1 DEF Silent
<1> QED BY <1>2, <1>3, <1>7, <1>8, <1>9 DEF u

\* In a lookup only LogInfo may lead nowhere.
LEMMA StreamsAre ==
  ASSUME BegunInv, kind # NoName
  PROVE  /\ StreamOf("error") # "none" /\ StreamOf("msg") # "none"
         /\ IF Quiet THEN StreamOf("info") = "none" ELSE StreamOf("info") # "none"
<1>1. AppStream \in {"stdout", "file"}
  BY DEF BegunInv
<1> QED BY <1>1 DEF StreamOf

\* Who has read a list has the message of what was found there, or a complaint.
LEMMA ReadKeeps ==
  ASSUME LookInv, kind # NoName, NEW t \in Threads, Read(t, fs), UNCHANGED <<fs, phase>>
  PROVE  LookInv'
<1> DEFINE i == item[t]
           L == Lists[item[t]]
<1>1. /\ LookTypes /\ ListsHaveLines(fs) /\ BegunInv /\ HandInv
      /\ \A j \in 1..Size : ListInv(j)
      /\ LastInv /\ MatchInv /\ PieceInv /\ WriterInv /\ PiecesAreWhole("msg")
  BY InvIs
<1>2. /\ lookPc[t] = "read" /\ lookPc' = [lookPc EXCEPT ![t] = "pop"]
      /\ UNCHANGED <<pos, kind, what, item, setup, out>>
  BY DEF Read
<1>3. /\ kind \in {NoName, "file", "text"} /\ pos \in 1..(Size + 1)
      /\ lookPc \in [Threads -> {"pop", "read", "end", "over"}]
      /\ item \in [Threads -> 0..Size] /\ hadMatch \in [Threads -> BOOLEAN]
      /\ message \in [Threads -> Message] /\ out \in Seq(Unit) /\ Size \in Nat
  BY <1>1, TypesOf
<1>3a. /\ pos \in Nat /\ 1 <= pos /\ pos <= Size + 1 /\ Size \in Nat
       /\ \A u \in Threads : item[u] \in Nat /\ item[u] <= Size
  BY <1>1, TypesAre
<1>4. /\ item["main"] = item["other"] => item["main"] = 0
      /\ lookPc["other"] # "over"
      /\ \A u \in Threads :
           /\ item[u] < pos
           /\ lookPc[u] = "read" => item[u] # 0
           /\ lookPc[u] \in {"read", "end"} => Silent(u)
           /\ lookPc[u] \in {"end", "over"} => item[u] = 0 /\ pos = Size + 1
           /\ Silent(u) <=> message[u].channel = NoName
           /\ ~Silent(u) => Left(u) # <<>>
           /\ message[u].channel \in {"msg", "error"} => lookPc[u] = "pop" /\ item[u] # 0
           /\ message[u].channel = "info" => lookPc[u] = "over"
  BY <1>1, HandOf
<1>5. i \in 1..Size /\ i # 0 /\ Silent(t) /\ i < pos /\ L \in Abouts
  BY <1>2, <1>3a, <1>4 DEF Abouts
<1>6. /\ UnitsAbout("msg", L) = <<>> /\ UnitsAbout("error", L) = <<>>
  <2>1. Unread(i)
    BY <1>2 DEF Unread
  <2> QED BY <1>1, <1>5, <2>1 DEF ListInv
<1>7. \E c \in {"msg", "error"}, texts \in Seq(Texts) :
        /\ Say(t, c, L, texts)
        /\ \/ /\ c = "msg" /\ L \in DOMAIN fs /\ texts = Found(fs, L)
              /\ hadMatch' = [hadMatch EXCEPT ![t] = @ \/ texts # <<>>]
           \/ c = "error" /\ L \notin DOMAIN fs /\ texts # <<>> /\ hadMatch' = hadMatch
  <2>1. CASE L \in DOMAIN fs
    <3>1. Say(t, "msg", L, Found(fs, L)) /\ hadMatch' = [hadMatch EXCEPT ![t] = @ \/ Found(fs, L) # <<>>]
      BY <2>1 DEF Read
    <3>2. Found(fs, L) \in Seq(Texts)
      BY <1>1, <1>5, <2>1, FoundIs
    <3> QED BY <2>1, <3>1, <3>2
  <2>2. CASE L \notin DOMAIN fs
    <3>1. Say(t, "error", L, <<<<"can not read">>>>) /\ hadMatch' = hadMatch
      BY <2>2 DEF Read
    <3>2. <<"can not read">> \in Texts
      BY DEF Texts, Words
    <3>3. \A w \in Texts : <<w>> \in Seq(Texts) /\ <<w>> # <<>>
      OBVIOUS
    <3>4. <<<<"can not read">>>> \in Seq(Texts) /\ <<<<"can not read">>>> # <<>>
      BY <3>2, <3>3, Zenon
    <3> QED BY <2>2, <3>1, <3>4, Zenon
  <2> QED BY <2>1, <2>2
<1>8. PICK c \in {"msg", "error"}, texts \in Seq(Texts) :
        /\ Say(t, c, L, texts)
        /\ \/ /\ c = "msg" /\ L \in DOMAIN fs /\ texts = Found(fs, L)
              /\ hadMatch' = [hadMatch EXCEPT ![t] = @ \/ texts # <<>>]
           \/ c = "error" /\ L \notin DOMAIN fs /\ texts # <<>> /\ hadMatch' = hadMatch
  BY <1>7
<1>9. /\ message' \in [Threads -> Message] /\ \A u \in Threads \ {t} : message'[u] = message[u]
      /\ message'[t].piece = <<>> /\ Left(t)' = Units(c, L, texts)
      /\ IF texts = <<>> THEN message'[t] = NoMessage /\ Left(t)' = <<>>
         ELSE message'[t].channel = c /\ ~Silent(t)' /\ Left(t)' # <<>>
  <2>1. StreamOf(c) # "none"
    BY <1>1, StreamsAre
  <2>2. c \in Channels
    BY DEF Channels
  <2> QED BY ONLY <1>1, <1>5, <1>8, <2>1, <2>2, SayIs
<1>10. /\ message'[t].channel \in {NoName, c} /\ NoName # c /\ NoName # "info" /\ NoName # "msg" /\ NoName # "error"
       /\ Silent(t)' <=> message'[t].channel = NoName
       /\ Silent(t)' <=> texts = <<>>
  <2>1. NoName \notin Channels
    BY NoMessageIs
  <2>2. texts = <<>> => message'[t].channel = NoName /\ Silent(t)'
    BY <1>9, NoMessageIs DEF Silent
  <2> QED BY <1>9, <2>1, <2>2 DEF Channels
<1>11. /\ lookPc'[t] = "pop" /\ \A u \in Threads \ {t} : lookPc'[u] = lookPc[u]
       /\ lookPc' \in [Threads -> {"pop", "read", "end", "over"}]
  BY <1>2, <1>3
<1>12. /\ \A u \in Threads \ {t} : Left(u)' = Left(u) /\ Silent(u)' = Silent(u)
       /\ \A d, a : UnitsAbout(d, a)' = UnitsAbout(d, a)
       /\ \A d : UnitsOf(d)' = UnitsOf(d)
  BY <1>2, <1>9, LeftStays, UnitsStay
<1>13. /\ hadMatch' \in [Threads -> BOOLEAN]
       /\ \A u \in Threads \ {t} : hadMatch'[u] = hadMatch[u]
       /\ hadMatch'[t] <=> hadMatch[t] \/ (c = "msg" /\ texts # <<>>)
  BY <1>3, <1>8
<1> HIDE DEF Left, Silent
<1>14. LookTypes'
  BY <1>2, <1>3, <1>9, <1>11, <1>13 DEF LookTypes
<1>15. ListsHaveLines(fs)' /\ BegunInv'
  BY <1>1, <1>2, BegunStays DEF ListsHaveLines
<1>16. HandInv'
  <2>1. lookPc'["other"] # "over"
    BY <1>4, <1>11, ThreadsAre
  <2>2. item'["main"] = item'["other"] => item'["main"] = 0
    BY <1>2, <1>4
  <2>3. ASSUME NEW u \in Threads
        PROVE  /\ item'[u] < pos'
               /\ lookPc'[u] = "read" => item'[u] # 0
               /\ lookPc'[u] \in {"read", "end"} => Silent(u)'
               /\ lookPc'[u] \in {"end", "over"} => item'[u] = 0 /\ pos' = Size + 1
               /\ Silent(u)' <=> message'[u].channel = NoName
               /\ ~Silent(u)' => Left(u)' # <<>>
               /\ message'[u].channel \in {"msg", "error"} => lookPc'[u] = "pop" /\ item'[u] # 0
               /\ message'[u].channel = "info" => lookPc'[u] = "over"
    <3>1. CASE u = t
      BY <1>2, <1>5, <1>9, <1>10, <1>11, <3>1
    <3>2. CASE u # t
      BY <1>2, <1>4, <1>9, <1>11, <1>12, <3>2
    <3> QED BY <3>1, <3>2
  <2> QED BY <2>1, <2>2, <2>3 DEF HandInv
<1>17. ListInv(i)'
  <2>1. ~Unread(i)'
    <3>1. \A u \in Threads : item[u] = i => u = t
      BY <1>1, <1>5, OneHand
    <3>2. ~(i >= pos)
      BY <1>3a, <1>5
    <3> QED BY <1>2, <1>11, <3>1, <3>2 DEF Unread
  <2>2. LeftOf(i)' = Left(t)'
    BY <1>2, <1>4, <1>5, ThreadsAre DEF LeftOf
  <2>3. ASSUME NEW d \in {"msg", "error"} PROVE ListIs(i, c, d, texts)'
    <3>1. \A u \in Threads : item'[u] = i => message'[u].channel \in {NoName, c}
      BY <1>1, <1>2, <1>5, <1>10, OneHand
    <3>2. UnitsAbout(d, L)' = <<>>
      BY <1>2, <1>6, <1>12
    <3>3. UnitsAbout(c, L)' \o LeftOf(i)' = Units(c, L, texts)
      <4>1. UnitsAbout(c, L)' = <<>>
        BY <1>2, <1>6, <1>12
      <4>2. Units(c, L, texts) \in Seq(Unit)
        <5>1. c \in Channels
          BY DEF Channels
        <5> QED BY <1>5, <5>1, UnitsOfMessage
      <4> QED BY <1>9, <2>2, <4>1, <4>2, ConcatEmptySeq
    <3>4. L' = L /\ i' = i
      BY <1>2
    <3> QED BY <3>1, <3>2, <3>3, <3>4 DEF ListIs
  <2>4. CASE c = "error"
    <3>1. ListIs(i, "error", "msg", texts)' /\ texts \in Seq(Texts) \ {<<>>}
      BY <1>8, <2>3, <2>4
    <3> QED BY <1>2, <2>1, <3>1 DEF ListInv
  <2>5. CASE c = "msg"
    <3>1. ListIs(i, "msg", "error", texts)' /\ texts = Found(fs, L)
      BY <1>8, <2>3, <2>5
    <3>2. Found(fs, L)' = Found(fs, L)
      BY <1>2, <1>8, <2>5, FoundStays
    <3> QED BY <1>2, <2>1, <3>1, <3>2 DEF ListInv
  <2> QED BY <2>4, <2>5
<1>18. ASSUME NEW j \in 1..Size PROVE ListInv(j)'
  <2>1. CASE j = i
    BY <1>2, <1>17, <2>1
  <2>2. CASE j # i
    <3>1. LeftOf(j)' = LeftOf(j)
      BY <1>2, <1>12, <2>2, LeftOfStays
    <3>2. Unread(j)' <=> Unread(j)
      BY <1>2, <1>11, <2>2 DEF Unread
    <3>3. \A u \in Threads : item'[u] = j =>
            item[u] = j /\ message'[u].channel \in {NoName, message[u].channel}
      BY <1>2, <1>9, <2>2
    <3>4. Lists[j] \in DOMAIN fs' => Lists[j] \in DOMAIN fs /\ Found(fs, Lists[j])' = Found(fs, Lists[j])
      BY <1>2, FoundStays
    <3> QED BY ONLY <1>1, <1>12, <3>1, <3>2, <3>3, <3>4, ListStays
  <2> QED BY <2>1, <2>2
<1>19. LastInv'
  <2>1. Quiet' = Quiet
    BY <1>2 DEF Quiet
  <2>2. CASE t = "main"
    BY <1>1, <1>2, <1>11, <1>12, <2>2 DEF LastInv
  <2>3. CASE t = "other"
    <3>1. lookPc'["main"] = lookPc["main"] /\ Left("main")' = Left("main") /\ hadMatch'["main"] = hadMatch["main"]
      BY <1>11, <1>12, <1>13, <2>3, ThreadsAre
    <3>2. lookPc["main"] = "over" => kind = "file" /\ hadMatch["main"]
      BY <1>1, <1>2, <2>3 DEF LastInv
    <3>3. lookPc["main"] = "over" => ~NothingFound /\ ~NothingFound'
      BY <3>1, <3>2, ThreadsAre DEF NothingFound
    <3> HIDE DEF Quiet, NothingFound
    <3>4. lookPc["main"] = "over" => WordsOf(NothingFound)' = WordsOf(NothingFound)
      BY <3>3 DEF WordsOf
    <3> QED BY <1>1, <1>2, <1>12, <2>1, <3>1, <3>2, <3>4 DEF LastInv
  <2> QED BY <2>2, <2>3, ThreadsAre
<1>20. MatchInv'
  <2>1. (\E u \in Threads : hadMatch[u]) <=>
          UnitsOf("msg") # <<>> \/ \E u \in Threads : message[u].channel = "msg"
    BY <1>1 DEF MatchInv
  <2>2. message[t].channel = NoName
    BY <1>4, <1>5
  <2>3. message'[t].channel = "msg" <=> c = "msg" /\ texts # <<>>
    BY <1>9, <1>10
  <2>4. (\E u \in Threads : hadMatch'[u]) <=>
          UnitsOf("msg")' # <<>> \/ \E u \in Threads : message'[u].channel = "msg"
    BY <1>9, <1>10, <1>12, <1>13, <2>1, <2>2, <2>3
  <2> QED BY <2>4 DEF MatchInv
<1>21. PieceInv'
  <2> SUFFICES ASSUME NEW u \in Threads, ~Silent(u)' PROVE PieceIs(u)'
    BY DEF PieceInv
  <2>1. CASE u # t
    <3>1. item'[u] = item[u] /\ message'[u] = message[u] /\ PieceIs(u)
      BY <1>1, <1>2, <1>9, <1>12, <2>1 DEF PieceInv
    <3> QED BY <1>2, <3>1, DoneStays, PieceStays
  <2>2. CASE u = t
    <3>1. message'[t].channel = c /\ message'[t].piece = <<>>
      BY <1>9, <1>10, <2>2
    <3>2. About(t)' = L'
      BY <1>2, <3>1 DEF About
    <3>3. UnitsAbout(c, L)' = <<>>
      BY <1>2, <1>6, <1>12
    <3>4. Done(t)' = 0
      BY <3>1, <3>2, <3>3 DEF Done
    <3>5. /\ 0 * Piece <= 0 /\ 0 + Len(<<>>) <= (0 + 1) * Piece /\ 0 = 0 * Piece
      BY LogAssumption
    <3> QED BY <2>2, <3>1, <3>4, <3>5 DEF PieceIs
  <2> QED BY <2>1, <2>2
<1>22. WriterInv' /\ PiecesAreWhole("msg")'
  <2>1. \A u \in Threads : Flushing(u, "msg")' =>
          Flushing(u, "msg") /\ Head(message'[u].piece) = Head(message[u].piece)
    BY <1>9 DEF Flushing
  <2> QED BY <1>1, <1>12, <2>1, WriterStays
<1> QED BY <1>14, <1>15, <1>16, <1>18, <1>19, <1>20, <1>21, <1>22 DEF LookInv

-----------------------------------------------------------------------------
(* Flushing and copying.                                                   *)

\* A unit that is not written yet begins a piece of its own, if all of the pieces before
\* it are written.
LEMMA OtherPiece ==
  ASSUME NEW k \in Nat, NEW u, NEW v, u.n \in Nat \ {0}, u.n <= k * Piece,
         v.n = k * Piece + 1
  PROVE  ~SamePiece(u, v)
<1> DEFINE x == u.n - 1
<1>1. Piece \in Nat \ {0} /\ k * Piece \in Nat
  BY LogAssumption
<1>2. x \in Nat /\ x < k * Piece
  BY <1>1
<1>3. (v.n - 1) = k * Piece
  BY <1>1
<1> HIDE DEF x
<1>4. x \div Piece # k
  BY <1>1, <1>2, DivIs
<1>5. k * Piece < (k + 1) * Piece
  <2>1. (k + 1) * Piece = k * Piece + Piece
    BY <1>1, SMTT(30)
  <2> QED BY <1>1, <2>1
<1>6. (k * Piece) \div Piece = k
  <2> DEFINE y == k * Piece
  <2>1. y \in Nat /\ k * Piece <= y /\ y < (k + 1) * Piece
    BY <1>1, <1>5
  <2> HIDE DEF y
  <2>2. y \div Piece = k
    BY <1>1, <2>1, DivIs
  <2> QED BY <2>2 DEF y
<1>7. (v.n - 1) \div Piece = k
  BY <1>3, <1>6
<1> QED BY <1>4, <1>7 DEF SamePiece, x

\* Who flushes comes alone into the writer, with the piece that is next.
LEMMA FlushKeeps ==
  ASSUME LookInv, kind # NoName, NEW t \in Threads, Flush(t), UNCHANGED <<fs, phase, searchVars>>
  PROVE  LookInv'
<1>1. /\ LookTypes /\ ListsHaveLines(fs) /\ BegunInv /\ HandInv
      /\ \A j \in 1..Size : ListInv(j)
      /\ LastInv /\ MatchInv /\ PieceInv /\ WriterInv /\ PiecesAreWhole("msg")
  BY InvIs
<1>2. UNCHANGED <<fs, phase, pos, kind, what, lookPc, item, hadMatch, setup, out>>
  BY DEF searchVars, Flush, GiveAway
<1>3. /\ kind \in {NoName, "file", "text"} /\ pos \in 1..(Size + 1)
      /\ lookPc \in [Threads -> {"pop", "read", "end", "over"}]
      /\ item \in [Threads -> 0..Size] /\ hadMatch \in [Threads -> BOOLEAN]
      /\ message \in [Threads -> Message] /\ out \in Seq(Unit) /\ Size \in Nat
  BY <1>1, TypesOf
<1>4. /\ item["main"] = item["other"] => item["main"] = 0
      /\ lookPc["other"] # "over"
      /\ \A u \in Threads :
           /\ item[u] < pos
           /\ lookPc[u] = "read" => item[u] # 0
           /\ lookPc[u] \in {"read", "end"} => Silent(u)
           /\ lookPc[u] \in {"end", "over"} => item[u] = 0 /\ pos = Size + 1
           /\ Silent(u) <=> message[u].channel = NoName
           /\ ~Silent(u) => Left(u) # <<>>
           /\ message[u].channel \in {"msg", "error"} => lookPc[u] = "pop" /\ item[u] # 0
           /\ message[u].channel = "info" => lookPc[u] = "over"
  BY <1>1, HandOf
<1>5. ~Silent(t)
  BY DEF Flush, GiveAway
<1>6. /\ Left(t)' = Left(t) /\ Left(t) # <<>>
      /\ message' \in [Threads -> Message]
      /\ message'[t].channel = message[t].channel /\ message[t].piece = <<>>
      /\ \A u \in Threads \ {t} :
           message'[u] = message[u] /\ Left(u)' = Left(u) /\ ~Flushing(u, message[t].channel)
  BY <1>1, <1>4, <1>5, FlushIs
<1>7. PICK n \in 1..Piece :
         /\ n <= Len(Left(t)) /\ n # Piece => n = Len(Left(t))
         /\ message'[t].piece = SubSeq(Left(t), 1, n)
         /\ message'[t].rest = SubSeq(Left(t), n + 1, Len(Left(t)))
         /\ Len(message'[t].piece) = n /\ message'[t].piece # <<>>
         /\ Head(message'[t].piece) = Head(Left(t))
         /\ message'[t].rest # <<>> => n = Piece
  BY <1>1, <1>4, <1>5, FlushIs
<1>8. /\ \A u \in Threads : Left(u)' = Left(u) /\ message'[u].channel = message[u].channel
      /\ \A d, a : UnitsAbout(d, a)' = UnitsAbout(d, a)
      /\ \A d : UnitsOf(d)' = UnitsOf(d)
  BY <1>2, <1>6, UnitsStay
<1>9. \A u \in Threads : Silent(u)' <=> Silent(u)
  <2>1. ~Silent(t)'
    BY <1>7, NoMessageIs DEF Silent
  <2>2. \A u \in Threads \ {t} : Silent(u)' <=> Silent(u)
    BY <1>6 DEF Silent
  <2> QED BY <1>5, <2>1, <2>2
<1>10. /\ message[t].channel \in Channels /\ About(t) \in Abouts
       /\ \E texts \in Seq(Texts) :
            UnitsAbout(message[t].channel, About(t)) \o Left(t)
              = Units(message[t].channel, About(t), texts)
  BY <1>5, Told
<1> HIDE DEF Left, Silent
<1>11. LookTypes'
  BY <1>2, <1>3, <1>6 DEF LookTypes
<1>12. ListsHaveLines(fs)' /\ BegunInv'
  BY <1>1, <1>2, BegunStays DEF ListsHaveLines
<1>13. HandInv'
  <2> HIDE DEF Left, Silent
  <2> QED BY <1>2, <1>4, <1>8, <1>9 DEF HandInv
<1>14. ASSUME NEW j \in 1..Size PROVE ListInv(j)'
  <2>1. LeftOf(j)' = LeftOf(j)
    BY <1>2, <1>8, LeftOfStays
  <2>2. Unread(j)' <=> Unread(j)
    BY <1>2 DEF Unread
  <2>3. \A u \in Threads : item'[u] = j =>
          item[u] = j /\ message'[u].channel \in {NoName, message[u].channel}
    BY <1>2, <1>8
  <2>4. Lists[j] \in DOMAIN fs' => Lists[j] \in DOMAIN fs /\ Found(fs, Lists[j])' = Found(fs, Lists[j])
    BY <1>2, FoundStays
  <2> QED BY ONLY <1>1, <1>8, <2>1, <2>2, <2>3, <2>4, ListStays
<1>15. LastInv'
  <2>1. Quiet' = Quiet /\ NothingFound' = NothingFound /\ Left("main")' = Left("main")
    BY <1>2, <1>8, ThreadsAre DEF Quiet, NothingFound
  <2> HIDE DEF Quiet, NothingFound
  <2> QED BY <1>1, <1>2, <1>8, <2>1 DEF LastInv
<1>16. MatchInv'
  BY <1>1, <1>2, <1>8, MatchStays
<1>17. PICK k \in Nat : Done(t) = k * Piece
  BY <1>1, <1>5, <1>6 DEF PieceInv, PieceIs
<1>18. PieceInv'
  <2> SUFFICES ASSUME NEW u \in Threads, ~Silent(u)' PROVE PieceIs(u)'
    BY DEF PieceInv
  <2>1. CASE u # t
    <3>1. item'[u] = item[u] /\ message'[u] = message[u] /\ PieceIs(u)
      BY <1>1, <1>2, <1>6, <1>9, <2>1 DEF PieceInv
    <3> QED BY <1>2, <3>1, DoneStays, PieceStays
  <2>2. CASE u = t
    <3>1. Done(t)' = Done(t)
      <4>1. About(t)' = About(t)
        BY <1>2, <1>6 DEF About
      <4> QED BY <1>6, <1>8, <4>1 DEF Done
    <3>2. (k + 1) * Piece = k * Piece + Piece /\ k * Piece \in Nat /\ Piece \in Nat
      BY LogAssumption, SMTT(30)
    <3>3. /\ k * Piece <= Done(t)' /\ Done(t)' + n <= (k + 1) * Piece
          /\ n = Piece => Done(t)' + n = (k + 1) * Piece
      <4> DEFINE d == k * Piece
                 e == (k + 1) * Piece
      <4>1. Done(t)' = d /\ e = d + Piece /\ d \in Nat /\ Piece \in Nat
        BY <1>17, <3>1, <3>2
      <4>2. n \in Nat /\ n <= Piece
        BY <1>7, <3>2
      <4> HIDE DEF d, e, Done
      <4>3. d <= d /\ d + n <= e /\ (n = Piece => d + n = e)
        BY ONLY <4>1, <4>2
      <4> QED BY <4>1, <4>3 DEF d, e
    <3> HIDE DEF Done
    <3> QED BY <1>7, <2>2, <3>3 DEF PieceIs
  <2> QED BY <2>1, <2>2
<1>19. WriterInv'
  <2> DEFINE U == UnitsOf("msg")
             N(a) == Len(UnitsAbout("msg", a))
  <2>1. /\ \A v, u \in Threads : Flushing(v, "msg") /\ Flushing(u, "msg") => v = u
        /\ \A v \in Threads : Flushing(v, "msg") =>
             \A i \in DOMAIN U : SamePiece(U[i], Head(message[v].piece)) =>
               \A j \in i..Len(U) : SamePiece(U[i], U[j])
        /\ \A i \in DOMAIN U : U[i].n <= N(U[i].about)
    BY <1>1 DEF WriterInv
  <2>2. \A u \in Threads \ {t} : Flushing(u, "msg")' <=> Flushing(u, "msg")
    BY <1>6 DEF Flushing
  <2>3. \A v, u \in Threads : Flushing(v, "msg")' /\ Flushing(u, "msg")' => v = u
    <3>1. Flushing(t, "msg")' => message[t].channel = "msg"
      BY <1>6 DEF Flushing
    <3> QED BY <1>6, <2>1, <2>2, <3>1
  <2>4. ASSUME NEW v \in Threads, Flushing(v, "msg")'
        PROVE  \A i \in DOMAIN U : SamePiece(U[i], Head(message'[v].piece)) =>
                 \A j \in i..Len(U) : SamePiece(U[i], U[j])
    <3>1. CASE v # t
      BY <1>6, <2>1, <2>2, <2>4, <3>1
    <3>2. CASE v = t
      <4>1. message[t].channel = "msg"
        BY <1>6, <2>4, <3>2 DEF Flushing
      <4> DEFINE e == Head(Left(t))
      <4>2. e.about = About(t) /\ e.n = k * Piece + 1
        <5>1. PICK texts \in Seq(Texts) :
                UnitsAbout("msg", About(t)) \o Left(t) = Units("msg", About(t), texts)
          BY <1>10, <4>1
        <5>2. UnitsAbout("msg", About(t)) \in Seq(Unit) /\ Left(t) \in Seq(Unit)
          BY <1>1, <1>3, UnitsAre, LeftIs
        <5>3. \A r \in 1..Len(Left(t)) :
                Left(t)[r].about = About(t) /\ Left(t)[r].n = Len(UnitsAbout("msg", About(t))) + r
          <6> HIDE DEF Left
          <6> DEFINE s == UnitsAbout("msg", About(t))
                     w == Left(t)
                     a == About(t)
          <6>1. s \in Seq(Unit) /\ w \in Seq(Unit) /\ s \o w = Units("msg", a, texts) /\ w # <<>>
                /\ "msg" \in Channels /\ a \in Abouts /\ texts \in Seq(Texts)
            BY <1>6, <1>10, <5>1, <5>2 DEF Channels
          <6> HIDE DEF s, w, a
          <6>2. Continues(s, w, "msg", a)
            BY ONLY <6>1, NextUnit
          <6> QED BY <6>2 DEF Continues, s, w, a
        <5>4. 1 \in 1..Len(Left(t)) /\ e = Left(t)[1]
          BY <1>6, <5>2, EmptySeq
        <5>5. Len(UnitsAbout("msg", About(t))) = k * Piece
          BY <1>17, <4>1 DEF Done
        <5> HIDE DEF e
        <5> QED BY <5>3, <5>4, <5>5
      <4>3. \A i \in DOMAIN U : ~SamePiece(U[i], e)
        <5> SUFFICES ASSUME NEW i \in DOMAIN U, U[i].about = About(t) PROVE ~SamePiece(U[i], e)
          BY <4>2 DEF SamePiece
        <5>1. U[i] \in Unit
          <6>1. U \in Seq(Unit)
            BY <1>3, UnitsAre
          <6> HIDE DEF U
          <6> QED BY <6>1
        <5>2. U[i].n \in Nat \ {0}
          BY <5>1 DEF Unit
        <5>3. U[i].n <= k * Piece
          BY <1>17, <2>1, <4>1 DEF Done
        <5> HIDE DEF U, e
        <5> QED BY <4>2, <5>2, <5>3, OtherPiece
      <4> QED BY <1>7, <3>2, <4>3
    <3> QED BY <3>1, <3>2
  <2>5. U' = U /\ \A a : N(a)' = N(a)
    BY <1>8
  <2> HIDE DEF U, N
  <2>6. /\ \A v, u \in Threads : Flushing(v, "msg")' /\ Flushing(u, "msg")' => v = u
        /\ \A v \in Threads : Flushing(v, "msg")' =>
             \A i \in DOMAIN U' : SamePiece(U'[i], Head(message'[v].piece)) =>
               \A j \in i..Len(U') : SamePiece(U'[i], U'[j])
        /\ \A i \in DOMAIN U' : U'[i].n <= N(U[i].about)'
    <3>1. \A v \in Threads : Flushing(v, "msg")' =>
             \A i \in DOMAIN U : SamePiece(U[i], Head(message'[v].piece)) =>
               \A j \in i..Len(U) : SamePiece(U[i], U[j])
      BY <2>4
    <3>2. \A i \in DOMAIN U : U[i].n <= N(U[i].about)
      BY <2>1
    <3> QED BY <2>3, <2>5, <3>1, <3>2
  <2> QED BY <2>6 DEF WriterInv, U, N
<1>20. PiecesAreWhole("msg")'
  BY <1>1, <1>8 DEF PiecesAreWhole
<1> QED BY <1>11, <1>12, <1>13, <1>14, <1>15, <1>16, <1>18, <1>19, <1>20 DEF LookInv

\* A unit by its number.
NextIs(e, c, a, n) == e.channel = c /\ e.about = a /\ e.n = n

\* What is copied is the next unit of its message.
LEMMA CopyTells ==
  ASSUME LookInv, NEW t \in Threads, Copy(t),
         NEW c, NEW a, c = message[t].channel, a = About(t)
  PROVE  /\ ~Silent(t) /\ c \in Channels /\ a \in Abouts
         /\ Head(Left(t)) \in Unit
         /\ NextIs(Head(Left(t)), c, a, Len(UnitsAbout(c, a)) + 1)
         /\ UnitsAbout(c, a)' = Append(UnitsAbout(c, a), Head(Left(t)))
         /\ \A d, b : d # c \/ b # a => UnitsAbout(d, b)' = UnitsAbout(d, b)
         /\ UnitsOf(c)' = Append(UnitsOf(c), Head(Left(t)))
         /\ \A d : d # c => UnitsOf(d)' = UnitsOf(d)
         /\ \A texts \in Seq(Texts) :
              UnitsAbout(c, a) \o Left(t) = Units(c, a, texts) =>
                UnitsAbout(c, a)' \o Left(t)' = Units(c, a, texts)
         /\ Left(t)' # <<>> => NextIs(Head(Left(t)'), c, a, Len(UnitsAbout(c, a)) + 2)
<1> DEFINE e == Head(Left(t))
           s == UnitsAbout(c, a)
           w == Left(t)
<1>1. LookTypes /\ out \in Seq(Unit)
  BY InvIs, TypesOf
<1>2. /\ w # <<>> /\ e \in Unit /\ out' = Append(out, e) /\ Left(t)' = Tail(w)
  BY <1>1, CopyIs
<1>3. ~Silent(t)
  BY <1>1, NoMessageIs DEF Copy, Silent
<1>4. /\ c \in Channels /\ a \in Abouts
      /\ \E texts \in Seq(Texts) : s \o w = Units(c, a, texts)
  BY <1>3, Told
<1>5. s \in Seq(Unit) /\ w \in Seq(Unit)
  BY <1>1, UnitsAre, LeftIs
<1>6. Continues(s, w, c, a)
  <2> HIDE DEF s, w
  <2>1. PICK texts \in Seq(Texts) : s \o w = Units(c, a, texts)
    BY <1>4
  <2> QED BY ONLY <1>2, <1>4, <1>5, <2>1, NextUnit
<1>7. ASSUME NEW texts \in Seq(Texts), s \o w = Units(c, a, texts)
      PROVE  Append(s, e) \o Tail(w) = Units(c, a, texts)
  <2>1. e = Head(w)
    OBVIOUS
  <2> HIDE DEF s, w, e
  <2> QED BY ONLY <1>2, <1>4, <1>5, <1>7, <2>1, NextUnit
<1>8. 1 \in 1..Len(w) /\ e = w[1] /\ (Tail(w) # <<>> => 2 \in 1..Len(w) /\ Head(Tail(w)) = w[2])
  <2>1. e = Head(w)
    OBVIOUS
  <2> HIDE DEF w, e
  <2>2. Len(w) \in Nat \ {0} /\ Len(Tail(w)) = Len(w) - 1 /\ Tail(w) \in Seq(Unit)
        /\ Head(w) = w[1]
    BY <1>2, <1>5
  <2> DEFINE q == Tail(w)
  <2>3. q # <<>> => Len(q) # 0
    <3>1. q \in Seq(Unit)
      BY <2>2
    <3> HIDE DEF q
    <3> QED BY <3>1, EmptySeq
  <2>4. \A i \in 1..Len(Tail(w)) : Tail(w)[i] = w[i + 1]
    BY <1>2, <1>5, HeadTailProperties
  <2>5. q # <<>> => Head(q) = q[1]
    OBVIOUS
  <2>6. q # <<>> => 1 \in 1..Len(Tail(w)) /\ 1 + 1 = 2 /\ 2 \in 1..Len(w)
    BY <2>2, <2>3
  <2> QED BY <2>1, <2>2, <2>4, <2>5, <2>6
<1>9. e.channel = c /\ e.about = a /\ e.n = Len(s) + 1
  <2> HIDE DEF s, w, e
  <2> QED BY <1>6, <1>8 DEF Continues
<1>10. Tail(w) # <<>> => NextIs(Head(Tail(w)), c, a, Len(s) + 2)
  <2> HIDE DEF s, w, e
  <2> QED BY <1>6, <1>8 DEF Continues, NextIs
<1>11. \A d, b : UnitsAbout(d, b)' = IF e.channel = d /\ e.about = b THEN Append(UnitsAbout(d, b), e)
                                     ELSE UnitsAbout(d, b)
  <2> HIDE DEF e
  <2> QED BY <1>1, <1>2, CopyUnits
<1>12. \A d : UnitsOf(d)' = IF e.channel = d THEN Append(UnitsOf(d), e) ELSE UnitsOf(d)
  <2> HIDE DEF e
  <2> QED BY <1>1, <1>2, CopyUnits
<1> HIDE DEF e
<1>13. UnitsAbout(c, a)' = Append(UnitsAbout(c, a), e) /\ UnitsOf(c)' = Append(UnitsOf(c), e)
  BY <1>9, <1>11, <1>12
<1>14. /\ \A d, b : d # c \/ b # a => UnitsAbout(d, b)' = UnitsAbout(d, b)
       /\ \A d : d # c => UnitsOf(d)' = UnitsOf(d)
  BY <1>9, <1>11, <1>12
<1>15. \A texts \in Seq(Texts) : s \o w = Units(c, a, texts) =>
         UnitsAbout(c, a)' \o Left(t)' = Units(c, a, texts)
  BY <1>2, <1>7, <1>13
<1>16. Left(t)' # <<>> => NextIs(Head(Left(t)'), c, a, Len(s) + 2)
  <2> HIDE DEF w, s
  <2> QED BY <1>2, <1>10
<1>17. NextIs(e, c, a, Len(s) + 1)
  BY <1>9 DEF NextIs
<1> QED BY <1>2, <1>3, <1>4, <1>13, <1>14, <1>15, <1>16, <1>17 DEF e

\* Of a thread in the writer the unit that is next is of the piece of the one it copies.
LEMMA SamePieces ==
  ASSUME NEW k \in Nat, NEW u, NEW v, u.about = v.about,
         u.n \in Nat \ {0}, v.n \in Nat \ {0},
         k * Piece < u.n, u.n <= (k + 1) * Piece,
         k * Piece < v.n, v.n <= (k + 1) * Piece
  PROVE  SamePiece(u, v)
<1> DEFINE x == u.n - 1
           y == v.n - 1
<1>1. Piece \in Nat \ {0} /\ k * Piece \in Nat /\ (k + 1) * Piece \in Nat
  BY LogAssumption
<1>2. x \in Nat /\ k * Piece <= x /\ x < (k + 1) * Piece
  BY <1>1
<1>3. y \in Nat /\ k * Piece <= y /\ y < (k + 1) * Piece
  BY <1>1
<1> HIDE DEF x, y
<1>4. x \div Piece = k
  BY <1>1, <1>2, DivIs
<1>5. y \div Piece = k
  BY <1>1, <1>3, DivIs
<1> QED BY <1>4, <1>5 DEF SamePiece, x, y

\* A list, when a unit of the message about it is copied.
LEMMA CopyLists ==
  ASSUME LookInv, NEW t \in Threads, Copy(t), UNCHANGED <<fs, phase, searchVars>>
  PROVE  \A i \in 1..Size : ListInv(i)'
<1>1. /\ LookTypes /\ HandInv /\ \A j \in 1..Size : ListInv(j)
  BY InvIs
<1>2. UNCHANGED <<fs, phase, pos, kind, what, lookPc, item, hadMatch, setup>>
  BY DEF searchVars, Copy
<1>3. /\ Left(t)' = Tail(Left(t))
      /\ IF Left(t)' = <<>> THEN message'[t] = NoMessage
         ELSE message'[t].channel = message[t].channel
      /\ \A u \in Threads \ {t} : message'[u] = message[u] /\ Left(u)' = Left(u)
  BY <1>1, CopyIs
<1>4. PICK c, a : c = message[t].channel /\ a = About(t)
  OBVIOUS
<1>5. /\ ~Silent(t) /\ c \in Channels /\ a \in Abouts
      /\ \A d, b : d # c \/ b # a => UnitsAbout(d, b)' = UnitsAbout(d, b)
      /\ \A texts \in Seq(Texts) :
           UnitsAbout(c, a) \o Left(t) = Units(c, a, texts) =>
             UnitsAbout(c, a)' \o Left(t)' = Units(c, a, texts)
  <2>1. ~Silent(t) /\ c \in Channels /\ a \in Abouts
    BY <1>4, CopyTells
  <2>2. \A d, b : d # c \/ b # a => UnitsAbout(d, b)' = UnitsAbout(d, b)
    BY <1>4, CopyTells
  <2>3. \A texts \in Seq(Texts) :
          UnitsAbout(c, a) \o Left(t) = Units(c, a, texts) =>
            UnitsAbout(c, a)' \o Left(t)' = Units(c, a, texts)
    BY <1>4, CopyTells
  <2> QED BY <2>1, <2>2, <2>3
<1>6. IF c = "info" THEN item[t] = 0
      ELSE item[t] \in 1..Size /\ ~Unread(item[t]) /\ a = Lists[item[t]]
  BY <1>4, <1>5, Told
<1>7. \A u \in Threads : message'[u].channel \in {NoName, message[u].channel}
  BY <1>3, NoMessageIs
<1>8. \A j \in 1..Size : Unread(j)' <=> Unread(j)
  BY <1>2 DEF Unread
<1> HIDE DEF Left, Silent
<1>9. ASSUME NEW i \in 1..Size, item[t] # i PROVE ListInv(i)'
  <2>1. LeftOf(i)' = LeftOf(i)
    BY <1>2, <1>3, <1>9, LeftOfStays
  <2>2. \A u \in Threads : item'[u] = i =>
          item[u] = i /\ message'[u].channel \in {NoName, message[u].channel}
    BY <1>2, <1>7
  <2>3. Lists[i] \in DOMAIN fs' => Lists[i] \in DOMAIN fs /\ Found(fs, Lists[i])' = Found(fs, Lists[i])
    BY <1>2, FoundStays
  <2>4. \A d \in {"msg", "error"} : UnitsAbout(d, Lists[i])' = UnitsAbout(d, Lists[i])
    <3>1. CASE c = "info"
      BY <1>5, <3>1
    <3>2. CASE c # "info"
      <4>1. Lists[i] # a
        BY <1>6, <1>9, <3>2, LookupAssumption
      <4> QED BY <1>5, <4>1
    <3> QED BY <3>1, <3>2
  <2> QED BY ONLY <1>1, <1>8, <2>1, <2>2, <2>3, <2>4, ListStays
<1>10. ASSUME NEW i \in 1..Size, item[t] = i PROVE ListInv(i)'
  <2>1. i # 0 /\ c # "info" /\ ~Unread(i) /\ a = Lists[i]
    <3>1. i # 0
      BY SizeAssumption
    <3> QED BY <1>6, <1>10, <3>1
  <2>2. LeftOf(i) = Left(t)
    BY <1>1, <1>10, <2>1, LeftOfIs
  <2>3. LeftOf(i)' = Left(t)'
    <3>1. \A u \in Threads : item[u] = i => u = t
      BY <1>1, <1>10, <2>1, OneHand
    <3> QED BY <1>2, <1>10, <3>1, ThreadsAre DEF LeftOf
  <2>4. ASSUME NEW x \in {"msg", "error"}, NEW y \in {"msg", "error"}, x # y,
               NEW texts \in Seq(Texts), ListIs(i, x, y, texts)
        PROVE  ListIs(i, x, y, texts)'
    <3>1. /\ \A u \in Threads : item[u] = i => message[u].channel \in {NoName, x}
          /\ UnitsAbout(y, Lists[i]) = <<>>
          /\ UnitsAbout(x, Lists[i]) \o LeftOf(i) = Units(x, Lists[i], texts)
      BY <2>4 DEF ListIs
    <3>2. x = c
      BY <1>4, <1>5, <1>10, <3>1, NoMessageIs
    <3>3. UnitsAbout(y, Lists[i])' = <<>>
      BY <1>5, <2>4, <3>1, <3>2
    <3>4. UnitsAbout(x, Lists[i])' \o LeftOf(i)' = Units(x, Lists[i], texts)
      BY <1>5, <2>1, <2>2, <2>3, <3>1, <3>2
    <3>5. \A u \in Threads : item'[u] = i => message'[u].channel \in {NoName, x}
      BY <1>2, <1>7, <3>1
    <3> QED BY <3>3, <3>4, <3>5 DEF ListIs
  <2>5. \/ \E texts \in Seq(Texts) \ {<<>>} : ListIs(i, "error", "msg", texts)
        \/ \E texts \in Seq(Texts) :
             /\ ListIs(i, "msg", "error", texts)
             /\ Lists[i] \in DOMAIN fs => texts = Found(fs, Lists[i])
    BY <1>1, <2>1 DEF ListInv
  <2>6. CASE \E texts \in Seq(Texts) \ {<<>>} : ListIs(i, "error", "msg", texts)
    <3>1. PICK texts \in Seq(Texts) \ {<<>>} : ListIs(i, "error", "msg", texts)
      BY <2>6
    <3>2. ListIs(i, "error", "msg", texts)'
      BY <2>4, <3>1
    <3> QED BY <1>8, <2>1, <3>2 DEF ListInv
  <2>7. CASE \E texts \in Seq(Texts) :
               /\ ListIs(i, "msg", "error", texts)
               /\ Lists[i] \in DOMAIN fs => texts = Found(fs, Lists[i])
    <3>1. PICK texts \in Seq(Texts) :
               /\ ListIs(i, "msg", "error", texts)
               /\ Lists[i] \in DOMAIN fs => texts = Found(fs, Lists[i])
      BY <2>7
    <3>2. ListIs(i, "msg", "error", texts)'
      BY <2>4, <3>1
    <3>3. Lists[i] \in DOMAIN fs' => texts = Found(fs, Lists[i])'
      BY <1>2, <3>1, FoundStays
    <3> QED BY <1>8, <2>1, <3>2, <3>3 DEF ListInv
  <2> QED BY <2>5, <2>6, <2>7
<1> QED BY <1>9, <1>10

\* Being of the same piece is an equivalence.
LEMMA SamePieceIs ==
  /\ \A u : SamePiece(u, u)
  /\ \A u, v : SamePiece(u, v) => SamePiece(v, u)
  /\ \A u, v, w : SamePiece(u, v) /\ SamePiece(v, w) => SamePiece(u, w)
BY DEF SamePiece

\* One more unit of the piece that is being written keeps it together, and the others.
LEMMA PieceGrows ==
  ASSUME NEW R, NEW s \in Seq(R), NEW e \in R,
         \A i \in 1..Len(s) : SamePiece(s[i], e) => \A j \in i..Len(s) : SamePiece(s[i], s[j]),
         NEW w, w = Append(s, e)
  PROVE  /\ \A h : SamePiece(e, h) =>
              \A i \in 1..Len(w) : SamePiece(w[i], h) =>
                \A j \in i..Len(w) : SamePiece(w[i], w[j])
         /\ (\A i, k \in 1..Len(s) : SamePiece(s[i], s[k]) =>
               \A j \in i..k : SamePiece(s[i], s[j])) =>
              \A i, k \in 1..Len(w) : SamePiece(w[i], w[k]) =>
                \A j \in i..k : SamePiece(w[i], w[j])
<1>1. /\ Len(s) \in Nat /\ Len(w) = Len(s) + 1 /\ w[Len(s) + 1] = e
      /\ \A i \in 1..Len(s) : w[i] = s[i]
  OBVIOUS
<1>2. ASSUME NEW i \in 1..Len(w), SamePiece(w[i], e), NEW j \in i..Len(w)
      PROVE  SamePiece(w[i], w[j])
  <2>1. CASE i = Len(s) + 1
    <3>1. j = i
      BY <1>1, <2>1
    <3> QED BY <3>1, SamePieceIs
  <2>2. CASE i # Len(s) + 1 /\ j = Len(s) + 1
    BY <1>1, <1>2, <2>2
  <2>3. CASE i # Len(s) + 1 /\ j # Len(s) + 1
    <3>1. i \in 1..Len(s) /\ j \in i..Len(s) /\ j \in 1..Len(s)
      BY <1>1, <2>3
    <3> QED BY <1>1, <1>2, <3>1
  <2> QED BY <2>1, <2>2, <2>3
<1>3. ASSUME NEW h, SamePiece(e, h), NEW i \in 1..Len(w), SamePiece(w[i], h),
             NEW j \in i..Len(w)
      PROVE  SamePiece(w[i], w[j])
  <2>1. SamePiece(w[i], e)
    BY <1>3, SamePieceIs
  <2> QED BY <1>2, <2>1
<1>4. ASSUME \A i, k \in 1..Len(s) : SamePiece(s[i], s[k]) =>
               \A j \in i..k : SamePiece(s[i], s[j]),
             NEW i \in 1..Len(w), NEW k \in 1..Len(w), SamePiece(w[i], w[k]), NEW j \in i..k
      PROVE  SamePiece(w[i], w[j])
  <2>1. CASE k = Len(s) + 1
    <3>1. SamePiece(w[i], e) /\ j \in i..Len(w)
      BY <1>1, <1>4, <2>1
    <3> QED BY <1>2, <3>1
  <2>2. CASE k # Len(s) + 1
    <3>1. k \in 1..Len(s) /\ i \in 1..Len(s) /\ j \in 1..Len(s)
      BY <1>1, <2>2
    <3> QED BY <1>1, <1>4, <3>1
  <2> QED BY <2>1, <2>2
<1> QED BY <1>3, <1>4

\* The unit that is copied continues what is written about its list, and its piece.
LEMMA CopyKeeps ==
  ASSUME LookInv, kind # NoName, NEW t \in Threads, Copy(t), UNCHANGED <<fs, phase, searchVars>>
  PROVE  LookInv'
<1>1. /\ LookTypes /\ ListsHaveLines(fs) /\ BegunInv /\ HandInv
      /\ \A j \in 1..Size : ListInv(j)
      /\ LastInv /\ MatchInv /\ PieceInv /\ WriterInv /\ PiecesAreWhole("msg")
  BY InvIs
<1>2. UNCHANGED <<fs, phase, pos, kind, what, lookPc, item, hadMatch, setup>>
  BY DEF searchVars, Copy
<1>3. /\ kind \in {NoName, "file", "text"} /\ pos \in 1..(Size + 1)
      /\ lookPc \in [Threads -> {"pop", "read", "end", "over"}]
      /\ item \in [Threads -> 0..Size] /\ hadMatch \in [Threads -> BOOLEAN]
      /\ message \in [Threads -> Message] /\ out \in Seq(Unit) /\ Size \in Nat
  BY <1>1, TypesOf
<1>4. /\ item["main"] = item["other"] => item["main"] = 0
      /\ lookPc["other"] # "over"
      /\ \A u \in Threads :
           /\ item[u] < pos
           /\ lookPc[u] = "read" => item[u] # 0
           /\ lookPc[u] \in {"read", "end"} => Silent(u)
           /\ lookPc[u] \in {"end", "over"} => item[u] = 0 /\ pos = Size + 1
           /\ Silent(u) <=> message[u].channel = NoName
           /\ ~Silent(u) => Left(u) # <<>>
           /\ message[u].channel \in {"msg", "error"} => lookPc[u] = "pop" /\ item[u] # 0
           /\ message[u].channel = "info" => lookPc[u] = "over"
  BY <1>1, HandOf
<1>5. PICK c, a : c = message[t].channel /\ a = About(t)
  OBVIOUS
<1>6. PICK e : e = Head(Left(t))
  OBVIOUS
<1>7. ~Silent(t) /\ c \in Channels /\ a \in Abouts /\ e \in Unit
  BY <1>5, <1>6, CopyTells
<1>8. NextIs(e, c, a, Len(UnitsAbout(c, a)) + 1)
  BY <1>5, <1>6, CopyTells
<1>9. UnitsAbout(c, a)' = Append(UnitsAbout(c, a), e)
  BY <1>5, <1>6, CopyTells
<1>10. \A d, b : d # c \/ b # a => UnitsAbout(d, b)' = UnitsAbout(d, b)
  BY <1>5, CopyTells
<1>11. UnitsOf(c)' = Append(UnitsOf(c), e)
  BY <1>5, <1>6, CopyTells
<1>12. \A d : d # c => UnitsOf(d)' = UnitsOf(d)
  BY <1>5, CopyTells
<1>13. \A texts \in Seq(Texts) :
          UnitsAbout(c, a) \o Left(t) = Units(c, a, texts) =>
            UnitsAbout(c, a)' \o Left(t)' = Units(c, a, texts)
  BY <1>5, CopyTells
<1>14. Left(t)' # <<>> => NextIs(Head(Left(t)'), c, a, Len(UnitsAbout(c, a)) + 2)
  BY <1>5, CopyTells
<1>15. /\ e = Head(message[t].piece) /\ Left(t)' = Tail(Left(t))
       /\ message' \in [Threads -> Message] /\ out' \in Seq(Unit)
       /\ message'[t].piece = Tail(message[t].piece) /\ message'[t].rest = message[t].rest
       /\ IF Left(t)' = <<>> THEN message'[t] = NoMessage ELSE message'[t].channel = c
       /\ \A u \in Threads \ {t} : message'[u] = message[u] /\ Left(u)' = Left(u)
  BY <1>1, <1>5, <1>6, CopyIs
<1>16. IF c = "info" THEN t = "main" /\ lookPc[t] = "over" /\ item[t] = 0
       ELSE item[t] \in 1..Size /\ a = Lists[item[t]] /\ lookPc[t] = "pop"
  BY <1>5, <1>7, Told
<1>17. /\ c # NoName
       /\ \A u \in Threads : message'[u].channel \in {NoName, message[u].channel}
       /\ Silent(t)' <=> Left(t)' = <<>>
       /\ Silent(t)' <=> message'[t].channel = NoName
       /\ \A u \in Threads \ {t} : Silent(u)' <=> Silent(u)
  <2>1. c # NoName
    BY <1>7, NoMessageIs
  <2>2. \A u \in Threads : message'[u].channel \in {NoName, message[u].channel}
    BY <1>5, <1>15, NoMessageIs
  <2>3. Silent(t)' <=> message'[t] = NoMessage
    BY DEF Silent
  <2>4. \A u \in Threads \ {t} : Silent(u)' <=> Silent(u)
    BY <1>15 DEF Silent
  <2> QED BY <1>15, <2>1, <2>2, <2>3, <2>4, NoMessageIs
<1> HIDE DEF Left, Silent
<1>18. LookTypes'
  BY <1>2, <1>3, <1>15 DEF LookTypes
<1>19. ListsHaveLines(fs)' /\ BegunInv'
  BY <1>1, <1>2, BegunStays DEF ListsHaveLines
<1>20. HandInv'
  <2>1. lookPc'["other"] # "over" /\ (item'["main"] = item'["other"] => item'["main"] = 0)
    BY <1>2, <1>4
  <2>2. ASSUME NEW u \in Threads
        PROVE  /\ item'[u] < pos'
               /\ lookPc'[u] = "read" => item'[u] # 0
               /\ lookPc'[u] \in {"read", "end"} => Silent(u)'
               /\ lookPc'[u] \in {"end", "over"} => item'[u] = 0 /\ pos' = Size + 1
               /\ Silent(u)' <=> message'[u].channel = NoName
               /\ ~Silent(u)' => Left(u)' # <<>>
               /\ message'[u].channel \in {"msg", "error"} => lookPc'[u] = "pop" /\ item'[u] # 0
               /\ message'[u].channel = "info" => lookPc'[u] = "over"
    <3>1. CASE u # t
      BY <1>2, <1>4, <1>15, <1>17, <3>1
    <3>2. CASE u = t
      <4>1. lookPc[t] \notin {"read", "end"}
        BY <1>4, <1>7
      <4>2. NoName \notin {"msg", "error", "info"}
        BY NoMessageIs DEF Channels
      <4>3. message'[t].channel \in {NoName, message[t].channel}
        BY <1>17
      <4>4. /\ message'[t].channel \in {"msg", "error"} => lookPc[t] = "pop" /\ item[t] # 0
            /\ message'[t].channel = "info" => lookPc[t] = "over"
        BY <1>4, <4>2, <4>3
      <4> QED BY <1>2, <1>4, <1>17, <3>2, <4>1, <4>4
    <3> QED BY <3>1, <3>2
  <2> QED BY <2>1, <2>2 DEF HandInv
<1>21. \A i \in 1..Size : ListInv(i)'
  BY CopyLists
<1>22. LastInv'
  <2>1. Quiet' = Quiet /\ NothingFound' = NothingFound
    BY <1>2 DEF Quiet, NothingFound
  <2> HIDE DEF Quiet, NothingFound
  <2>2. CASE c = "info"
    <3>1. /\ t = "main" /\ lookPc["main"] = "over" /\ a = <<>>
      BY <1>5, <1>16, <2>2 DEF About
    <3>2. /\ lookPc["other"] = "end" \/ (kind = "file" /\ hadMatch["main"])
          /\ UnitsAbout("info", <<>>) \o Left("main") =
               IF Quiet THEN <<>> ELSE Units("info", <<>>, WordsOf(NothingFound))
      BY <1>1, <3>1 DEF LastInv
    <3>3. ~Quiet
      <4>1. UnitsAbout("info", <<>>) \in Seq(Unit) /\ Left("main") \in Seq(Unit) /\ Left("main") # <<>>
        BY <1>1, <1>3, <1>4, <1>7, <3>1, UnitsAre, LeftIs
      <4> DEFINE s == UnitsAbout("info", <<>>)
                 w == Left("main")
      <4>2. s \in Seq(Unit) /\ w \in Seq(Unit) /\ w # <<>>
        BY <4>1
      <4> HIDE DEF s, w
      <4>3. s \o w # <<>>
        BY <4>2, ConcatEqualIffEmpty
      <4> QED BY <3>2, <4>3 DEF s, w
    <3>4. WordsOf(NothingFound) \in Seq(Texts)
      <4>1. <<>> \in Texts /\ <<"nothing found">> \in Texts
        BY DEF Texts, Words
      <4>2. \A v, w \in Texts : <<v, w>> \in Seq(Texts) /\ <<v>> \in Seq(Texts)
        OBVIOUS
      <4>3. <<<<"nothing found">>, <<>>>> \in Seq(Texts) /\ <<<<>>>> \in Seq(Texts)
        BY <4>1, <4>2, Zenon
      <4> QED BY <4>3 DEF WordsOf
    <3>5. UnitsAbout("info", <<>>)' \o Left("main")' = Units("info", <<>>, WordsOf(NothingFound))
      BY <1>13, <2>2, <3>1, <3>2, <3>3, <3>4
    <3>6. WordsOf(NothingFound)' = WordsOf(NothingFound)
      BY <2>1 DEF WordsOf
    <3> QED BY <1>2, <2>1, <3>1, <3>2, <3>3, <3>5, <3>6 DEF LastInv
  <2>3. CASE c # "info"
    <3>1. UnitsAbout("info", <<>>)' = UnitsAbout("info", <<>>)
      BY <1>10, <2>3
    <3>2. lookPc["main"] = "over" => Left("main")' = Left("main")
      BY <1>15, <1>16, <2>3, ThreadsAre
    <3>3. WordsOf(NothingFound)' = WordsOf(NothingFound)
      BY <2>1 DEF WordsOf
    <3> QED BY <1>1, <1>2, <2>1, <3>1, <3>2, <3>3 DEF LastInv
  <2> QED BY <2>2, <2>3
<1>23. MatchInv'
  <2>1. (\E u \in Threads : hadMatch[u]) <=>
          UnitsOf("msg") # <<>> \/ \E u \in Threads : message[u].channel = "msg"
    BY <1>1 DEF MatchInv
  <2>2. CASE c = "msg"
    <3>1. UnitsOf("msg")' # <<>>
      <4>1. UnitsOf("msg") \in Seq(Unit)
        BY <1>3, UnitsAre
      <4> DEFINE s == UnitsOf("msg")
      <4>2. s \in Seq(Unit)
        BY <4>1
      <4> HIDE DEF s
      <4>3. Append(s, e) # <<>>
        BY <1>7, <4>2, AppendProperties
      <4> QED BY <1>11, <2>2, <4>3 DEF s
    <3> QED BY <1>2, <1>5, <2>1, <2>2, <3>1 DEF MatchInv
  <2>3. CASE c # "msg"
    <3>1. UnitsOf("msg")' = UnitsOf("msg")
      BY <1>12, <2>3
    <3>2. \A u \in Threads : message'[u].channel = "msg" <=> message[u].channel = "msg"
      <4>1. NoName # "msg"
        BY NoMessageIs DEF Channels
      <4> QED BY <1>5, <1>15, <1>17, <2>3, <4>1
    <3> QED BY <1>2, <2>1, <3>1, <3>2 DEF MatchInv
  <2> QED BY <2>2, <2>3
<1>24. PICK k \in Nat :
         /\ k * Piece <= Done(t) /\ Done(t) + Len(message[t].piece) <= (k + 1) * Piece
         /\ message[t].piece # <<>> /\ message[t].rest # <<>> =>
              Done(t) + Len(message[t].piece) = (k + 1) * Piece
  BY <1>1, <1>7 DEF PieceInv, PieceIs
<1>25. Done(t) = Len(UnitsAbout(c, a)) /\ Done(t) \in Nat
  <2>1. UnitsAbout(c, a) \in Seq(Unit)
    BY <1>3, UnitsAre
  <2> DEFINE s == UnitsAbout(c, a)
  <2>2. Done(t) = Len(s)
    BY <1>5 DEF Done
  <2> HIDE DEF s
  <2> QED BY <2>1, <2>2 DEF s
<1>26. /\ message[t].piece # <<>> /\ Len(message[t].piece) \in Nat \ {0}
       /\ Len(Tail(message[t].piece)) = Len(message[t].piece) - 1
  <2> DEFINE p == message[t].piece
  <2>1. p \in Seq(Unit) /\ p # <<>>
    BY <1>1, LeftIs DEF Copy
  <2> HIDE DEF p
  <2>2. Len(p) \in Nat \ {0} /\ Len(Tail(p)) = Len(p) - 1
    BY <2>1
  <2> QED BY <2>1, <2>2 DEF p
<1>27. k * Piece \in Nat /\ (k + 1) * Piece = k * Piece + Piece /\ Piece \in Nat \ {0}
  BY LogAssumption, SMTT(30)
<1>28. PieceInv'
  <2> SUFFICES ASSUME NEW u \in Threads, ~Silent(u)' PROVE PieceIs(u)'
    BY DEF PieceInv
  <2>1. CASE u # t
    <3>1. item'[u] = item[u] /\ message'[u] = message[u] /\ PieceIs(u) /\ ~Silent(u)
      BY <1>1, <1>2, <1>15, <1>17, <2>1 DEF PieceInv
    <3>2. PICK d, b : d = message[u].channel /\ b = About(u)
      OBVIOUS
    <3>3. d # c \/ b # a
      <4>1. IF d = "info" THEN u = "main" ELSE item[u] \in 1..Size /\ b = Lists[item[u]]
        BY <3>1, <3>2, Told
      <4>2. CASE d = "info"
        BY <1>16, <2>1, <4>1, <4>2
      <4>3. CASE d # "info"
        <5> SUFFICES ASSUME c # "info" PROVE b # a
          BY <4>3
        <5>1. item[u] # item[t]
          <6>1. item[u] # 0
            BY <1>3, <4>1, <4>3
          <6> QED BY <1>1, <2>1, <6>1, OneHand
        <5> QED BY <1>16, <4>1, <4>3, <5>1, LookupAssumption
      <4> QED BY <4>2, <4>3
    <3>4. UnitsAbout(d, b)' = UnitsAbout(d, b)
      BY <1>10, <3>3
    <3>5. About(u)' = b
      BY <1>2, <3>1, <3>2 DEF About
    <3>6. Done(u)' = Done(u)
      BY <3>1, <3>2, <3>4, <3>5 DEF Done
    <3> QED BY <3>1, <3>6, PieceStays
  <2>2. CASE u = t
    <3>1. message'[t].channel = c /\ Left(t)' # <<>>
      BY <1>15, <1>17, <2>2
    <3>2. About(t)' = a
      BY <1>2, <1>5, <3>1 DEF About
    <3>3. Done(t)' = Done(t) + 1
      <4>1. UnitsAbout(c, a) \in Seq(Unit)
        BY <1>3, UnitsAre
      <4> DEFINE s == UnitsAbout(c, a)
      <4>2. s \in Seq(Unit)
        BY <4>1
      <4> HIDE DEF s
      <4>3. Len(Append(s, e)) = Len(s) + 1
        BY <1>7, <4>2, AppendProperties
      <4>4. Done(t)' = Len(Append(s, e))
        BY <1>9, <3>1, <3>2 DEF Done, s
      <4> QED BY <1>25, <4>3, <4>4 DEF s
    <3> DEFINE p == message[t].piece
               d == k * Piece
               d1 == (k + 1) * Piece
               d2 == ((k + 1) + 1) * Piece
               n == Done(t)
               l == Len(p)
    <3>4. /\ d \in Nat /\ d1 = d + Piece /\ d2 = d1 + Piece /\ Piece \in Nat \ {0} /\ n \in Nat
          /\ l \in Nat \ {0} /\ d <= n /\ n + l <= d1
      <4>1. d2 = d1 + Piece
        BY LogAssumption, SMTT(30)
      <4> QED BY <1>24, <1>25, <1>26, <1>27, <4>1
    <3>5. message'[t].piece = Tail(p) /\ Len(Tail(p)) = l - 1 /\ (Tail(p) = <<>> <=> l = 1)
      <4>1. p \in Seq(Unit) /\ p # <<>>
        BY <1>1, <1>26, LeftIs
      <4>2. Tail(p) = <<>> <=> Len(p) = 1
        <5> HIDE DEF p
        <5>1. <<>> \in Seq(Unit)
          OBVIOUS
        <5> QED BY <4>1, <5>1, HeadOfBoth
      <4> QED BY <1>15, <1>26, <4>2
    <3>6. CASE l = 1
      <4>1. message'[t].rest # <<>>
        <5>1. message'[t].rest = <<>> => Left(t)' = <<>>
          BY <3>5, <3>6 DEF Left
        <5> QED BY <3>1, <5>1
      <4>2. n + 1 = d1
        BY <1>15, <1>24, <1>26, <3>6, <4>1
      <4>3. k + 1 \in Nat /\ d1 <= Done(t)' /\ Done(t)' + Len(message'[t].piece) <= d2
            /\ Done(t)' = d1 /\ message'[t].piece = <<>>
        <5> HIDE DEF d, d1, d2, n, l, p
        <5>1. Done(t)' = n + 1
          BY <3>3 DEF n
        <5>2. d1 <= d1 /\ d1 + 0 <= d2
          BY ONLY <3>4
        <5>3. Len(message'[t].piece) = 0
          BY <3>5, <3>6
        <5>4. Done(t)' = d1 /\ Done(t)' + Len(message'[t].piece) = d1 + 0
          BY ONLY <4>2, <5>1, <5>3
        <5>5. message'[t].piece = <<>> /\ k + 1 \in Nat
          BY <3>5, <3>6
        <5> HIDE DEF Done
        <5> QED BY ONLY <5>2, <5>4, <5>5
      <4> HIDE DEF Done, p, l, n, d
      <4> QED BY <2>2, <4>3 DEF PieceIs
    <3>7. CASE l # 1
      <4>1. /\ d <= Done(t)' /\ Done(t)' + Len(message'[t].piece) <= d1
            /\ message'[t].piece # <<>>
            /\ message'[t].rest # <<>> => Done(t)' + Len(message'[t].piece) = d1
        <5>1. message[t].rest # <<>> => n + l = d1
          BY <1>24, <1>26
        <5>2. Done(t)' = n + 1 /\ Len(message'[t].piece) = l - 1 /\ message'[t].rest = message[t].rest
          BY <1>15, <3>3, <3>5
        <5> HIDE DEF d, d1, d2, n, l, p
        <5>3. d <= n + 1 /\ (n + 1) + (l - 1) = n + l
          BY ONLY <3>4
        <5> QED BY <3>4, <3>5, <3>7, <5>1, <5>2, <5>3
      <4> HIDE DEF Done, p, l, n
      <4> QED BY <2>2, <4>1 DEF PieceIs
    <3> QED BY <3>6, <3>7
  <2> QED BY <2>1, <2>2
<1>29. WriterInv' /\ PiecesAreWhole("msg")'
  <2>1. CASE c # "msg"
    <3>1. UnitsOf("msg")' = UnitsOf("msg") /\ \A b : UnitsAbout("msg", b)' = UnitsAbout("msg", b)
      BY <1>10, <1>12, <2>1
    <3>2. \A u \in Threads : Flushing(u, "msg")' =>
            Flushing(u, "msg") /\ Head(message'[u].piece) = Head(message[u].piece)
      <4>1. message'[t].channel # "msg"
        <5>1. NoName # "msg"
          BY NoMessageIs DEF Channels
        <5> QED BY <1>5, <1>17, <2>1, <5>1
      <4> QED BY <1>15, <4>1 DEF Flushing
    <3> QED BY <1>1, <3>1, <3>2, WriterStays
  <2>2. CASE c = "msg"
    <3> DEFINE U == UnitsOf("msg")
               N(b) == Len(UnitsAbout("msg", b))
    <3>1. /\ \A v, u \in Threads : Flushing(v, "msg") /\ Flushing(u, "msg") => v = u
          /\ \A v \in Threads : Flushing(v, "msg") =>
               \A i \in DOMAIN U : SamePiece(U[i], Head(message[v].piece)) =>
                 \A j \in i..Len(U) : SamePiece(U[i], U[j])
          /\ \A i \in DOMAIN U : U[i].n <= N(U[i].about)
      BY <1>1 DEF WriterInv
    <3>2. Flushing(t, "msg")
      BY <1>5, <1>26, <2>2 DEF Flushing
    <3>3. \A u \in Threads : Flushing(u, "msg")' => u = t
      <4>1. \A u \in Threads \ {t} : Flushing(u, "msg")' => Flushing(u, "msg")
        BY <1>15 DEF Flushing
      <4> QED BY <3>1, <3>2, <4>1
    <3>4. U \in Seq(Unit) /\ DOMAIN U = 1..Len(U) /\ Len(U) \in Nat
      <4>1. UnitsOf("msg") \in Seq(Unit)
        BY <1>3, UnitsAre
      <4> QED BY <4>1
    <3>5. UnitsOf("msg")' = Append(U, e) /\ Append(U, e) \in Seq(Unit)
      <4>1. UnitsOf("msg")' = Append(U, e)
        BY <1>11, <2>2
      <4> HIDE DEF U
      <4> QED BY <1>7, <3>4, <4>1
    <3>6. PICK w : w = Append(U, e)
      OBVIOUS
    <3>7. \A i \in 1..Len(U) : SamePiece(U[i], e) => \A j \in i..Len(U) : SamePiece(U[i], U[j])
      BY <1>15, <3>1, <3>2, <3>4
    <3>8. \A i, j \in 1..Len(U) : SamePiece(U[i], U[j]) => \A l \in i..j : SamePiece(U[i], U[l])
      BY <1>1, <3>4 DEF PiecesAreWhole
    <3>9. /\ \A h : SamePiece(e, h) =>
               \A i \in 1..Len(w) : SamePiece(w[i], h) =>
                 \A j \in i..Len(w) : SamePiece(w[i], w[j])
          /\ \A i, j \in 1..Len(w) : SamePiece(w[i], w[j]) =>
               \A l \in i..j : SamePiece(w[i], w[l])
      <4> HIDE DEF U
      <4>1. \A h : SamePiece(e, h) =>
               \A i \in 1..Len(w) : SamePiece(w[i], h) =>
                 \A j \in i..Len(w) : SamePiece(w[i], w[j])
        BY <1>7, <3>4, <3>6, <3>7, PieceGrows
      <4>2. \A i, j \in 1..Len(w) : SamePiece(w[i], w[j]) =>
               \A l \in i..j : SamePiece(w[i], w[l])
        BY <1>7, <3>4, <3>6, <3>7, <3>8, PieceGrows
      <4> QED BY <4>1, <4>2
    <3>10. /\ DOMAIN w = 1..Len(w) /\ Len(w) = Len(U) + 1 /\ w[Len(U) + 1] = e
           /\ \A i \in 1..Len(U) : w[i] = U[i]
      <4> HIDE DEF U
      <4> QED BY <1>7, <3>4, <3>6
    <3>11. UnitsOf("msg")' = w
      BY <3>5, <3>6
    <3>12. PiecesAreWhole("msg")'
      BY <3>9, <3>10, <3>11 DEF PiecesAreWhole
    <3>13. ASSUME Flushing(t, "msg")'
           PROVE  SamePiece(e, Head(message'[t].piece))
      <4> DEFINE p == message[t].piece
                 q == message'[t].piece
                 h == Head(q)
      <4>1. q # <<>> /\ q = Tail(p)
        BY <1>15, <3>13 DEF Flushing
      <4>2. p \in Seq(Unit) /\ p # <<>> /\ q \in Seq(Unit)
        <5>1. p \in Seq(Unit) /\ p # <<>>
          BY <1>1, <1>26, LeftIs
        <5> HIDE DEF p
        <5>2. Tail(p) \in Seq(Unit)
          BY <5>1
        <5> QED BY <4>1, <5>1, <5>2
      <4>3. Len(p) # 1 /\ Len(p) \in Nat \ {0}
        <5> HIDE DEF p, q
        <5>1. <<>> \in Seq(Unit)
          OBVIOUS
        <5> QED BY <4>1, <4>2, <5>1, HeadOfBoth
      <4>4. Left(t)' # <<>> /\ Head(Left(t)') = h
        <5>1. Left(t)' = q \o message'[t].rest
          BY DEF Left
        <5>2. message'[t].rest \in Seq(Unit)
          BY <1>1, <1>15, LeftIs
        <5> DEFINE r == message'[t].rest
        <5>3. r \in Seq(Unit) /\ Left(t)' = q \o r
          BY <5>1, <5>2
        <5> HIDE DEF q, r
        <5>4. q \o r # <<>> /\ Head(q \o r) = Head(q)
          BY <4>1, <4>2, <5>3, HeadOfBoth
        <5> QED BY <5>3, <5>4
      <4>5. NextIs(h, c, a, Len(UnitsAbout(c, a)) + 2)
        BY <1>14, <4>4
      <4> DEFINE n == Done(t)
                 d == k * Piece
                 d1 == (k + 1) * Piece
                 l == Len(p)
      <4>6. e.about = a /\ h.about = a /\ e.n = n + 1 /\ h.n = n + 2
        <5> HIDE DEF n, h
        <5> QED BY <1>8, <1>25, <4>5 DEF NextIs, n
      <4>7. n \in Nat /\ l \in Nat \ {0, 1} /\ d \in Nat /\ d1 \in Nat /\ d <= n /\ n + l <= d1
        BY <1>24, <1>25, <1>27, <4>3
      <4> HIDE DEF n, d, d1, l, h
      <4>8. /\ e.about = h.about /\ e.n \in Nat \ {0} /\ h.n \in Nat \ {0}
            /\ d < e.n /\ e.n <= d1 /\ d < h.n /\ h.n <= d1
        BY <4>6, <4>7
      <4>9. SamePiece(e, h)
        BY <4>8, SamePieces DEF d, d1
      <4> QED BY <4>9 DEF h
    <3>14. \A v, u \in Threads : Flushing(v, "msg")' /\ Flushing(u, "msg")' => v = u
      BY <3>3
    <3>15. \A v \in Threads : Flushing(v, "msg")' =>
             \A i \in DOMAIN w : SamePiece(w[i], Head(message'[v].piece)) =>
               \A j \in i..Len(w) : SamePiece(w[i], w[j])
      BY <3>3, <3>9, <3>10, <3>13
    <3>16. \A i \in DOMAIN w : w[i].n <= Len(UnitsAbout("msg", w[i].about)')
      <4>1. \A b : UnitsAbout("msg", b) \in Seq(Unit)
        BY <1>3, UnitsAre
      <4>2. UnitsAbout("msg", a)' = Append(UnitsAbout("msg", a), e)
            /\ Len(Append(UnitsAbout("msg", a), e)) = N(a) + 1 /\ N(a) \in Nat
        <5> DEFINE s == UnitsAbout("msg", a)
        <5>1. s \in Seq(Unit)
          BY <4>1
        <5>2. UnitsAbout("msg", a)' = Append(s, e)
          BY <1>9, <2>2
        <5> HIDE DEF s
        <5>3. Len(Append(s, e)) = Len(s) + 1 /\ Len(s) \in Nat
          BY <1>7, <5>1, AppendProperties
        <5> QED BY <5>2, <5>3 DEF s
      <4>3. e.about = a /\ e.n = N(a) + 1
        BY <1>8, <2>2 DEF NextIs
      <4> SUFFICES ASSUME NEW i \in DOMAIN w PROVE w[i].n <= Len(UnitsAbout("msg", w[i].about)')
        OBVIOUS
      <4>4. CASE i = Len(U) + 1
        <5>1. w[i] = e
          BY <3>10, <4>4
        <5>2. Len(UnitsAbout("msg", a)') = N(a) + 1
          BY <4>2
        <5> HIDE DEF N
        <5> QED BY <4>2, <4>3, <5>1, <5>2
      <4>5. CASE i # Len(U) + 1
        <5>1. i \in 1..Len(U) /\ w[i] = U[i]
          BY <3>4, <3>10, <4>5
        <5>2. U[i].n <= N(U[i].about) /\ U[i].n \in Nat /\ N(U[i].about) \in Nat
          <6>1. U[i] \in Unit
            <7> HIDE DEF U
            <7> QED BY <3>4, <5>1
          <6>2. U[i].n \in Nat
            BY <6>1 DEF Unit
          <6>3. \A b : N(b) \in Nat
            <7> SUFFICES ASSUME NEW b PROVE N(b) \in Nat
              OBVIOUS
            <7> DEFINE s == UnitsAbout("msg", b)
            <7>1. s \in Seq(Unit)
              BY <4>1
            <7> HIDE DEF s
            <7>2. Len(s) \in Nat
              BY <7>1
            <7> QED BY <7>2 DEF s
          <6> QED BY <3>1, <3>4, <5>1, <6>2, <6>3
        <5>3. CASE U[i].about = a
          <6>1. w[i].about = a
            BY <5>1, <5>3
          <6>2. Len(UnitsAbout("msg", w[i].about)') = N(a) + 1
            BY <4>2, <6>1
          <6> HIDE DEF N, U
          <6> QED BY <5>1, <5>2, <5>3, <6>2
        <5>4. CASE U[i].about # a
          <6>1. w[i].about # a
            BY <5>1, <5>4
          <6>2. UnitsAbout("msg", w[i].about)' = UnitsAbout("msg", w[i].about)
            BY <1>10, <6>1
          <6>3. Len(UnitsAbout("msg", w[i].about)') = N(U[i].about)
            BY <5>1, <6>2
          <6> HIDE DEF N, U
          <6> QED BY <5>1, <5>2, <6>3
        <5> QED BY <5>3, <5>4
      <4> QED BY <4>4, <4>5
    <3>17. WriterInv'
      <4> HIDE DEF U, N
      <4> QED BY <3>11, <3>14, <3>15, <3>16 DEF WriterInv
    <3> QED BY <3>12, <3>17
  <2> QED BY <2>1, <2>2
<1> QED BY <1>18, <1>19, <1>20, <1>21, <1>22, <1>23, <1>28, <1>29 DEF LookInv

-----------------------------------------------------------------------------
(* The last words, and what the lookup does not do.                        *)

\* What may be said at the end.
LEMMA WordsAre == \A nothing \in BOOLEAN : WordsOf(nothing) \in Seq(Texts) \ {<<>>}
<1>1. <<>> \in Texts /\ <<"nothing found">> \in Texts
  BY DEF Texts, Words
<1>2. \A v, w \in Texts : /\ <<v, w>> \in Seq(Texts) /\ <<v>> \in Seq(Texts)
                          /\ <<v, w>> # <<>> /\ <<v>> # <<>>
  OBVIOUS
<1>3. /\ <<<<"nothing found">>, <<>>>> \in Seq(Texts) /\ <<<<>>>> \in Seq(Texts)
      /\ <<<<"nothing found">>, <<>>>> # <<>> /\ <<<<>>>> # <<>>
  BY <1>1, <1>2, Zenon
<1> QED BY <1>3 DEF WordsOf

\* The main thread says the last words knowing whether there has been a match.
LEMMA ConcludeKeeps ==
  ASSUME LookInv, kind # NoName, Conclude, UNCHANGED <<fs, phase>>
  PROVE  LookInv'
<1>1. /\ LookTypes /\ ListsHaveLines(fs) /\ BegunInv /\ HandInv
      /\ \A j \in 1..Size : ListInv(j)
      /\ LastInv /\ MatchInv /\ PieceInv /\ WriterInv /\ PiecesAreWhole("msg")
  BY InvIs
<1>2. /\ lookPc["main"] = "end" /\ lookPc' = [lookPc EXCEPT !["main"] = "over"]
      /\ lookPc["other"] = "end" \/ (kind = "file" /\ hadMatch["main"])
      /\ UNCHANGED <<pos, kind, what, item, hadMatch, setup, out>>
  BY DEF Conclude
<1>3. /\ kind \in {NoName, "file", "text"} /\ pos \in 1..(Size + 1)
      /\ lookPc \in [Threads -> {"pop", "read", "end", "over"}]
      /\ item \in [Threads -> 0..Size] /\ hadMatch \in [Threads -> BOOLEAN]
      /\ message \in [Threads -> Message] /\ out \in Seq(Unit) /\ Size \in Nat
  BY <1>1, TypesOf
<1>4. /\ item["main"] = item["other"] => item["main"] = 0
      /\ lookPc["other"] # "over"
      /\ \A u \in Threads :
           /\ item[u] < pos
           /\ lookPc[u] = "read" => item[u] # 0
           /\ lookPc[u] \in {"read", "end"} => Silent(u)
           /\ lookPc[u] \in {"end", "over"} => item[u] = 0 /\ pos = Size + 1
           /\ Silent(u) <=> message[u].channel = NoName
           /\ ~Silent(u) => Left(u) # <<>>
           /\ message[u].channel \in {"msg", "error"} => lookPc[u] = "pop" /\ item[u] # 0
           /\ message[u].channel = "info" => lookPc[u] = "over"
  BY <1>1, HandOf
<1>5. "main" \in Threads /\ "other" \in Threads /\ \A u \in Threads : u = "main" \/ u = "other"
  BY ThreadsAre
<1>6. Silent("main") /\ item["main"] = 0 /\ pos = Size + 1 /\ message["main"].channel = NoName
  BY <1>2, <1>4, <1>5
<1>7. NothingFound \in BOOLEAN /\ NothingFound' = NothingFound
  BY <1>2 DEF NothingFound
<1>8. Say("main", "info", <<>>, WordsOf(NothingFound))
  BY DEF Conclude, LastWords, WordsOf
<1> HIDE DEF NothingFound
<1>9. /\ message' \in [Threads -> Message]
      /\ message'["other"] = message["other"] /\ message'["main"].piece = <<>>
      /\ Left("main")' = IF Quiet THEN <<>> ELSE Units("info", <<>>, WordsOf(NothingFound))
      /\ IF Quiet THEN message'["main"] = NoMessage
         ELSE message'["main"].channel = "info" /\ ~Silent("main")' /\ Left("main")' # <<>>
  <2>1. WordsOf(NothingFound) \in Seq(Texts) /\ WordsOf(NothingFound) # <<>>
    BY <1>7, WordsAre
  <2>2. CASE Quiet
    <3>1. StreamOf("info") = "none"
      BY <1>1, <2>2, StreamsAre
    <3>2. message' = [message EXCEPT !["main"] = NoMessage]
      BY <1>8, <3>1 DEF Say
    <3>3. NoMessage \in Message
      <4>1. <<>> \in Seq(Unit)
        OBVIOUS
      <4> QED BY <4>1, AMessage DEF NoMessage, NoName
    <3>4. /\ message' \in [Threads -> Message] /\ message'["other"] = message["other"]
          /\ message'["main"] = NoMessage
      BY <1>3, <1>5, <3>2, <3>3
    <3>5. Left("main")' = <<>>
      BY <3>4, NoMessageIs DEF Left
    <3> QED BY <2>2, <3>4, <3>5, NoMessageIs
  <2>3. CASE ~Quiet
    <3>1. StreamOf("info") # "none"
      BY <1>1, <2>3, StreamsAre
    <3>2. "info" \in Channels /\ <<>> \in Abouts
      BY DEF Channels, Abouts
    <3> DEFINE a == <<>>
               texts == WordsOf(NothingFound)
               c == "info"
    <3>3. c \in Channels /\ a \in Abouts /\ texts \in Seq(Texts) /\ texts # <<>>
          /\ StreamOf(c) # "none" /\ Say("main", c, a, texts)
      BY <1>8, <2>1, <3>1, <3>2
    <3> HIDE DEF a, texts, c
    <3>4. /\ message' \in [Threads -> Message] /\ \A u \in Threads \ {"main"} : message'[u] = message[u]
          /\ message'["main"].piece = <<>> /\ Left("main")' = Units(c, a, texts)
          /\ IF texts = <<>> THEN message'["main"] = NoMessage /\ Left("main")' = <<>>
             ELSE message'["main"].channel = c /\ ~Silent("main")' /\ Left("main")' # <<>>
      BY <1>1, <1>5, <3>3, SayIs
    <3>5. message'["other"] = message["other"]
      BY <1>5, <3>4
    <3> QED BY <2>3, <3>3, <3>4, <3>5 DEF a, texts, c
  <2> QED BY <2>2, <2>3
<1>10. /\ lookPc'["main"] = "over" /\ lookPc'["other"] = lookPc["other"]
       /\ lookPc' \in [Threads -> {"pop", "read", "end", "over"}]
  BY <1>2, <1>3, <1>5
<1>11. /\ Left("other")' = Left("other") /\ Silent("other")' = Silent("other")
       /\ \A d, a : UnitsAbout(d, a)' = UnitsAbout(d, a)
       /\ \A d : UnitsOf(d)' = UnitsOf(d)
  BY <1>2, <1>9, LeftStays, UnitsStay
<1>12. /\ message'["main"].channel \in {NoName, "info"} /\ NoName \notin {"info", "msg", "error"}
       /\ Silent("main")' <=> message'["main"].channel = NoName
  <2>1. NoName \notin {"info", "msg", "error"}
    BY NoMessageIs DEF Channels
  <2>2. message'["main"] = NoMessage => Silent("main")'
    BY DEF Silent
  <2> QED BY <1>9, <2>1, <2>2, NoMessageIs
<1>13. Quiet' = Quiet
  BY <1>2 DEF Quiet
<1> HIDE DEF Left, Silent
<1>14. LookTypes'
  BY <1>2, <1>3, <1>9, <1>10 DEF LookTypes
<1>15. ListsHaveLines(fs)' /\ BegunInv'
  BY <1>1, <1>2, BegunStays DEF ListsHaveLines
<1>16. HandInv'
  <2>1. lookPc'["other"] # "over" /\ (item'["main"] = item'["other"] => item'["main"] = 0)
    BY <1>2, <1>4, <1>10
  <2>2. ASSUME NEW u \in Threads
        PROVE  /\ item'[u] < pos'
               /\ lookPc'[u] = "read" => item'[u] # 0
               /\ lookPc'[u] \in {"read", "end"} => Silent(u)'
               /\ lookPc'[u] \in {"end", "over"} => item'[u] = 0 /\ pos' = Size + 1
               /\ Silent(u)' <=> message'[u].channel = NoName
               /\ ~Silent(u)' => Left(u)' # <<>>
               /\ message'[u].channel \in {"msg", "error"} => lookPc'[u] = "pop" /\ item'[u] # 0
               /\ message'[u].channel = "info" => lookPc'[u] = "over"
    <3>1. CASE u = "main"
      <4>1. ~Silent("main")' => Left("main")' # <<>>
        BY <1>9, <1>12, NoMessageIs
      <4>2. item["main"] < pos
        BY <1>4, <1>5
      <4> QED BY <1>2, <1>6, <1>10, <1>12, <3>1, <4>1, <4>2
    <3>2. CASE u = "other"
      BY <1>2, <1>4, <1>5, <1>9, <1>10, <1>11, <3>2
    <3> QED BY <1>5, <3>1, <3>2
  <2> QED BY <2>1, <2>2 DEF HandInv
<1>17. ASSUME NEW j \in 1..Size PROVE ListInv(j)'
  <2>0. j # 0
    BY <1>3
  <2>1. LeftOf(j)' = LeftOf(j)
    <3>1. \A u \in Threads : (item'[u] = j <=> item[u] = j) /\ (item[u] = j => Left(u)' = Left(u))
      BY <1>2, <1>5, <1>6, <1>11, <2>0
    <3> QED BY <3>1, LeftOfStays
  <2>2. Unread(j)' <=> Unread(j)
    <3>1. \A u \in Threads : lookPc'[u] = "read" <=> lookPc[u] = "read"
      BY <1>2, <1>5, <1>10
    <3> QED BY <1>2, <3>1 DEF Unread
  <2>3. \A u \in Threads : item'[u] = j =>
          item[u] = j /\ message'[u].channel \in {NoName, message[u].channel}
    BY <1>2, <1>5, <1>6, <1>9, <2>0
  <2>4. Lists[j] \in DOMAIN fs' => Lists[j] \in DOMAIN fs /\ Found(fs, Lists[j])' = Found(fs, Lists[j])
    BY <1>2, FoundStays
  <2> QED BY ONLY <1>1, <1>11, <2>1, <2>2, <2>3, <2>4, ListStays
<1>18. LastInv'
  <2>1. UnitsAbout("info", <<>>)' = <<>>
    BY <1>1, <1>2, <1>11 DEF LastInv
  <2>2. Left("main")' \in Seq(Unit)
    <3>1. message'["main"] \in Message
      BY <1>5, <1>9
    <3>2. message'["main"].piece \in Seq(Unit) /\ message'["main"].rest \in Seq(Unit)
      <4>1. <<>> \in Seq(Unit)
        OBVIOUS
      <4> QED BY <3>1, <4>1, MessageIs
    <3> QED BY <3>2 DEF Left
  <2>3. UnitsAbout("info", <<>>)' \o Left("main")' = Left("main")'
    BY <2>1, <2>2, ConcatEmptySeq
  <2>4. WordsOf(NothingFound)' = WordsOf(NothingFound)
    BY <1>7 DEF WordsOf
  <2> HIDE DEF Quiet
  <2> QED BY <1>2, <1>7, <1>9, <1>10, <1>13, <2>3, <2>4 DEF LastInv
<1>19. MatchInv'
  <2>1. \A u \in Threads : message'[u].channel = "msg" <=> message[u].channel = "msg"
    BY <1>5, <1>6, <1>9, <1>12
  <2> QED BY <1>1, <1>2, <2>1, MatchStays
<1>20. PieceInv'
  <2> SUFFICES ASSUME NEW u \in Threads, ~Silent(u)' PROVE PieceIs(u)'
    BY DEF PieceInv
  <2>1. CASE u = "other"
    <3>1. item'[u] = item[u] /\ message'[u] = message[u] /\ PieceIs(u)
      BY <1>1, <1>2, <1>9, <1>11, <2>1 DEF PieceInv
    <3> QED BY <1>2, <3>1, DoneStays, PieceStays
  <2>2. CASE u = "main"
    <3>1. message'["main"].channel = "info" /\ message'["main"].piece = <<>>
      BY <1>9, <1>12, <2>2
    <3>2. About("main")' = <<>>
      BY <3>1 DEF About
    <3>3. UnitsAbout("info", <<>>)' = <<>>
      BY <1>1, <1>2, <1>11 DEF LastInv
    <3>4. Done("main")' = 0
      BY <3>1, <3>2, <3>3 DEF Done
    <3>5. 0 * Piece <= 0 /\ 0 + Len(<<>>) <= (0 + 1) * Piece /\ 0 = 0 * Piece
      BY LogAssumption
    <3> QED BY <2>2, <3>1, <3>4, <3>5 DEF PieceIs
  <2> QED BY <1>5, <2>1, <2>2
<1>21. WriterInv' /\ PiecesAreWhole("msg")'
  <2>1. \A u \in Threads : Flushing(u, "msg")' =>
          Flushing(u, "msg") /\ Head(message'[u].piece) = Head(message[u].piece)
    BY <1>5, <1>9 DEF Flushing
  <2> QED BY <1>1, <1>11, <2>1, WriterStays
<1> QED BY <1>14, <1>15, <1>16, <1>17, <1>18, <1>19, <1>20, <1>21 DEF LookInv

-----------------------------------------------------------------------------
(* All the other steps.                                                    *)

\* What does not touch the lookup and takes lists away at most keeps what is known of it.
LEMMA IdleKeeps ==
  ASSUME LookInv, UNCHANGED lookVars, BegunInv',
         \A i \in 1..Size : Lists[i] \in DOMAIN fs' =>
           Lists[i] \in DOMAIN fs /\ fs'[Lists[i]] = fs[Lists[i]]
  PROVE  LookInv'
<1>1. /\ LookTypes /\ ListsHaveLines(fs) /\ BegunInv /\ HandInv
      /\ \A i \in 1..Size : ListInv(i)
      /\ LastInv /\ MatchInv /\ PieceInv /\ WriterInv /\ PiecesAreWhole("msg")
  BY InvIs
<1>2. UNCHANGED <<pos, kind, what, lookPc, item, hadMatch, setup, message, out>>
  BY DEF lookVars, searchVars, logVars
<1>3. /\ \A u : Left(u)' = Left(u) /\ Silent(u)' = Silent(u) /\ About(u)' = About(u)
      /\ \A c, a : UnitsAbout(c, a)' = UnitsAbout(c, a)
      /\ \A c : UnitsOf(c)' = UnitsOf(c)
      /\ Quiet' = Quiet /\ NothingFound' = NothingFound
  BY <1>2, UnitsStay DEF Left, Silent, Quiet, NothingFound, About
<1>4. LookTypes'
  BY <1>1, <1>2 DEF LookTypes
<1>5. ListsHaveLines(fs)'
  BY <1>1 DEF ListsHaveLines
<1>6. HandInv'
  <2> HIDE DEF Left, Silent
  <2> QED BY <1>1, <1>2, <1>3 DEF HandInv
<1>7. ASSUME NEW i \in 1..Size PROVE ListInv(i)'
  <2>1. LeftOf(i)' = LeftOf(i)
    BY <1>2, <1>3 DEF LeftOf
  <2>2. Unread(i)' <=> Unread(i)
    BY <1>2 DEF Unread
  <2>3. \A u \in Threads : item'[u] = i =>
          item[u] = i /\ message'[u].channel \in {NoName, message[u].channel}
    BY <1>2
  <2>4. Lists[i] \in DOMAIN fs' => Lists[i] \in DOMAIN fs /\ Found(fs, Lists[i])' = Found(fs, Lists[i])
    BY <1>2, FoundStays
  <2> QED BY ONLY <1>1, <1>3, <2>1, <2>2, <2>3, <2>4, ListStays
<1>8. LastInv'
  <2>1. WordsOf(NothingFound)' = WordsOf(NothingFound)
    BY <1>3 DEF WordsOf
  <2> HIDE DEF Left, Quiet
  <2> QED BY <1>1, <1>2, <1>3, <2>1 DEF LastInv
<1>9. MatchInv'
  BY <1>1, <1>2, MatchStays
<1>10. PieceInv'
  <2> SUFFICES ASSUME NEW u \in Threads, ~Silent(u)' PROVE PieceIs(u)'
    BY DEF PieceInv
  <2>1. PieceIs(u)
    BY <1>1, <1>3 DEF PieceInv
  <2> QED BY <1>2, <2>1, DoneStays, PieceStays
<1>11. WriterInv' /\ PiecesAreWhole("msg")'
  <2>1. \A u \in Threads : Flushing(u, "msg")' =>
          Flushing(u, "msg") /\ Head(message'[u].piece) = Head(message[u].piece)
    BY <1>2 DEF Flushing
  <2> QED BY <1>1, <1>3, <2>1, WriterStays
<1> QED BY <1>4, <1>5, <1>6, <1>7, <1>8, <1>9, <1>10, <1>11 DEF LookInv

-----------------------------------------------------------------------------
(* Before a lookup, and the steps of an execution.                         *)

\* A lookup that has not done anything yet, begun or not.
Fresh ==
  /\ LookTypes /\ PeekInit /\ message = [t \in Threads |-> NoMessage] /\ out = <<>>
  /\ \A t \in Threads : lookPc[t] = "pop" /\ item[t] = 0 /\ ~hadMatch[t]

\* Before a lookup does anything, everything known of it holds.
LEMMA FreshIs == Fresh /\ BegunInv /\ ListsHaveLines(fs) => LookInv
<1> SUFFICES ASSUME Fresh, BegunInv, ListsHaveLines(fs) PROVE LookInv
  OBVIOUS
<1>1. /\ LookTypes /\ pos = 1 /\ out = <<>>
      /\ \A t \in Threads : lookPc[t] = "pop" /\ item[t] = 0 /\ ~hadMatch[t]
      /\ \A t \in Threads : message[t] = NoMessage
  BY DEF Fresh, PeekInit
<1>2. \A t \in Threads : Silent(t) /\ message[t].channel = NoName /\ message[t].piece = <<>> /\ Left(t) = <<>>
  <2> TAKE t \in Threads
  <2>1. Silent(t) /\ message[t].channel = NoName /\ message[t].piece = <<>>
    BY <1>1, NoMessageIs DEF Silent
  <2> QED BY <1>1, <2>1, LeftIs
<1>3. \A c : UnitsOf(c) = <<>> /\ \A a : UnitsAbout(c, a) = <<>>
  BY <1>1, ThoseOfNone DEF UnitsOf, UnitsAbout
<1>4. Size \in Nat /\ NoName \notin {"msg", "error", "info"} /\ "main" \in Threads /\ "other" \in Threads
  BY SizeAssumption, NoMessageIs, ThreadsAre DEF Channels
<1>5. HandInv
  <2> HIDE DEF Silent, Left
  <2> QED BY <1>1, <1>2, <1>4 DEF HandInv
<1>6. ASSUME NEW i \in 1..Size PROVE ListInv(i)
  <2>1. i >= pos
    BY <1>1
  <2>2. Unread(i)
    BY <2>1 DEF Unread
  <2> QED BY <1>3, <2>2 DEF ListInv
<1>7. LastInv
  BY <1>1, <1>3, <1>4 DEF LastInv
<1>8. MatchInv
  BY <1>1, <1>2, <1>3, <1>4 DEF MatchInv
<1>9. PieceInv
  BY <1>2 DEF PieceInv
<1>10. WriterInv /\ PiecesAreWhole("msg")
  <2>1. \A t \in Threads : ~Flushing(t, "msg")
    BY <1>2 DEF Flushing
  <2>2. UnitsOf("msg") = <<>> /\ DOMAIN UnitsOf("msg") = {}
    BY <1>3
  <2> QED BY <2>1, <2>2 DEF WriterInv, PiecesAreWhole
<1> QED BY <1>1, <1>5, <1>6, <1>7, <1>8, <1>9, <1>10 DEF LookInv

\* The same after a step.
LEMMA FreshLater == Fresh' /\ BegunInv' /\ ListsHaveLines(fs)' => LookInv'
<1>1. Fresh /\ BegunInv /\ ListsHaveLines(fs) => LookInv
  BY FreshIs
<1> QED BY <1>1, PTL

\* Nothing has been done by an execution that looks for nothing.
LEMMA FreshBefore == ASSUME LookInv, kind = NoName PROVE Fresh
BY InvIs DEF Fresh, BegunInv

\* The log of an execution stays, and a lookup is all that comes before the end.
LEMMA BegunLater ==
  ASSUME BegunInv, UNCHANGED lookVars,
         \/ UNCHANGED phase
         \/ phase \notin {"start", "done"} /\ (phase \in {"lookup", "find"} => phase' = "done")
  PROVE  BegunInv'
<1>1. UNCHANGED <<pos, kind, lookPc, item, hadMatch, setup, message, out>>
  BY DEF lookVars, searchVars, logVars
<1>2. kind # NoName => phase' \in {"lookup", "find", "done"}
  BY DEF BegunInv
<1>3. kind # NoName \/ phase' \notin {"start", "done"} => AppStream' \in {"stdout", "file"}
  BY <1>1 DEF BegunInv, AppStream
<1>4. kind = NoName =>
        /\ PeekInit' /\ message = [t \in Threads |-> NoMessage] /\ out = <<>>
        /\ \A t \in Threads : lookPc[t] = "pop" /\ item[t] = 0 /\ ~hadMatch[t]
  BY <1>1 DEF BegunInv, PeekInit
<1> QED BY <1>1, <1>2, <1>3, <1>4 DEF BegunInv

\* What is removed is away, and no list is changed.
LEMMA RestStays ==
  ASSUME UNCHANGED fs \/ \E p \in Removable : Vanish(p)
  PROVE  \A i \in 1..Size : Lists[i] \in DOMAIN fs' =>
           Lists[i] \in DOMAIN fs /\ fs'[Lists[i]] = fs[Lists[i]]
<1>1. CASE UNCHANGED fs
  BY <1>1
<1>2. ASSUME NEW p \in Removable, Vanish(p)
      PROVE  \A q \in DOMAIN fs' : q \in DOMAIN fs /\ fs'[q] = fs[q]
  BY <1>2 DEF Vanish
<1> QED BY <1>1, <1>2

\* Making the log begins no lookup.
LEMMA StartKeeps == ASSUME LookInv, Start PROVE LookInv'
<1>1. /\ phase = "start" /\ UNCHANGED <<searchVars, message, out, fs>>
      /\ \/ phase' = "done"
         \/ CreateLog(AppStm, Parsed(argv).args.quiet)
  BY DEF Start, Exit, worldVars
<1>2. UNCHANGED <<pos, kind, what, lookPc, item, hadMatch, message, out, fs>>
  BY <1>1 DEF searchVars
<1>3. kind = NoName
  BY <1>1, InvIs DEF BegunInv
<1>4. Fresh'
  <2>1. Fresh
    BY <1>3, FreshBefore
  <2> QED BY <1>2, <2>1 DEF Fresh, LookTypes, PeekInit
<1>5. BegunInv'
  <2>1. phase' # "done" => AppStream' \in {"stdout", "file"}
    <3> SUFFICES ASSUME CreateLog(AppStm, Parsed(argv).args.quiet)
                 PROVE  AppStream' \in {"stdout", "file"}
      BY <1>1
    <3>1. AppStream' = AppStm
      BY DEF CreateLog, AppStream
    <3> QED BY <3>1 DEF AppStm
  <2>2. kind' = NoName
    BY <1>2, <1>3
  <2> QED BY <1>4, <2>1, <2>2 DEF BegunInv, Fresh
<1>6. ListsHaveLines(fs)'
  BY <1>2, InvIs DEF ListsHaveLines
<1> QED BY <1>4, <1>5, <1>6, FreshLater

\* A lookup is begun by an execution that has a log.
LEMMA BeginKeeps ==
  ASSUME LookInv, NEW k \in {"file", "text"}, NEW w, kind = NoName, Begin(k, w),
         phase \notin {"start", "done"}, phase' \in {"lookup", "find"}, UNCHANGED fs
  PROVE  LookInv'
<1>1. kind' = k /\ UNCHANGED <<pos, lookPc, item, hadMatch, setup, message, out, fs>>
  BY DEF Begin, logVars
<1>2. Fresh
  BY FreshBefore
<1>3. Fresh'
  BY <1>1, <1>2 DEF Fresh, LookTypes, PeekInit
<1>4. BegunInv'
  <2>1. AppStream \in {"stdout", "file"}
    BY InvIs DEF BegunInv
  <2>2. AppStream' \in {"stdout", "file"}
    BY <1>1, <2>1 DEF AppStream
  <2> QED BY <1>1, <1>3, <2>2 DEF BegunInv, Fresh
<1>5. ListsHaveLines(fs)'
  BY <1>1, InvIs DEF ListsHaveLines
<1> QED BY <1>3, <1>4, <1>5, FreshLater

\* A step of the lookup is one of a thread's, or the end.
LEMMA LookingKeeps ==
  ASSUME LookInv, Looking(fs), UNCHANGED <<fs, phase>>
  PROVE  LookInv'
<1>1. kind # NoName
  BY Zenon DEF Looking, NoName
<1>2. \/ \E t \in Threads : Pop(t) \/ Read(t, fs) \/ (Log(t) /\ UNCHANGED searchVars)
      \/ Conclude
  BY DEF Looking
<1>3. CASE Conclude
  BY <1>1, <1>3, ConcludeKeeps
<1>4. ASSUME NEW t \in Threads, Pop(t) PROVE LookInv'
  BY <1>1, <1>4, PopKeeps
<1>5. ASSUME NEW t \in Threads, Read(t, fs) PROVE LookInv'
  BY <1>1, <1>5, ReadKeeps
<1>6. ASSUME NEW t \in Threads, Flush(t), UNCHANGED searchVars PROVE LookInv'
  BY <1>1, <1>6, FlushKeeps
<1>7. ASSUME NEW t \in Threads, Copy(t), UNCHANGED searchVars PROVE LookInv'
  BY <1>1, <1>7, CopyKeeps
<1> QED BY <1>2, <1>3, <1>4, <1>5, <1>6, <1>7 DEF Log

\* Every step of an execution keeps what is known of its lookup.
LEMMA NextKeeps == LookInv /\ [Next]_vars => LookInv'
<1> SUFFICES ASSUME LookInv, [Next]_vars PROVE LookInv'
  OBVIOUS
<1>1. ASSUME UNCHANGED lookVars, UNCHANGED fs \/ \E p \in Removable : Vanish(p),
             \/ UNCHANGED phase
             \/ phase \notin {"start", "done"} /\ (phase \in {"lookup", "find"} => phase' = "done")
      PROVE  LookInv'
  <2>1. BegunInv'
    BY <1>1, InvIs, BegunLater
  <2> QED BY <1>1, <2>1, RestStays, IdleKeeps
<1>2. CASE Start
  BY <1>2, StartKeeps
<1>3. CASE StartLookup
  <2>1. phase = "lookup" /\ UNCHANGED fs
    BY <1>3 DEF StartLookup, worldVars
  <2>2. kind = NoName
    BY <1>3, Zenon DEF StartLookup, NoName
  <2>3. CASE Begin("text", args.query) /\ Goto("lookup")
    BY <2>1, <2>2, <2>3, BeginKeeps DEF Goto
  <2>4. CASE Exit("abort") /\ UNCHANGED lookVars
    BY <1>1, <2>1, <2>4 DEF Exit
  <2> QED BY <1>3, <2>3, <2>4 DEF StartLookup
<1>4. CASE LookupStep
  BY <1>4, LookingKeeps DEF LookupStep, worldVars, runVars
<1>5. CASE EndLookup
  BY <1>1, <1>5 DEF EndLookup, Exit, worldVars
<1>6. CASE CheckDb \/ OpenStep \/ Opened
  BY <1>1, <1>6 DEF CheckDb, OpenStep, Opened, Exit, Goto, worldVars, runVars
<1>7. CASE Query
  <2>1. phase = "query" /\ UNCHANGED fs
    BY <1>7 DEF Query, worldVars
  <2>2. \/ UNCHANGED lookVars
        \/ Goto("find") /\ Begin("file", pkg'.path.url)
    BY <1>7 DEF Query
  <2>3. CASE UNCHANGED lookVars
    BY <1>1, <2>1, <2>3
  <2>4. CASE Goto("find") /\ Begin("file", pkg'.path.url)
    <3>1. kind = NoName
      BY <2>1, InvIs DEF BegunInv
    <3> QED BY <2>1, <2>4, <3>1, BeginKeeps DEF Goto
  <2> QED BY <2>2, <2>3, <2>4
<1>8. CASE Sync \/ Load
  BY <1>1, <1>8 DEF Sync, SyncDb, NoSync, Load, worldVars
<1>9. CASE WhoNeedsReport \/ StartTree \/ TreeStep \/ EndTree
  BY <1>1, <1>9 DEF WhoNeedsReport, StartTree, TreeStep, EndTree, worldVars, runVars
<1>10. CASE RequiredReport \/ RunLdd \/ LddReport
  BY <1>1, <1>10 DEF RequiredReport, RunLdd, LddReport, worldVars
<1>11. CASE \E p \in Removable : Vanish(p)
  BY <1>1, <1>11 DEF Vanish, runVars
<1>12. CASE \E p \in Procs \ {Me} : Others(p)
  BY <1>1, <1>12 DEF Others, worldVars, runVars
<1>13. CASE UNCHANGED vars
  BY <1>1, <1>13 DEF vars, worldVars, runVars
<1> QED BY <1>2, <1>3, <1>4, <1>5, <1>6, <1>7, <1>8, <1>9, <1>10, <1>11, <1>12, <1>13
        DEF Next, MyStep, Terminated

-----------------------------------------------------------------------------
(* The end.                                                                *)

\* What was written are the texts of the message.
LEMMA WrittenIs ==
  ASSUME NEW c \in Channels, NEW a \in Abouts, NEW texts \in Seq(Texts),
         UnitsAbout(c, a) = Units(c, a, texts)
  PROVE  Written(c, a) = texts
<1> DEFINE units == UnitsAbout(c, a)
<1>1. /\ units \in Seq(Unit) /\ Len(units) = Len(texts)
      /\ \A i \in 1..Len(texts) :
           units[i] = [channel |-> c, about |-> a, n |-> i, text |-> texts[i]]
  BY UnitsOfMessage
<1>2. Written(c, a) = [i \in DOMAIN units |-> units[i].text]
  BY DEF Written
<1> HIDE DEF units
<1>3. \A i \in 1..Len(texts) : units[i].text = texts[i]
  <2> TAKE i \in 1..Len(texts)
  <2>1. units[i] = [channel |-> c, about |-> a, n |-> i, text |-> texts[i]]
    BY <1>1
  <2> QED BY <2>1
<1>4. DOMAIN units = 1..Len(texts)
  BY <1>1
<1>5. Written(c, a) = [i \in 1..Len(texts) |-> texts[i]]
  BY <1>2, <1>3, <1>4
<1> QED BY <1>5

\* The words say that nothing was found, or they do not.
LEMMA WordsSay ==
  /\ <<"nothing found">> \in Range(WordsOf(TRUE))
  /\ <<"nothing found">> \notin Range(WordsOf(FALSE))
  /\ <<"nothing found">> \notin Range(<<>>)
<1> DEFINE said == <<"nothing found">>
<1>1. said # <<>>
  OBVIOUS
<1> HIDE DEF said
<1>2. /\ said \in Range(<<said, <<>>>>) /\ said \notin Range(<<<<>>>>) /\ said \notin Range(<<>>)
  BY <1>1 DEF Range
<1> QED BY <1>2 DEF WordsOf, said

\* A lookup of which all this is known is complete when it is over.
LEMMA OverIsComplete == LookInv => LookupComplete
<1> SUFFICES ASSUME LookInv, LookupOver
             PROVE  /\ \A i \in 1..Size :
                         \/ Written("error", Lists[i]) # <<>>
                         \/ Lists[i] \in DOMAIN fs => Written("msg", Lists[i]) = Found(fs, Lists[i])
                    /\ <<"nothing found">> \in Range(Written("info", <<>>)) <=>
                         ~Quiet /\ kind = "file" /\ UnitsOf("msg") = <<>>
  BY InvIs DEF LookupComplete, Complete
<1>1. /\ LookTypes /\ HandInv /\ (\A i \in 1..Size : ListInv(i)) /\ LastInv /\ MatchInv
  BY InvIs
<1>2. /\ lookPc["main"] = "over"
      /\ \A t \in Threads : lookPc[t] \in {"end", "over"} /\ Silent(t)
  BY DEF LookupOver, Ended
<1>3. "main" \in Threads /\ \A t \in Threads :
        item[t] = 0 /\ pos = Size + 1 /\ message[t].channel = NoName
  BY <1>1, <1>2, HandOf, ThreadsAre
<1>4. \A t \in Threads : Left(t) = <<>>
  BY <1>1, <1>2, LeftIs
<1>5. \A c, a : UnitsAbout(c, a) \in Seq(Unit) /\ UnitsAbout(c, a) \o <<>> = UnitsAbout(c, a)
  <2>1. ASSUME NEW c, NEW a PROVE UnitsAbout(c, a) \in Seq(Unit)
    <3>1. out \in Seq(Unit)
      BY <1>1 DEF LookTypes
    <3> QED BY <3>1, UnitsAre
  <2>2. \A s \in Seq(Unit) : s \o <<>> = s
    BY ConcatEmptySeq
  <2> QED BY <2>1, <2>2
<1>6. "msg" \in Channels /\ "error" \in Channels /\ "info" \in Channels /\ <<>> \in Abouts
  BY DEF Channels, Abouts
<1>7. ASSUME NEW i \in 1..Size
      PROVE  \/ Written("error", Lists[i]) # <<>>
             \/ Lists[i] \in DOMAIN fs => Written("msg", Lists[i]) = Found(fs, Lists[i])
  <2>1. i # 0 /\ ~(i >= pos) /\ Size \in Nat
    BY <1>3, SizeAssumption
  <2>2. ~Unread(i)
    BY <1>2, <2>1 DEF Unread
  <2>3. LeftOf(i) = <<>>
    <3>1. \A t \in Threads : item[t] # i
      BY <1>3, <2>1
    <3> QED BY <1>1, <2>1, <3>1, LeftOfIs
  <2>4. Lists[i] \in Abouts
    BY DEF Abouts
  <2>5. ASSUME NEW c \in Channels, NEW u, NEW texts \in Seq(Texts), ListIs(i, c, u, texts)
        PROVE  Written(c, Lists[i]) = texts
    <3>1. UnitsAbout(c, Lists[i]) = Units(c, Lists[i], texts)
      BY <1>5, <2>3, <2>5 DEF ListIs
    <3> QED BY <2>4, <3>1, WrittenIs
  <2>6. CASE \E texts \in Seq(Texts) \ {<<>>} : ListIs(i, "error", "msg", texts)
    BY <1>6, <2>5, <2>6
  <2>7. CASE \E texts \in Seq(Texts) :
               /\ ListIs(i, "msg", "error", texts)
               /\ Lists[i] \in DOMAIN fs => texts = Found(fs, Lists[i])
    BY <1>6, <2>5, <2>7
  <2> QED BY <1>1, <2>2, <2>6, <2>7 DEF ListInv
<1>8. NothingFound <=> kind = "file" /\ UnitsOf("msg") = <<>>
  <2>1. NoName # "msg"
    BY <1>6, NoMessageIs
  <2>2. \A t \in Threads : message[t].channel # "msg"
    BY <1>3, <2>1
  <2>3. (\A t \in Threads : ~hadMatch[t]) <=> UnitsOf("msg") = <<>>
    BY <1>1, <2>2 DEF MatchInv
  <2> QED BY <2>3 DEF NothingFound
<1>9. UnitsAbout("info", <<>>) = IF Quiet THEN <<>> ELSE Units("info", <<>>, WordsOf(NothingFound))
  BY <1>1, <1>2, <1>3, <1>4, <1>5 DEF LastInv
<1>10. NothingFound \in BOOLEAN
  BY DEF NothingFound
<1> HIDE DEF NothingFound
<1>11. CASE Quiet
  <2>1. Written("info", <<>>) = <<>>
    BY <1>9, <1>11 DEF Written
  <2> QED BY <1>7, <1>11, <2>1, WordsSay
<1>12. CASE ~Quiet
  <2>1. Written("info", <<>>) = WordsOf(NothingFound)
    BY <1>6, <1>9, <1>10, <1>12, WordsAre, WrittenIs
  <2>2. <<"nothing found">> \in Range(Written("info", <<>>)) <=> NothingFound
    BY <1>10, <2>1, WordsSay
  <2> QED BY <1>7, <1>8, <1>12, <2>2
<1> QED BY <1>11, <1>12

\* When a lookup is over (fileInPackages(), lookupInPackages()), each list has been complained
\* of or its matches have been written, whatever the lists hold, however many there are, and
\* whichever of them are removed meanwhile; no piece is parted by another one.
THEOREM LookupIsComplete ==
  ASSUME NEW line, NEW nodes, NEW files, ListsHaveLines(nodes)
  PROVE  Init(line, nodes, files) /\ [][Next]_vars => []LookupComplete
<1>1. Init(line, nodes, files) => LookInv
  <2> SUFFICES ASSUME Init(line, nodes, files) PROVE LookInv
    OBVIOUS
  <2>1. LookInit /\ fs = nodes /\ phase = "start"
    BY DEF Init
  <2>2. /\ pos = 1 /\ out = <<>> /\ message = [t \in Threads |-> NoMessage]
        /\ lookPc = [t \in Threads |-> "pop"] /\ item = [t \in Threads |-> 0]
        /\ hadMatch = [t \in Threads |-> FALSE]
    BY <2>1, ThreadsAre DEF LookInit, LogInit, PeekInit
  <2>3. kind = NoName
    BY <2>1, Zenon DEF LookInit, NoName
  <2>4. NoMessage \in Message
    <3>1. <<>> \in Seq(Unit)
      OBVIOUS
    <3> QED BY <3>1, AMessage DEF NoMessage, NoName
  <2>5. Fresh
    BY <2>2, <2>3, <2>4, SizeAssumption DEF Fresh, LookTypes, PeekInit
  <2>6. BegunInv
    BY <2>1, <2>3, <2>5 DEF BegunInv, Fresh
  <2>7. ListsHaveLines(fs)
    BY <2>1
  <2> QED BY <2>5, <2>6, <2>7, FreshIs
<1>2. LookInv /\ [Next]_vars => LookInv'
  BY NextKeeps
<1>3. LookInv => LookupComplete
  BY OverIsComplete
<1> QED BY <1>1, <1>2, <1>3, PTL

-----------------------------------------------------------------------------
(* Opening the cache: a process that is about to remove a database has     *)
(* looked at one of another version, which no step of another process can  *)
(* turn into one of this version.                                          *)

Steps == {"start", "version", "remove", "reopen", "open", "failed"}

\* The tables of a file stay at the file's place, and who has got past the start has
\* a file open.
FilesOK ==
  /\ \E S : dbs \in Seq(S)
  /\ cacheFile \in 0..Len(dbs)
  /\ openPc \in [Procs -> Steps]
  /\ at \in [Procs -> Nat]
  /\ \A p \in Procs : openPc[p] # "start" => at[p] \in 1..Len(dbs)

RemoversSawOther ==
  \A p \in Procs : openPc[p] = "remove" => ~CompatibleVersion(dbs[at[p]])

OpenInvariant == FilesOK /\ RemoversSawOther

\* A new database has no version that could differ.
LEMMA NewIsCompatible == \A db : IsNewDb(db) => CompatibleVersion(db)
BY DEF IsNewDb, CompatibleVersion

\* Making a file adds tables behind the others (Cache::Cache, SQLite).
LEMMA OpenFileKeeps ==
  ASSUME NEW p \in Procs, FilesOK, OpenFile(p)
  PROVE  /\ \E S : dbs' \in Seq(S)
         /\ Len(dbs') >= Len(dbs)
         /\ \A i \in 1..Len(dbs) : dbs'[i] = dbs[i]
         /\ cacheFile' \in 0..Len(dbs')
         /\ at' \in [Procs -> Nat]
         /\ at'[p] \in 1..Len(dbs')
         /\ \A q \in Procs \ {p} : at'[q] = at[q]
<1>1. PICK S : dbs \in Seq(S)  BY DEF FilesOK
<1>2. CASE cacheFile = 0
  <2>1. dbs' = Append(dbs, NoTables) /\ cacheFile' = Len(dbs')
        /\ at' = [at EXCEPT ![p] = Len(dbs')]
    BY <1>2 DEF OpenFile
  <2>2. dbs \in Seq(S \cup {NoTables})  BY <1>1
  <2>3. /\ dbs' \in Seq(S \cup {NoTables}) /\ Len(dbs') = Len(dbs) + 1 /\ Len(dbs) \in Nat
        /\ \A i \in 1..Len(dbs) : dbs'[i] = dbs[i]
    BY <2>1, <2>2
  <2> QED  BY <2>1, <2>3 DEF FilesOK
<1>3. CASE cacheFile # 0
  <2>1. Len(dbs) \in Nat  BY <1>1
  <2> QED  BY <1>1, <1>3, <2>1 DEF OpenFile, FilesOK
<1> QED  BY <1>2, <1>3

\* Before any process has begun, none has a file open.
LEMMA InitEstablishes ==
  ASSUME NEW files, \E S : files \in Seq(S), OpenInit(files)
  PROVE  OpenInvariant
<1>1. Len(dbs) \in Nat  BY DEF OpenInit
<1> QED  BY <1>1 DEF OpenInit, OpenInvariant, FilesOK, RemoversSawOther, Steps

\* No step breaks the invariant: what another process adds leaves the tables that have
\* been looked at as they are, and it makes a schema only where there is none.
LEMMA StepPreserves == OpenInvariant /\ [OpenNext]_openVars => OpenInvariant'
<1> SUFFICES ASSUME OpenInvariant, [OpenNext]_openVars PROVE OpenInvariant'
  OBVIOUS
<1> USE DEF OpenInvariant
<1>1. ASSUME NEW p \in Procs, OpenDb(p)  PROVE OpenInvariant'
  <2>1. OpenFile(p) /\ openPc[p] = "start"
        /\ openPc' = [openPc EXCEPT ![p] = IF IsNewDb(dbs'[at'[p]]) THEN "open" ELSE "version"]
    BY <1>1 DEF OpenDb
  <2>2. FilesOK'  BY <2>1, OpenFileKeeps DEF FilesOK, Steps
  <2>3. RemoversSawOther'
    BY <2>1, OpenFileKeeps DEF FilesOK, RemoversSawOther
  <2> QED  BY <2>2, <2>3
<1>2. ASSUME NEW p \in Procs, NEW isDefault, CheckVersion(p, isDefault)  PROVE OpenInvariant'
  BY <1>2 DEF CheckVersion, FilesOK, RemoversSawOther, Steps
<1>3. ASSUME NEW p \in Procs, RemoveOld(p)  PROVE OpenInvariant'
  BY <1>3 DEF RemoveOld, FilesOK, RemoversSawOther, Steps
<1>4. ASSUME NEW p \in Procs, Reopen(p)  PROVE OpenInvariant'
  <2>1. OpenFile(p) /\ openPc[p] = "reopen" /\ openPc' = [openPc EXCEPT ![p] = "open"]
    BY <1>4 DEF Reopen
  <2>2. FilesOK'  BY <2>1, OpenFileKeeps DEF FilesOK, Steps
  <2>3. RemoversSawOther'
    BY <2>1, OpenFileKeeps DEF FilesOK, RemoversSawOther
  <2> QED  BY <2>2, <2>3
<1>5. ASSUME NEW p \in Procs, OthersSchema(p)  PROVE OpenInvariant'
  <2>1. PICK S : dbs \in Seq(S)  BY DEF FilesOK
  <2> DEFINE made == CreateSchema(dbs[at[p]])
  <2>2. dbs' = [dbs EXCEPT ![at[p]] = made] /\ UNCHANGED <<cacheFile, openPc, at>>
        /\ openPc[p] = "open" /\ IsNewDb(dbs[at[p]])
    BY <1>5 DEF OthersSchema
  <2> HIDE DEF made
  <2>3. dbs' \in Seq(S \cup {made}) /\ Len(dbs') = Len(dbs)
    <3>1. dbs \in Seq(S \cup {made})  BY <2>1
    <3>2. at[p] \in 1..Len(dbs)  BY <2>2 DEF FilesOK
    <3> QED  BY <2>2, <3>1, <3>2
  <2>4. FilesOK'  BY <2>2, <2>3 DEF FilesOK
  <2>5. ASSUME NEW q \in Procs, openPc[q] = "remove"  PROVE at[q] # at[p]
    BY <2>2, <2>5, NewIsCompatible DEF RemoversSawOther
  <2>6. RemoversSawOther'
    BY <2>1, <2>2, <2>5 DEF FilesOK, RemoversSawOther
  <2> QED  BY <2>4, <2>6
<1>6. CASE UNCHANGED openVars
  BY <1>6 DEF openVars, FilesOK, RemoversSawOther
<1> QED  BY <1>1, <1>2, <1>3, <1>4, <1>5, <1>6 DEF OpenNext, Opening

\* A process removes the file it has looked at only if that is of another version
\* (openCache()): it is RemoveOld that takes the name's file, whoever made it.
LEMMA RemovalStep ==
  ASSUME OpenInvariant, [OpenNext]_openVars, NEW p \in Procs,
         openPc[p] = "remove", openPc'[p] = "reopen"
  PROVE  ~CompatibleVersion(dbs[cacheFile]) \/ at[p] # cacheFile
BY DEF OpenInvariant, RemoversSawOther

\* For any number of processes, openCache() removes a database that is new or of this
\* version only if the name has come to stand for another file since.
THEOREM OpenRemovesOnlyIncompatible ==
  ASSUME NEW files, \E S : files \in Seq(S)
  PROVE  OpenSpec(files) => CompatibleRemovedOnlyIfOvertaken
<1>1. OpenInit(files) => OpenInvariant  BY InitEstablishes
<1>2. OpenInvariant /\ [OpenNext]_openVars => OpenInvariant'  BY StepPreserves
<1>3. OpenInvariant /\ [OpenNext]_openVars =>
        [\A p \in Procs :
           openPc[p] = "remove" /\ openPc'[p] = "reopen" =>
             ~CompatibleVersion(dbs[cacheFile]) \/ at[p] # cacheFile]_openVars
  BY RemovalStep
<1> QED  BY <1>1, <1>2, <1>3, PTL DEF OpenSpec, CompatibleRemovedOnlyIfOvertaken
=============================================================================
