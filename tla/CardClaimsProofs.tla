--------------------------- MODULE CardClaimsProofs ---------------------------
(***************************************************************************)
(* Theorems about the conversions between a card of the builder and JSON,  *)
(* for any words, names, values and metadata, and any number of rows:      *)
(* which expressions a card gives back, and that it gives back its own.    *)
(*                                                                         *)
(* From small to large: what an input field does to a scalar, a row to a   *)
(* constraint, the rows of a list to an object, the time section to a      *)
(* time, and the card to the expression.  Each is taken both ways, so that *)
(* the conditions under Plain are the exact ones.                          *)
(***************************************************************************)
EXTENDS CardClaims, TLAPS, FiniteSetTheorems, WellFoundedInduction

-------------------------------------------------------------------------------
(* Numbers and sequences *)

Less == {p \in Nat \X Nat : p[1] < p[2]}

\* A set of natural numbers that is not empty has a least element.
LEMMA Least ==
  ASSUME NEW T, T \subseteq Nat, T # {}
  PROVE  \E x \in T : \A y \in T : x <= y
<1>1. OpToRel(<, Nat) = Less
  BY Zenon DEF OpToRel, Less
<1>2. \E x \in T : \A y \in T : <<y, x>> \notin Less
  BY <1>1, NatLessThanWellFounded, WFMin
<1>3. \A x, y \in T : <<y, x>> \notin Less => x <= y
  <2> SUFFICES ASSUME NEW x \in T, NEW y \in T, y < x PROVE <<y, x>> \in Less
    OBVIOUS
  <2>1. x \in Nat /\ y \in Nat
    OBVIOUS
  <2> QED BY <2>1 DEF Less
<1> QED BY <1>2, <1>3

\* A value that is changed n times, each time by a known step.
Iterates(n, X, start, step) ==
  \E f \in [0..n -> X] : f[0] = start /\ \A i \in 1..n : f[i] = step[i][f[i - 1]]

\* There is the sequence of its values.
LEMMA Iterated ==
  ASSUME NEW n \in Nat, NEW X, NEW start \in X, NEW step \in [1..n -> [X -> X]]
  PROVE  Iterates(n, X, start, step)
<1> DEFINE Steps(m, f) == f[0] = start /\ \A i \in 1..m : f[i] = step[i][f[i - 1]]
           Wrong == {m \in 0..n : ~\E f \in [0..m -> X] : Steps(m, f)}
<1>1. 0 \notin Wrong
  <2> DEFINE f == [i \in 0..0 |-> start]
  <2>1. f \in [0..0 -> X] /\ Steps(0, f)
    OBVIOUS
  <2> QED BY <2>1
<1>2. ASSUME NEW m \in 1..n, m - 1 \notin Wrong PROVE m \notin Wrong
  <2>1. m - 1 \in 0..n
    OBVIOUS
  <2>2. PICK f \in [0..m - 1 -> X] : Steps(m - 1, f)
    BY <1>2, <2>1
  <2> DEFINE g == [i \in 0..m |-> IF i = m THEN step[m][f[m - 1]] ELSE f[i]]
  <2>3. f[m - 1] \in X /\ step[m] \in [X -> X]
    OBVIOUS
  <2>4. step[m][f[m - 1]] \in X
    BY <2>3
  <2>5. \A i \in 0..m : i # m => i \in 0..m - 1
    OBVIOUS
  <2>6. g \in [0..m -> X]
    BY <2>4, <2>5
  <2>7. g[0] = start
    <3>1. 0 \in 0..m /\ 0 # m
      OBVIOUS
    <3> QED BY <2>2, <3>1
  <2>8. ASSUME NEW i \in 1..m PROVE g[i] = step[i][g[i - 1]]
    <3>1. i \in 0..m /\ i - 1 \in 0..m /\ i - 1 # m /\ (i # m => i \in 1..m - 1)
      OBVIOUS
    <3>2. g[i - 1] = f[i - 1]
      BY <3>1
    <3>3. CASE i = m
      BY <3>1, <3>2, <3>3
    <3>4. CASE i # m
      BY <2>2, <3>1, <3>2, <3>4
    <3> QED BY <3>3, <3>4
  <2> HIDE DEF g
  <2>9. Steps(m, g)
    BY <2>7, <2>8
  <2> QED BY <2>6, <2>9
<1>3. Wrong = {}
  <2> SUFFICES ASSUME Wrong # {} PROVE FALSE
    OBVIOUS
  <2>1. Wrong \subseteq Nat /\ Wrong \subseteq 0..n
    OBVIOUS
  <2> HIDE DEF Wrong
  <2>2. PICK m \in Wrong : \A i \in Wrong : m <= i
    BY <2>1, Least
  <2>3. m \in 1..n /\ m \in Nat /\ m - 1 \in Int
    <3>1. m \in 0..n /\ m # 0
      BY <1>1, <2>1, <2>2
    <3> QED BY <3>1
  <2>4. m - 1 \notin Wrong
    BY <2>2, <2>3
  <2> DEFINE j == m - 1
  <2>5. m \in 1..n /\ j \notin Wrong
    BY <2>3, <2>4
  <2> HIDE DEF j
  <2>6. m \notin Wrong
    BY <1>2, <2>5 DEF j
  <2> QED BY <2>2, <2>6
<1>4. n \in 0..n /\ n \notin Wrong
  BY <1>3
<1> QED BY <1>4 DEF Iterates

\* Whatever the elements, a sequence is one of its elements.
LEMMA SeqIs ==
  ASSUME NEW S, NEW s \in Seq(S)
  PROVE  IsSequence(s)
<1> DEFINE T == ToSet(s)
<1>1. Len(s) \in Nat /\ s \in [1..Len(s) -> S]
  OBVIOUS
<1>2. s \in [1..Len(s) -> T]
  BY <1>1 DEF ToSet
<1> HIDE DEF T
<1>3. s \in Seq(T)
  BY <1>1, <1>2
<1> QED BY <1>3 DEF IsSequence, T

\* sorted(set): a sequence of names.
LEMMA SortedAreNames ==
  ASSUME NEW names
  PROVE  IsSequence(SortedNames(names)) /\ ToSet(SortedNames(names)) \subseteq Names
<1> DEFINE n == Len(NameOrder)
           Step(f) == [i \in 0..n |-> IF i = 0 THEN <<>>
                                      ELSE IF NameOrder[i] \in names
                                             THEN Append(f[i - 1], NameOrder[i])
                                      ELSE f[i - 1]]
           first == CHOOSE f : f = Step(f)
           step == [i \in 1..n |-> [s \in Seq(Names) |->
                      IF NameOrder[i] \in names THEN Append(s, NameOrder[i]) ELSE s]]
<1>1. n \in Nat /\ \A i \in 1..n : NameOrder[i] \in Names
  BY DiscoveryAssumption
<1>2. SortedNames(names) = first[n]
  BY DEF SortedNames
<1> HIDE DEF n
<1>3. step \in [1..n -> [Seq(Names) -> Seq(Names)]] /\ <<>> \in Seq(Names)
  BY <1>1
<1>4. \A i \in 1..n : \A s \in Seq(Names) :
        step[i][s] = IF NameOrder[i] \in names THEN Append(s, NameOrder[i]) ELSE s
  OBVIOUS
<1> HIDE DEF step
<1>5. PICK f \in [0..n -> Seq(Names)] :
        f[0] = <<>> /\ \A i \in 1..n : f[i] = step[i][f[i - 1]]
  <2> DEFINE X == Seq(Names)
             start == <<>>
  <2>1. n \in Nat /\ start \in X /\ step \in [1..n -> [X -> X]]
    BY <1>1, <1>3
  <2> HIDE DEF X, start
  <2>2. Iterates(n, X, start, step)
    BY <2>1, Iterated
  <2> QED BY <2>2 DEF X, start, Iterates
<1>6. f = Step(f)
  <2>1. ASSUME NEW i \in 0..n, i # 0
        PROVE  f[i] = IF NameOrder[i] \in names THEN Append(f[i - 1], NameOrder[i]) ELSE f[i - 1]
    <3>1. i \in 1..n /\ i - 1 \in 0..n
      BY <1>1, <2>1
    <3>2. f[i - 1] \in Seq(Names)
      BY <3>1
    <3> QED BY <1>4, <1>5, <3>1, <3>2
  <2> QED BY <1>5, <2>1
<1>7. first = Step(first)
  BY <1>6
<1> HIDE DEF first
<1>8. \A i \in 0..n : first[i] = IF i = 0 THEN <<>>
                                 ELSE IF NameOrder[i] \in names
                                        THEN Append(first[i - 1], NameOrder[i])
                                 ELSE first[i - 1]
  BY <1>7
<1> DEFINE Wrong == {i \in 0..n : first[i] \notin Seq(Names)}
<1>9. Wrong = {}
  <2> SUFFICES ASSUME Wrong # {} PROVE FALSE
    OBVIOUS
  <2>1. Wrong \subseteq Nat
    BY <1>1
  <2> HIDE DEF Wrong
  <2>2. PICK m \in Wrong : \A i \in Wrong : m <= i
    BY <2>1, Least
  <2>3. m \in 0..n /\ first[m] \notin Seq(Names)
    BY <2>2 DEF Wrong
  <2>4. m # 0
    BY <1>3, <1>8, <2>3
  <2>5. m - 1 \in 0..n /\ m \in 1..n /\ ~(m <= m - 1)
    BY <1>1, <2>3, <2>4
  <2>6. first[m - 1] \in Seq(Names)
    BY <2>2, <2>5 DEF Wrong
  <2>7. Append(first[m - 1], NameOrder[m]) \in Seq(Names)
    BY <1>1, <2>5, <2>6
  <2> QED BY <1>8, <2>3, <2>4, <2>6, <2>7
<1>10. SortedNames(names) \in Seq(Names)
  BY <1>1, <1>2, <1>9
<1>11. \A i \in DOMAIN SortedNames(names) : SortedNames(names)[i] \in Names
  BY <1>10
<1>12. IsSequence(SortedNames(names))
  BY <1>10, SeqIs
<1> QED BY <1>11, <1>12 DEF ToSet

\* What FlattenSeq computes: of the first i sequences, the first i - 1 and the next.
Flattens(flat, seqs, n, S) ==
  /\ FlattenSeq(seqs) = flat[n]
  /\ \A i \in 1..n : flat[i] \in Seq(S)
  /\ \A i \in 1..n : flat[i] = IF i = 1 THEN seqs[i] ELSE flat[i - 1] \o seqs[i]

\* There are such sequences.
LEMMA Flattening ==
  ASSUME NEW seqs, NEW n \in Nat, n # 0, DOMAIN seqs = 1..n, Len(seqs) = n, NEW S,
         \A i \in 1..n : seqs[i] \in Seq(S)
  PROVE  \E flat : Flattens(flat, seqs, n, S)
<1> DEFINE Step(f) == [i \in 1..n |-> IF i = 1 THEN seqs[i] ELSE f[i - 1] \o seqs[i]]
           flat == CHOOSE f : f = Step(f)
           step == [i \in 1..n |-> [s \in Seq(S) |-> IF i = 1 THEN seqs[i] ELSE s \o seqs[i]]]
<1>1. FlattenSeq(seqs) = flat[n]
  BY DEF FlattenSeq
<1>2. step \in [1..n -> [Seq(S) -> Seq(S)]] /\ <<>> \in Seq(S)
  OBVIOUS
<1>3. \A i \in 1..n : \A s \in Seq(S) :
        step[i][s] = IF i = 1 THEN seqs[i] ELSE s \o seqs[i]
  OBVIOUS
<1> HIDE DEF step
<1>4. PICK f \in [0..n -> Seq(S)] :
        f[0] = <<>> /\ \A i \in 1..n : f[i] = step[i][f[i - 1]]
  <2> DEFINE X == Seq(S)
             start == <<>>
  <2>1. n \in Nat /\ start \in X /\ step \in [1..n -> [X -> X]]
    BY <1>2
  <2> HIDE DEF X, start
  <2>2. Iterates(n, X, start, step)
    BY <2>1, Iterated
  <2> QED BY <2>2 DEF X, start, Iterates
<1> DEFINE g == [i \in 1..n |-> f[i]]
<1>5. g = Step(g)
  <2>1. ASSUME NEW i \in 1..n
        PROVE  g[i] = IF i = 1 THEN seqs[i] ELSE g[i - 1] \o seqs[i]
    <3>1. i - 1 \in 0..n /\ f[i - 1] \in Seq(S) /\ (i # 1 => i - 1 \in 1..n)
      OBVIOUS
    <3>2. f[i] = IF i = 1 THEN seqs[i] ELSE f[i - 1] \o seqs[i]
      BY <1>3, <1>4, <3>1
    <3> QED BY <3>1, <3>2
  <2>2. g = [i \in 1..n |-> g[i]]
    OBVIOUS
  <2> HIDE DEF g
  <2> QED BY <2>1, <2>2
<1>6. flat = Step(flat)
  BY <1>5
<1> HIDE DEF flat
<1>7. \A i \in 1..n : flat[i] = IF i = 1 THEN seqs[i] ELSE flat[i - 1] \o seqs[i]
  BY <1>6
<1> DEFINE Wrong == {i \in 1..n : flat[i] \notin Seq(S)}
<1>8. Wrong = {}
  <2> SUFFICES ASSUME Wrong # {} PROVE FALSE
    OBVIOUS
  <2>1. Wrong \subseteq Nat
    OBVIOUS
  <2> HIDE DEF Wrong
  <2>2. PICK m \in Wrong : \A i \in Wrong : m <= i
    BY <2>1, Least
  <2>3. m \in 1..n /\ flat[m] \notin Seq(S)
    BY <2>2 DEF Wrong
  <2>4. m # 1
    BY <1>7, <2>3
  <2>5. m - 1 \in 1..n /\ ~(m <= m - 1)
    BY <2>3, <2>4
  <2>6. flat[m - 1] \in Seq(S)
    BY <2>2, <2>5 DEF Wrong
  <2>7. flat[m - 1] \o seqs[m] \in Seq(S)
    BY <2>3, <2>6
  <2> QED BY <1>7, <2>3, <2>4, <2>7
<1> QED BY <1>1, <1>7, <1>8 DEF Flattens

\* Sequences of words in a row are words.
LEMMA FlattenedWords ==
  ASSUME NEW seqs, NEW n \in Nat, n # 0, DOMAIN seqs = 1..n, Len(seqs) = n,
         \A i \in 1..n : IsWords(seqs[i])
  PROVE  IsWords(FlattenSeq(seqs))
<1> DEFINE S == UNION {ToSet(seqs[i]) : i \in 1..n}
<1>1. ASSUME NEW i \in 1..n PROVE seqs[i] \in Seq(S) /\ seqs[i] # <<>>
  <2>1. ToSet(seqs[i]) \subseteq S /\ seqs[i] \in Seq(ToSet(seqs[i])) /\ seqs[i] # <<>>
    BY DEF IsWords, IsSequence
  <2> HIDE DEF S
  <2> QED BY <2>1
<1> HIDE DEF S
<1>2. \E flat : Flattens(flat, seqs, n, S)
  <2>1. \A i \in 1..n : seqs[i] \in Seq(S)
    BY <1>1
  <2> QED BY <2>1, Flattening
<1>3. PICK flat :
        /\ FlattenSeq(seqs) = flat[n]
        /\ \A i \in 1..n : flat[i] \in Seq(S)
        /\ \A i \in 1..n : flat[i] = IF i = 1 THEN seqs[i] ELSE flat[i - 1] \o seqs[i]
  BY <1>2 DEF Flattens
<1>4. n \in 1..n /\ (n # 1 => n - 1 \in 1..n)
  OBVIOUS
<1>5. flat[n] \in Seq(S)
  BY <1>3, <1>4
<1>6. flat[n] # <<>>
  <2>1. CASE n = 1
    BY <1>1, <1>3, <1>4, <2>1
  <2>2. CASE n # 1
    <3> DEFINE a == flat[n - 1]
               b == seqs[n]
    <3>1. a \in Seq(S) /\ b \in Seq(S) /\ b # <<>>
      BY <1>1, <1>3, <1>4, <2>2
    <3>2. flat[n] = a \o b
      BY <1>3, <1>4, <2>2
    <3> HIDE DEF a, b
    <3>3. Len(a) \in Nat /\ Len(b) \in Nat /\ Len(b) # 0 /\ Len(a \o b) = Len(a) + Len(b)
      BY <3>1
    <3> QED BY <3>2, <3>3
  <2> QED BY <2>1, <2>2
<1>7. IsSequence(flat[n])
  BY <1>5, SeqIs
<1> QED BY <1>3, <1>6, <1>7 DEF IsWords

\* Singletons flattened are their elements.
LEMMA FlattenSingletons ==
  ASSUME NEW n \in Nat, n # 0, NEW word
  PROVE  FlattenSeq([i \in 1..n |-> <<word[i]>>]) = [i \in 1..n |-> word[i]]
<1> DEFINE seqs == [i \in 1..n |-> <<word[i]>>]
           Step(f) == [i \in 1..n |-> IF i = 1 THEN seqs[i] ELSE f[i - 1] \o seqs[i]]
           flat == CHOOSE f : f = Step(f)
           UpTo(i) == [j \in 1..i |-> word[j]]
           words == [i \in 1..n |-> UpTo(i)]
           Wrong == {i \in 1..n : flat[i] # UpTo(i)}
<1>1. FlattenSeq(seqs) = flat[n]
  <2>1. Len(seqs) = n
    OBVIOUS
  <2> QED BY <2>1 DEF FlattenSeq
<1>2. UpTo(1) = <<word[1]>>
  <2>1. 1..1 = {1} /\ Len(UpTo(1)) = 1
    OBVIOUS
  <2> QED BY <2>1
<1>3. \A i \in 2..n : UpTo(i) = UpTo(i - 1) \o <<word[i]>>
  OBVIOUS
<1>4. \A i \in 1..n : seqs[i] = <<word[i]>>
  OBVIOUS
<1> HIDE DEF UpTo, seqs
<1>5. words = Step(words)
  <2>1. \A i \in 1..n : words[i] = UpTo(i)
    OBVIOUS
  <2>2. \A i \in 2..n : i - 1 \in 1..n
    OBVIOUS
  <2> HIDE DEF words
  <2>3. ASSUME NEW i \in 1..n
        PROVE  words[i] = IF i = 1 THEN seqs[i] ELSE words[i - 1] \o seqs[i]
    <3>1. CASE i = 1
      BY <1>2, <1>4, <2>1, <3>1
    <3>2. CASE i # 1
      <4>1. i \in 2..n
        BY <3>2
      <4> QED BY <1>3, <1>4, <2>1, <2>2, <3>2, <4>1
    <3> QED BY <3>1, <3>2
  <2>4. words = [i \in 1..n |-> words[i]]
    BY DEF words
  <2> QED BY <2>3, <2>4
<1>6. \A i \in 1..n : flat[i] = IF i = 1 THEN seqs[i] ELSE flat[i - 1] \o seqs[i]
  <2>1. flat = Step(flat)
    BY <1>5
  <2> HIDE DEF flat
  <2> QED BY <2>1
<1> HIDE DEF flat
<1>7. Wrong = {}
  <2> SUFFICES ASSUME Wrong # {} PROVE FALSE
    OBVIOUS
  <2>1. Wrong \subseteq Nat
    OBVIOUS
  <2> HIDE DEF Wrong
  <2>2. PICK m \in Wrong : \A i \in Wrong : m <= i
    BY <2>1, Least
  <2>3. m \in 1..n /\ flat[m] # UpTo(m)
    BY <2>2 DEF Wrong
  <2>4. m # 1
    BY <1>2, <1>4, <1>6, <2>3
  <2>5. m - 1 \in 1..n /\ m \in 2..n /\ m - 1 \notin Wrong
    BY <2>2, <2>3, <2>4
  <2>6. flat[m - 1] = UpTo(m - 1)
    BY <2>5 DEF Wrong
  <2> QED BY <1>3, <1>4, <1>6, <2>3, <2>4, <2>5, <2>6
<1>8. flat[n] = UpTo(n)
  BY <1>7
<1> QED BY <1>1, <1>8 DEF UpTo, seqs

\* Short sequences.
LEMMA ShortSequences ==
  ASSUME NEW S
  PROVE  /\ <<>> \in Seq(S) /\ Len(<<>>) = 0
         /\ \A x \in S : <<x>> \in Seq(S) /\ Len(<<x>>) = 1
OBVIOUS

\* The words but one, and all of them only if that one is not among them.
LEMMA Without ==
  ASSUME NEW text, IsWords(text), NEW blank
  PROVE  LET words == FlattenSeq([i \in DOMAIN text |->
                        IF text[i] = blank THEN <<>> ELSE <<text[i]>>]) IN
         /\ IsSequence(words)
         /\ \A i \in DOMAIN words : words[i] # blank /\ words[i] \in ToSet(text)
         /\ Len(words) = Len(text) => blank \notin ToSet(text)
         /\ blank \notin ToSet(text) => words = text
<1> DEFINE n == Len(text)
           S == ToSet(text) \ {blank}
           seqs == [i \in DOMAIN text |-> IF text[i] = blank THEN <<>> ELSE <<text[i]>>]
           words == FlattenSeq(seqs)
<1>1. /\ n \in Nat /\ n # 0 /\ DOMAIN text = 1..n /\ text = [i \in 1..n |-> text[i]]
      /\ ToSet(text) = {text[i] : i \in 1..n}
  BY DEF IsWords, IsSequence, ToSet
<1>2. words = FlattenSeq(seqs)
  OBVIOUS
<1> HIDE DEF n, words
<1>3. \A i \in 1..n : /\ seqs[i] = IF text[i] = blank THEN <<>> ELSE <<text[i]>>
                      /\ text[i] # blank => text[i] \in S
  BY <1>1
<1>4. DOMAIN seqs = 1..n /\ Len(seqs) = n
  BY <1>1
<1> HIDE DEF S, seqs
<1>5. \A i \in 1..n : /\ seqs[i] \in Seq(S) /\ Len(seqs[i]) \in {0, 1}
                      /\ Len(seqs[i]) = 1 => text[i] # blank
  <2> TAKE i \in 1..n
  <2>1. CASE text[i] = blank
    <3>1. seqs[i] = <<>>
      BY <1>3, <2>1
    <3>2. <<>> \in Seq(S) /\ Len(<<>>) = 0
      BY ShortSequences
    <3> QED BY <3>1, <3>2
  <2>2. CASE text[i] # blank
    <3>1. seqs[i] = <<text[i]>> /\ text[i] \in S
      BY <1>3, <2>2
    <3>2. <<text[i]>> \in Seq(S) /\ Len(<<text[i]>>) = 1
      BY <3>1, ShortSequences
    <3> QED BY <2>2, <3>1, <3>2
  <2> QED BY <2>1, <2>2
<1>6. \E flat : Flattens(flat, seqs, n, S)
  <2>1. \A i \in 1..n : seqs[i] \in Seq(S)
    BY <1>5
  <2> QED BY <1>1, <1>4, <2>1, Flattening
<1>7. PICK flat :
        /\ FlattenSeq(seqs) = flat[n]
        /\ \A i \in 1..n : flat[i] \in Seq(S)
        /\ \A i \in 1..n : flat[i] = IF i = 1 THEN seqs[i] ELSE flat[i - 1] \o seqs[i]
  BY <1>6 DEF Flattens
<1> DEFINE Right(i) == /\ Len(flat[i]) <= i
                       /\ Len(flat[i]) = i => \A j \in 1..i : text[j] # blank
           Wrong == {i \in 1..n : ~Right(i)}
<1>8. ASSUME NEW i \in 1..n, i # 1 => Right(i - 1) PROVE Right(i)
  <2>1. CASE i = 1
    <3>1. flat[i] = seqs[i]
      BY <1>7, <2>1
    <3>2. \A j \in 1..i : j = i
      BY <2>1
    <3> DEFINE length == Len(flat[i])
    <3>3. length \in {0, 1} /\ (length = 1 => text[i] # blank)
      BY <1>5, <3>1
    <3>4. length <= i
      <4> HIDE DEF length
      <4>1. length = 0 \/ length = 1
        BY <3>3
      <4> QED BY <2>1, <4>1
    <3>5. Len(flat[i]) = i => \A j \in 1..i : text[j] # blank
      BY <2>1, <3>2, <3>3
    <3> QED BY <3>4, <3>5
  <2>2. CASE i # 1
    <3> DEFINE a == flat[i - 1]
               b == seqs[i]
    <3>1. i - 1 \in 1..n /\ i \in Nat
      BY <1>1, <2>2
    <3>2. a \in Seq(S) /\ b \in Seq(S) /\ Len(b) \in {0, 1} /\ (Len(b) = 1 => text[i] # blank)
      BY <1>5, <1>7, <3>1
    <3>3. Len(a) <= i - 1 /\ (Len(a) = i - 1 => \A j \in 1..i - 1 : text[j] # blank)
      BY <1>8, <2>2
    <3>4. flat[i] = a \o b
      BY <1>7, <2>2
    <3> HIDE DEF a, b
    <3>5. Len(a) \in Nat /\ Len(a \o b) = Len(a) + Len(b)
      BY <3>2
    <3>6. Len(flat[i]) <= i /\ (Len(flat[i]) = i => Len(a) = i - 1 /\ Len(b) = 1)
      <4> DEFINE before == Len(a)
                 next == Len(b)
                 after == Len(flat[i])
      <4>1. before \in Nat /\ before <= i - 1 /\ next \in {0, 1} /\ after = before + next
        BY <3>2, <3>3, <3>4, <3>5
      <4> HIDE DEF before, next, after
      <4>2. after <= i /\ (after = i => before = i - 1 /\ next = 1)
        BY <3>1, <4>1
      <4> QED BY <4>2 DEF before, next, after
    <3>7. \A j \in 1..i : j = i \/ j \in 1..i - 1
      OBVIOUS
    <3> QED BY <3>2, <3>3, <3>6, <3>7
  <2> QED BY <2>1, <2>2
<1> HIDE DEF Right
<1>9. Wrong = {}
  <2> SUFFICES ASSUME Wrong # {} PROVE FALSE
    OBVIOUS
  <2>1. Wrong \subseteq Nat
    BY <1>1
  <2>2. \A i : i \in Wrong <=> i \in 1..n /\ ~Right(i)
    OBVIOUS
  <2> HIDE DEF Wrong
  <2>3. PICK m \in Wrong : \A i \in Wrong : m <= i
    BY <2>1, Least
  <2>4. m \in 1..n /\ ~(m <= m - 1) /\ (m # 1 => m - 1 \in 1..n)
    BY <1>1, <2>2, <2>3
  <2>5. m # 1 => Right(m - 1)
    BY <2>2, <2>3, <2>4
  <2> QED BY <1>8, <2>2, <2>3, <2>4, <2>5
<1>10. words \in Seq(S) /\ (Len(words) = n => \A j \in 1..n : text[j] # blank)
  <2>1. n \in 1..n
    BY <1>1
  <2> QED BY <1>2, <1>7, <1>9, <2>1 DEF Right
<1>11. \A i \in DOMAIN words : words[i] # blank /\ words[i] \in ToSet(text)
  <2>1. DOMAIN words = 1..Len(words) /\ \A i \in 1..Len(words) : words[i] \in S
    BY <1>10
  <2> QED BY <2>1 DEF S
<1>12. Len(words) = n => blank \notin ToSet(text)
  BY <1>1, <1>10
<1>13. ASSUME blank \notin ToSet(text) PROVE words = text
  <2>1. seqs = [i \in 1..n |-> <<text[i]>>]
    BY <1>1, <1>13 DEF seqs
  <2>2. FlattenSeq([i \in 1..n |-> <<text[i]>>]) = [i \in 1..n |-> text[i]]
    BY <1>1, FlattenSingletons
  <2> QED BY <1>1, <1>2, <2>1, <2>2
<1>14. IsSequence(words)
  BY <1>10, SeqIs
<1> QED BY <1>11, <1>12, <1>13, <1>14 DEF n, words, seqs

\* split and filter: the words that are not blank.
LEMMA WordsAre ==
  ASSUME NEW text, IsWords(text)
  PROVE  LET words == Words(text) IN
         /\ IsSequence(words)
         /\ \A i \in DOMAIN words : words[i] # "" /\ words[i] \in ToSet(text)
         /\ Len(words) = Len(text) => "" \notin ToSet(text)
         /\ "" \notin ToSet(text) => words = text
BY Without DEF Words

\* A sequence has an initial segment of the numbers as its domain.
LEMMA LengthIs ==
  ASSUME NEW s, IsSequence(s)
  PROVE  \E n \in Nat : DOMAIN s = 1..n /\ IsFiniteSet(1..n)
<1>1. PICK n \in Nat : DOMAIN s = 1..n
  BY DEF IsSequence
<1>2. IsFiniteSet(1..n)
  BY FS_Interval
<1> QED BY <1>1, <1>2

\* The row of a name that is written: the last one.
LastRow(rows, n) == SelectLastInSeq(rows, LAMBDA r : r.name = n)
LastOne(rows, n, i) ==
  /\ i \in DOMAIN rows /\ rows[i].name = n
  /\ \A j \in DOMAIN rows : rows[j].name = n => j <= i

\* It is found, if there is one.
LEMMA LastIs ==
  ASSUME NEW rows, IsSequence(rows), NEW n,
         \E i \in DOMAIN rows : rows[i].name = n
  PROVE  LastOne(rows, n, LastRow(rows, n))
<1> DEFINE N == Len(rows)
           I == {i \in 1..N : rows[i].name = n}
           T == {N - i : i \in I}
<1>1. N \in Nat /\ DOMAIN rows = 1..N
  BY DEF IsSequence
<1> HIDE DEF N
<1>2. I # {}
  BY <1>1
<1>3. T \subseteq Nat /\ T # {}
  BY <1>1, <1>2
<1> HIDE DEF T
<1>4. PICK t \in T : \A u \in T : t <= u
  BY <1>3, Least
<1>5. PICK m \in I : t = N - m
  BY DEF T
<1>6. \A j \in I : N - j \in T
  BY DEF T
<1>7. \A j \in I : m >= j
  BY <1>1, <1>4, <1>5, <1>6
<1>8. Max(I) \in I /\ \A j \in I : Max(I) >= j
  <2> HIDE DEF I
  <2> QED BY <1>7 DEF Max
<1>9. LastRow(rows, n) = Max(I)
  BY <1>2 DEF LastRow, SelectLastInSeq, N
<1> HIDE DEF I
<1> QED BY <1>1, <1>8, <1>9 DEF I, LastOne

-------------------------------------------------------------------------------
(* Objects put together *)

\* A member that is given is all there is, and one that is not leaves nothing.
LEMMA MemberIs ==
  ASSUME NEW key, NEW value, NEW given \in BOOLEAN
  PROVE  LET o == Member(key, value, given) IN
         /\ IsObject(o)
         /\ DOMAIN o = IF given THEN {key} ELSE {}
         /\ given => o[key] = value
BY DEF Member, IsObject

\* Of two objects put together the first gives the members both have.
LEMMA Together ==
  ASSUME NEW a, NEW b
  PROVE  LET o == a ++ b IN
         /\ IsObject(o)
         /\ DOMAIN o = DOMAIN a \cup DOMAIN b
         /\ \A k \in DOMAIN a : o[k] = a[k]
         /\ \A k \in DOMAIN b \ DOMAIN a : o[k] = b[k]
BY DEF ++, IsObject

-------------------------------------------------------------------------------
(* Scalars *)

\* A field keeps the words of a text, and trims each of them once.
LEMMA TrimIs ==
  ASSUME NEW text, IsWords(text)
  PROVE  LET shown == Trim(text) IN
         /\ IsWords(shown) /\ DOMAIN shown = DOMAIN text /\ Len(shown) = Len(text)
         /\ Trim(shown) = shown
         /\ \A i \in DOMAIN shown : shown[i] = TrimWord(text[i])
<1> DEFINE shown == Trim(text)
           n == Len(text)
<1>1. n \in Nat /\ DOMAIN text = 1..n /\ n # 0
  BY DEF IsWords, IsSequence
<1>2. shown = [i \in 1..n |-> TrimWord(text[i])]
  BY <1>1 DEF Trim
<1> HIDE DEF shown, n
<1>3. DOMAIN shown = 1..n /\ Len(shown) = n /\ shown # <<>>
  BY <1>1, <1>2
<1>4. shown \in [1..n -> ToSet(shown)]
  BY <1>2, <1>3 DEF ToSet
<1>5. IsWords(shown)
  BY <1>1, <1>3, <1>4 DEF IsWords, IsSequence
<1>6. \A i \in 1..n : ~Own(Trimmed, shown[i])
  BY <1>2, ScalarsAssumption DEF TrimWord, Own
<1>7. Trim(shown) = shown
  BY <1>2, <1>3, <1>6 DEF Trim, TrimWord
<1> QED BY <1>1, <1>2, <1>3, <1>5, <1>7 DEF shown, n

\* A text of one word.
LEMMA OneWord ==
  ASSUME NEW word
  PROVE  /\ IsWords(<<word>>) /\ Len(<<word>>) = 1 /\ ToSet(<<word>>) = {word}
         /\ Trim(<<word>>) = <<TrimWord(word)>>
<1>1. DOMAIN <<word>> = {1} /\ <<word>>[1] = word /\ Len(<<word>>) = 1 /\ <<word>> # <<>>
  OBVIOUS
<1>2. ToSet(<<word>>) = {word}
  BY <1>1 DEF ToSet
<1>3. <<word>> \in Seq({word})
  OBVIOUS
<1>4. Trim(<<word>>) = [i \in {1} |-> TrimWord(word)]
  BY <1>1 DEF Trim
<1>5. [i \in {1} |-> TrimWord(word)] = <<TrimWord(word)>>
  OBVIOUS
<1> QED BY <1>1, <1>2, <1>3, <1>4, <1>5 DEF IsWords, IsSequence

\* An empty field.
LEMMA NothingTyped ==
  IsWords(NoText) /\ Trim(NoText) = NoText /\ Words(NoText) = <<>>
<1>1. /\ IsWords(<<"">>) /\ ToSet(<<"">>) = {""} /\ Trim(<<"">>) = <<TrimWord("")>>
  BY OneWord
<1>2. TrimWord("") = ""
  BY ScalarsAssumption DEF TrimWord, Own
<1>3. /\ IsWords(NoText) /\ ToSet(NoText) = {""} /\ Trim(NoText) = NoText
  BY <1>1, <1>2 DEF NoText
<1> DEFINE words == Words(NoText)
<1>4. IsSequence(words) /\ \A i \in DOMAIN words : words[i] # "" /\ words[i] \in {""}
  BY <1>3, WordsAre
<1> HIDE DEF words
<1>5. words = <<>>
  <2>1. DOMAIN words = {}
    BY <1>4
  <2>2. IsSequence(words)
    BY <1>4
  <2> QED BY <2>1, <2>2 DEF IsSequence
<1> QED BY <1>3, <1>5 DEF words

\* A name that is trimmed stays as it is.
LEMMA TrimmedName ==
  ASSUME NEW name
  PROVE  /\ ~Own(Trimmed, TrimWord(name))
         /\ TrimWord(name) = name <=> ~Own(Trimmed, name)
BY ScalarsAssumption DEF TrimWord, Own

\* A scalar comes back from a text field exactly if it is plain.
LEMMA ScalarReturns ==
  ASSUME NEW scalar, IsScalar(scalar)
  PROVE  Trim(scalar.text) # NoText /\ ParseScalar(Trim(scalar.text)) = scalar <=> Plain(scalar)
<1> DEFINE text == scalar.text
           shown == Trim(text)
<1>1. /\ scalar = [type |-> scalar.type, text |-> text, string |-> scalar.string]
      /\ IF scalar.type = "string" THEN scalar.string = text
         ELSE Own(Json, text) /\ Json[text] = scalar
  BY DEF IsScalar
<1>2. CASE scalar.type = "string"
  <2>1. scalar = String(text)
    BY <1>1, <1>2 DEF String
  <2>2. Own(Json, shown) => Json[shown] # scalar
    <3> SUFFICES ASSUME Own(Json, shown), Json[shown] = scalar PROVE FALSE
      OBVIOUS
    <3>1. Trim(Json[shown].text) # shown
      BY <1>2, ScalarsAssumption DEF Own
    <3> QED BY <3>1
  <2>3. String(shown).text = shown
    BY DEF String
  <2> HIDE DEF text, shown
  <2>4. ParseScalar(shown) = scalar <=> ~Own(Json, shown) /\ shown = text
    BY <2>1, <2>2, <2>3 DEF ParseScalar, text
  <2> QED BY <1>2, <2>4 DEF Plain, text, shown
<1>3. CASE scalar.type # "string"
  <2>1. Own(Json, text) /\ Json[text] = scalar
    BY <1>1, <1>3
  <2>2. shown = text /\ text # NoText
    BY <2>1, ScalarsAssumption DEF Own
  <2> QED BY <1>3, <2>1, <2>2 DEF Plain, ParseScalar
<1> QED BY <1>2, <1>3

\* What is typed into a text field is written as a scalar.
LEMMA TypedScalar ==
  ASSUME NEW text, IsWords(text)
  PROVE  LET scalar == ParseScalar(text) IN
         IsScalar(scalar) /\ (Len(text) = 1 => Len(scalar.text) = 1)
<1>1. CASE Own(Json, text)
  BY <1>1, ScalarsAssumption DEF Own, ParseScalar
<1>2. CASE ~Own(Json, text)
  <2>1. ParseScalar(text) = [type |-> "string", text |-> text, string |-> text]
    BY <1>2 DEF ParseScalar, String
  <2> QED BY <2>1 DEF IsScalar
<1> QED BY <1>1, <1>2

\* What a number field accepts is written as a scalar.
LEMMA NumbersAre ==
  /\ \A number \in Range(Numbers) : IsScalar(number)
  /\ \A text : FilledNumber(text) /\ text # NoText => Numbers[text] \in Range(Numbers)
  /\ \A number \in Ages : number \in Range(Numbers)
<1>1. \A text \in DOMAIN Numbers : IsScalar(Numbers[text])
  BY ScalarsAssumption
<1>2. Range(Numbers) = {Numbers[text] : text \in DOMAIN Numbers}
  BY DEF Range
<1>3. Ages \subseteq Range(Numbers)
  BY ScalarsAssumption
<1>4. \A text : FilledNumber(text) /\ text # NoText => text \in DOMAIN Numbers
  BY DEF FilledNumber, Own
<1> QED BY <1>1, <1>2, <1>3, <1>4

\* A value comes back from a number field exactly if it is a number.
LEMMA NumberReturns ==
  ASSUME NEW object, NEW key
  PROVE  LET shown == NumberField(object, key) IN
         /\ FilledNumber(shown)
         /\ ~Own(object, key) => shown = NoText
         /\ Own(object, key) =>
              (shown # NoText /\ Numbers[shown] = object[key]
                 <=> object[key] \in Range(Numbers))
<1> DEFINE shown == NumberField(object, key)
           value == object[key]
           numeric == Own(object, key) /\ Own(Numbers, value.string)
<1>1. shown = IF numeric THEN value.string ELSE NoText
  BY DEF NumberField
<1> HIDE DEF shown, value
<1>2. FilledNumber(shown) /\ (~Own(object, key) => shown = NoText)
  BY <1>1 DEF FilledNumber
<1>3. ASSUME shown # NoText, Numbers[shown] = value PROVE value \in Range(Numbers)
  <2>1. shown \in DOMAIN Numbers
    BY <1>1, <1>3 DEF Own
  <2> QED BY <1>3, <2>1 DEF Range
<1>4. ASSUME Own(object, key), value \in Range(Numbers)
      PROVE  shown # NoText /\ Numbers[shown] = value
  <2>1. PICK text \in DOMAIN Numbers : value = Numbers[text]
    BY <1>4 DEF Range
  <2>2. value.string = value.text /\ Own(Numbers, value.text) /\ Numbers[value.text] = value
    BY <2>1, ScalarsAssumption
  <2>3. value.text # NoText
    BY <2>2, ScalarsAssumption DEF Own
  <2> QED BY <1>1, <1>4, <2>2, <2>3
<1> QED BY <1>2, <1>3, <1>4 DEF shown, value

-------------------------------------------------------------------------------
(* Constraints *)

\* The members that the mode of a row asks for.
Asked(row) ==
  IF row.mode \in {"value", "values"} THEN {row.mode}
  ELSE IF row.mode = "range"
    THEN {key \in {"min", "max"} : row[key] # NoText}
    ELSE {}

\* What constraintValue writes.
LEMMA Constrained ==
  ASSUME NEW row, row.mode # "requested", row.essential \in BOOLEAN
  PROVE  LET c == ConstraintValue(row) IN
         /\ IsObject(c)
         /\ DOMAIN c = (IF row.essential THEN {"essential"} ELSE {}) \cup Asked(row)
         /\ row.essential => c["essential"] = TRUE
         /\ row.mode = "value" => c["value"] = ParseScalar(row.value)
         /\ row.mode = "values" =>
              c["values"] = [i \in DOMAIN Words(row.value) |->
                               ParseScalar(<<Words(row.value)[i]>>)]
         /\ row.mode = "range" => /\ row.min # NoText => c["min"] = Numbers[row.min]
                                  /\ row.max # NoText => c["max"] = Numbers[row.max]
<1> DEFINE one == ParseScalar(row.value)
           many == [i \in DOMAIN Words(row.value) |-> ParseScalar(<<Words(row.value)[i]>>)]
           low == Numbers[row.min]
           high == Numbers[row.max]
           v0 == Member("value", one, row.mode = "value")
           v1 == Member("values", many, row.mode = "values")
           v2 == Member("min", low, row.mode = "range" /\ row.min # NoText)
           v3 == Member("max", high, row.mode = "range" /\ row.max # NoText)
           e == Member("essential", TRUE, row.essential)
           all == ((v0 ++ v1) ++ v2) ++ v3
<1>1. ConstraintValue(row) = e ++ all
  BY DEF ConstraintValue, ValueMembers
<1>2. /\ DOMAIN v0 = IF row.mode = "value" THEN {"value"} ELSE {}
      /\ row.mode = "value" => v0["value"] = one
  BY MemberIs
<1>3. /\ DOMAIN v1 = IF row.mode = "values" THEN {"values"} ELSE {}
      /\ row.mode = "values" => v1["values"] = many
  BY MemberIs
<1>4. /\ DOMAIN v2 = IF row.mode = "range" /\ row.min # NoText THEN {"min"} ELSE {}
      /\ row.mode = "range" /\ row.min # NoText => v2["min"] = low
  BY MemberIs
<1>5. /\ DOMAIN v3 = IF row.mode = "range" /\ row.max # NoText THEN {"max"} ELSE {}
      /\ row.mode = "range" /\ row.max # NoText => v3["max"] = high
  BY MemberIs
<1>6. /\ DOMAIN e = IF row.essential THEN {"essential"} ELSE {}
      /\ row.essential => e["essential"] = TRUE
  BY MemberIs
<1> HIDE DEF one, many, low, high, v0, v1, v2, v3, e
<1>7. /\ DOMAIN all = Asked(row)
      /\ row.mode = "value" => all["value"] = one
      /\ row.mode = "values" => all["values"] = many
      /\ row.mode = "range" => /\ row.min # NoText => all["min"] = low
                               /\ row.max # NoText => all["max"] = high
  <2>0. \A a, b : /\ DOMAIN (a ++ b) = DOMAIN a \cup DOMAIN b
                  /\ \A k \in DOMAIN a : (a ++ b)[k] = a[k]
                  /\ \A k \in DOMAIN b \ DOMAIN a : (a ++ b)[k] = b[k]
    BY Together
  <2> DEFINE w == v0 ++ v1
             x == w ++ v2
  <2>1. /\ DOMAIN w = IF row.mode \in {"value", "values"} THEN {row.mode} ELSE {}
        /\ row.mode = "value" => w["value"] = one
        /\ row.mode = "values" => w["values"] = many
    <3>1. DOMAIN w = DOMAIN v0 \cup DOMAIN v1
      BY <2>0
    <3>2. row.mode = "value" => w["value"] = one
      BY <1>2, <2>0
    <3>3. row.mode = "values" => w["values"] = many
      BY <1>2, <1>3, <2>0
    <3> HIDE DEF w
    <3> QED BY <1>2, <1>3, <3>1, <3>2, <3>3
  <2>2. all = x ++ v3
    OBVIOUS
  <2> HIDE DEF w
  <2>3. /\ DOMAIN x = DOMAIN w \cup DOMAIN v2
        /\ row.mode = "value" => x["value"] = one
        /\ row.mode = "values" => x["values"] = many
        /\ row.mode = "range" /\ row.min # NoText => x["min"] = low
    <3>1. DOMAIN x = DOMAIN w \cup DOMAIN v2
      BY <2>0
    <3>2. row.mode = "value" => x["value"] = one
      BY <2>0, <2>1
    <3>3. row.mode = "values" => x["values"] = many
      BY <2>0, <2>1
    <3>4. row.mode = "range" /\ row.min # NoText => x["min"] = low
      BY <1>4, <2>0, <2>1
    <3> QED BY <3>1, <3>2, <3>3, <3>4
  <2> HIDE DEF x
  <2>4. /\ DOMAIN (x ++ v3) = DOMAIN x \cup DOMAIN v3
        /\ \A k \in DOMAIN x : (x ++ v3)[k] = x[k]
        /\ \A k \in DOMAIN v3 \ DOMAIN x : (x ++ v3)[k] = v3[k]
    BY Together
  <2>5. DOMAIN x \cup DOMAIN v3 = Asked(row)
    BY <1>4, <1>5, <2>1, <2>3 DEF Asked
  <2>6. /\ row.mode = "value" => "value" \in DOMAIN x
        /\ row.mode = "values" => "values" \in DOMAIN x
        /\ row.mode = "range" => /\ row.min # NoText => "min" \in DOMAIN x
                                 /\ row.max # NoText => "max" \in DOMAIN v3 \ DOMAIN x
    BY <1>4, <1>5, <2>1, <2>3
  <2> HIDE DEF all
  <2> QED BY <1>5, <2>2, <2>3, <2>4, <2>5, <2>6
<1> HIDE DEF all
<1>8. /\ IsObject(e ++ all)
      /\ DOMAIN (e ++ all) = DOMAIN e \cup DOMAIN all
      /\ \A k \in DOMAIN e : (e ++ all)[k] = e[k]
      /\ \A k \in DOMAIN all \ DOMAIN e : (e ++ all)[k] = all[k]
  BY Together
<1>9. /\ row.mode = "value" => "value" \in DOMAIN all \ DOMAIN e
      /\ row.mode = "values" => "values" \in DOMAIN all \ DOMAIN e
      /\ row.mode = "range" => /\ row.min # NoText => "min" \in DOMAIN all \ DOMAIN e
                               /\ row.max # NoText => "max" \in DOMAIN all \ DOMAIN e
  BY <1>6, <1>7 DEF Asked
<1> QED BY <1>1, <1>6, <1>7, <1>8, <1>9 DEF one, many, low, high

\* The fields of the row for a constraint.
Shows(row, name, c) ==
  /\ row.name = TrimWord(name) /\ row.essential = IsTrue(c, "essential")
  /\ Own(c, "value") => row.mode = "value" /\ row.value = Trim(c.value.text)
  /\ ~Own(c, "value") /\ Own(c, "values") =>
       row.mode = "values" /\ row.value = Trim(Join(c.values))
  /\ ~Own(c, "value") /\ ~Own(c, "values") =>
       IF Own(c, "min") \/ Own(c, "max")
         THEN /\ row.mode = "range"
              /\ row.min = NumberField(c, "min") /\ row.max = NumberField(c, "max")
         ELSE row.mode = "presence"

\* propertyModel makes such a row.
LEMMA Modelled ==
  ASSUME NEW name, NEW c, c # null
  PROVE  Shows(PropertyModel(name, c), name, c)
<1> DEFINE essential == IsTrue(c, "essential")
           called == TrimWord(name)
           one == Trim(c.value.text)
           many == Trim(Join(c.values))
           none == Trim(NoText)
           low == NumberField(c, "min")
           high == NumberField(c, "max")
           row == PropertyModel(name, c)
<1>1. Own(c, "value") => row = Row(called, "value", one, NoText, NoText, essential)
  BY DEF PropertyModel
<1>2. ~Own(c, "value") /\ Own(c, "values") =>
        row = Row(called, "values", many, NoText, NoText, essential)
  BY DEF PropertyModel
<1>3. ~Own(c, "value") /\ ~Own(c, "values") /\ (Own(c, "min") \/ Own(c, "max")) =>
        row = Row(called, "range", none, low, high, essential)
  BY DEF PropertyModel
<1>4. ~Own(c, "value") /\ ~Own(c, "values") /\ ~(Own(c, "min") \/ Own(c, "max")) =>
        row = Row(called, "presence", none, NoText, NoText, essential)
  BY DEF PropertyModel
<1> HIDE DEF essential, called, one, many, none, low, high, row
<1>5. \A mode, value, min, max, x : LET r == Row(called, mode, value, min, max, x) IN
        /\ r.name = called /\ r.mode = mode /\ r.value = value
        /\ r.min = min /\ r.max = max /\ r.essential = x
  BY DEF Row
<1>6. CASE Own(c, "value")
  BY <1>1, <1>5, <1>6 DEF Shows, essential, called, one, row
<1>7. CASE ~Own(c, "value") /\ Own(c, "values")
  BY <1>2, <1>5, <1>7 DEF Shows, essential, called, many, row
<1>8. CASE ~Own(c, "value") /\ ~Own(c, "values") /\ (Own(c, "min") \/ Own(c, "max"))
  BY <1>3, <1>5, <1>8 DEF Shows, essential, called, low, high, row
<1>9. CASE ~Own(c, "value") /\ ~Own(c, "values") /\ ~(Own(c, "min") \/ Own(c, "max"))
  BY <1>4, <1>5, <1>9 DEF Shows, essential, called, row
<1> QED BY <1>6, <1>7, <1>8, <1>9

\* What a row says without its number and its suggestions.
SameFields(a, b) ==
  /\ a.name = b.name /\ a.mode = b.mode /\ a.value = b.value
  /\ a.min = b.min /\ a.max = b.max /\ a.essential = b.essential

\* constraintValue looks at nothing else.
LEMMA SameConstraint ==
  ASSUME NEW a, NEW b, SameFields(a, b)
  PROVE  ConstraintOK(a) = ConstraintOK(b) /\ ConstraintValue(a) = ConstraintValue(b)
<1>1. ConstraintOK(a) = ConstraintOK(b)
  BY DEF SameFields, ConstraintOK
<1>2. ValueMembers(a) = ValueMembers(b)
  BY DEF SameFields, ValueMembers
<1> QED BY <1>1, <1>2 DEF SameFields, ConstraintValue

\* A constraint becomes a row that is written as the constraint, with no error on
\* the way.
Returns(name, c) ==
  LET row == PropertyModel(name, c) IN
  PropertyOK(c) /\ ConstraintOK(row) /\ ConstraintValue(row) = c

\* The members a constraint should have: the bounds, the value or the values that
\* its row asks for, and essential if it is true.
LEMMA RowReturns ==
  ASSUME NEW name, NEW c, IsConstraint(c), c \notin {null, Other}
  PROVE  LET row == PropertyModel(name, c) IN
         /\ IsObject(c)
         /\ row.mode # "requested" /\ row.essential \in BOOLEAN
         /\ ConstraintValue(row) = c <=>
              /\ DOMAIN c \ {"essential"} = Asked(row)
              /\ Written(c, "essential")
              /\ \A key \in Asked(row) : ConstraintValue(row)[key] = c[key]
<1> DEFINE row == PropertyModel(name, c)
           v == ConstraintValue(row)
           E == IF row.essential THEN {"essential"} ELSE {}
<1>1. IsObject(c) /\ (Own(c, "essential") => c.essential \in BOOLEAN)
  BY DEF IsConstraint
<1>2. Shows(row, name, c)
  BY Modelled
<1> HIDE DEF row
<1>3. row.essential = IsTrue(c, "essential") /\ row.mode # "requested"
  <2>1. row.mode \in {"value", "values", "range", "presence"}
    BY <1>2 DEF Shows
  <2> QED BY <1>2, <2>1 DEF Shows
<1>4. row.essential \in BOOLEAN
  BY <1>3 DEF IsTrue
<1>5. /\ IsObject(v) /\ DOMAIN v = E \cup Asked(row)
      /\ row.essential => v["essential"] = TRUE
  BY <1>3, <1>4, Constrained
<1>6. "essential" \notin Asked(row)
  BY DEF Asked
<1> HIDE DEF v
<1>7. CASE v = c
  <2>1. DOMAIN c = E \cup Asked(row)
    BY <1>5, <1>7
  <2>2. Written(c, "essential")
    BY <1>5, <1>6, <1>7, <2>1 DEF Written, Own
  <2> QED BY <1>1, <1>3, <1>4, <1>6, <1>7, <2>1, <2>2 DEF v, row
<1>8. ASSUME DOMAIN c \ {"essential"} = Asked(row), Written(c, "essential"),
             \A key \in Asked(row) : v[key] = c[key]
      PROVE  v = c
  <2>1. E = IF Own(c, "essential") THEN {"essential"} ELSE {}
    BY <1>1, <1>3, <1>8 DEF IsTrue, Written
  <2>2. DOMAIN c = DOMAIN v
    BY <1>5, <1>8, <2>1 DEF Own
  <2>3. \A key \in DOMAIN c : v[key] = c[key]
    BY <1>5, <1>8, <2>1, <2>2 DEF Written, Own
  <2> QED BY <1>1, <1>5, <2>2, <2>3 DEF IsObject
<1> QED BY <1>1, <1>3, <1>4, <1>7, <1>8 DEF v, row

\* With a value: its text comes back as the value.
LEMMA ValueReturns ==
  ASSUME NEW name, NEW c, IsConstraint(c), c \notin {null, Other}, Own(c, "value")
  PROVE  Returns(name, c) <=> PlainConstraint(c)
<1> DEFINE row == PropertyModel(name, c)
           v == ConstraintValue(row)
<1>1. row.mode = "value" /\ row.value = Trim(c.value.text)
  <2>1. Shows(row, name, c)
    BY Modelled
  <2> HIDE DEF row
  <2> QED BY <2>1 DEF Shows
<1>2. /\ IsObject(c)
      /\ row.mode # "requested" /\ row.essential \in BOOLEAN
      /\ v = c <=> /\ DOMAIN c \ {"essential"} = Asked(row)
                   /\ Written(c, "essential")
                   /\ \A key \in Asked(row) : v[key] = c[key]
  BY RowReturns
<1>3. Returns(name, c) <=> PropertyOK(c) /\ ConstraintOK(row) /\ v = c
  BY DEF Returns
<1> HIDE DEF row
<1>4. Asked(row) = {"value"}
  BY <1>1 DEF Asked
<1>5. v["value"] = ParseScalar(row.value)
  BY <1>1, <1>2, Constrained
<1> HIDE DEF v
<1>6. PropertyOK(c) /\ (ConstraintOK(row) <=> row.value # NoText)
  BY <1>1 DEF PropertyOK, ConstraintOK
<1>7. IsScalar(c.value)
  BY DEF IsConstraint
<1>8. row.value # NoText /\ v["value"] = c.value <=> Plain(c.value)
  BY <1>1, <1>5, <1>7, ScalarReturns
<1>9. PlainConstraint(c) <=>
        /\ Written(c, "essential") /\ Plain(c.value)
        /\ DOMAIN c \ {"essential"} = {"value"}
  <2>1. ~Only(c, {"essential", "min", "max"}) /\ ~Only(c, {"essential", "values"})
    BY DEF Only, Own
  <2>2. Only(c, {"essential", "value"}) <=> DOMAIN c \ {"essential"} = {"value"}
    BY DEF Only, Own
  <2> QED BY <2>1, <2>2 DEF PlainConstraint
<1> QED BY <1>2, <1>3, <1>4, <1>6, <1>8, <1>9

\* With values: the words between the commas come back as the values.
LEMMA ValuesReturn ==
  ASSUME NEW name, NEW c, IsConstraint(c), c \notin {null, Other},
         ~Own(c, "value"), Own(c, "values")
  PROVE  Returns(name, c) <=> PlainConstraint(c)
<1> DEFINE row == PropertyModel(name, c)
           v == ConstraintValue(row)
           values == c.values
           words == Words(row.value)
           Single(i) == Plain(values[i]) /\ Len(values[i].text) = 1
           back == [i \in DOMAIN words |-> ParseScalar(<<words[i]>>)]
<1>1. row.mode = "values" /\ row.value = Trim(Join(values))
  <2>1. Shows(row, name, c)
    BY Modelled
  <2> HIDE DEF row
  <2> QED BY <2>1 DEF Shows
<1>2. /\ IsObject(c)
      /\ row.mode # "requested" /\ row.essential \in BOOLEAN
      /\ v = c <=> /\ DOMAIN c \ {"essential"} = Asked(row)
                   /\ Written(c, "essential")
                   /\ \A key \in Asked(row) : v[key] = c[key]
  BY RowReturns
<1>3. Returns(name, c) <=> PropertyOK(c) /\ ConstraintOK(row) /\ v = c
  BY DEF Returns
<1> HIDE DEF row
<1>4. Asked(row) = {"values"}
  BY <1>1 DEF Asked
<1>5. v["values"] = back
  BY <1>1, <1>2, Constrained
<1> HIDE DEF v
<1>6. /\ PropertyOK(c) <=> values # Other
      /\ ConstraintOK(row) <=> words # <<>>
  BY <1>1 DEF PropertyOK, ConstraintOK
<1>7. PlainConstraint(c) <=>
        /\ Written(c, "essential") /\ DOMAIN c \ {"essential"} = {"values"}
        /\ values # Other /\ values # <<>> /\ \A i \in DOMAIN values : Single(i)
  <2>1. ~Only(c, {"essential", "min", "max"}) /\ ~Only(c, {"essential", "value"})
    BY DEF Only, Own
  <2>2. Only(c, {"essential", "values"}) <=> DOMAIN c \ {"essential"} = {"values"}
    BY DEF Only, Own
  <2> QED BY <2>1, <2>2 DEF PlainConstraint
<1>8. ASSUME values # Other
      PROVE  words # <<>> /\ back = values <=>
               values # <<>> /\ \A i \in DOMAIN values : Single(i)
  <2> DEFINE n == Len(values)
             word == [i \in DOMAIN values |-> values[i].text[1]]
             joined == Join(values)
  <2>1. /\ IsSequence(values)
        /\ \A i \in DOMAIN values : IsScalar(values[i])
    BY <1>8 DEF IsConstraint
  <2> HIDE DEF values
  <2>2. n \in Nat /\ DOMAIN values = 1..n /\ (values # <<>> => n # 0)
        /\ values = [i \in 1..n |-> values[i]]
    BY <2>1 DEF IsSequence
  <2>3. \A i \in DOMAIN values : /\ IsWords(values[i].text)
                                 /\ Plain(values[i]) <=>
                                      /\ Trim(values[i].text) # NoText
                                      /\ ParseScalar(Trim(values[i].text)) = values[i]
    BY <2>1, ScalarReturns DEF IsScalar
  <2>4. \A i \in DOMAIN values :
          Len(values[i].text) = 1 => values[i].text = <<word[i]>>
    BY <2>3 DEF IsWords, IsSequence
  <2> HIDE DEF n, word, joined
  <2>5. ASSUME values # <<>>, \A i \in DOMAIN values : Len(values[i].text) = 1
        PROVE  LET text == [i \in 1..n |-> TrimWord(word[i])] IN
               /\ row.value = text /\ IsWords(text)
               /\ \A i \in 1..n : Trim(values[i].text) = <<text[i]>>
    <3> DEFINE texts == [i \in DOMAIN values |-> values[i].text]
               singles == [i \in 1..n |-> <<word[i]>>]
               plain == [i \in 1..n |-> word[i]]
               text == [i \in 1..n |-> TrimWord(word[i])]
    <3>1. texts = singles
      BY <2>2, <2>4, <2>5
    <3>2. joined = FlattenSeq(texts)
      BY <2>5 DEF Join, joined
    <3>3. FlattenSeq(singles) = plain
      BY <2>2, <2>5, FlattenSingletons
    <3>4. joined = plain
      BY <3>1, <3>2, <3>3
    <3>5. Trim(plain) = text
      BY DEF Trim
    <3>6. row.value = text
      BY <1>1, <3>4, <3>5 DEF joined
    <3>7. \A i \in 1..n : Trim(<<word[i]>>) = <<text[i]>>
      <4> TAKE i \in 1..n
      <4>1. text[i] = TrimWord(word[i])
        OBVIOUS
      <4> HIDE DEF text
      <4> QED BY <4>1, OneWord
    <3>8. IsWords(text)
      <4>1. DOMAIN text = 1..n /\ text \in [1..n -> ToSet(text)]
        BY DEF ToSet
      <4> HIDE DEF text
      <4>2. text \in Seq(ToSet(text)) /\ text # <<>>
        BY <2>2, <2>5, <4>1
      <4> QED BY <4>2 DEF IsWords, IsSequence
    <3>9. \A i \in 1..n : Trim(values[i].text) = <<text[i]>>
      BY <2>2, <2>4, <2>5, <3>7
    <3> QED BY <3>6, <3>8, <3>9
  <2>6. ASSUME values # <<>>, \A i \in DOMAIN values : Single(i)
        PROVE  words # <<>> /\ back = values
    <3> DEFINE text == [i \in 1..n |-> TrimWord(word[i])]
    <3>1. /\ row.value = text /\ IsWords(text)
          /\ \A i \in 1..n : Trim(values[i].text) = <<text[i]>>
      BY <2>5, <2>6
    <3>2. DOMAIN text = 1..n
      OBVIOUS
    <3> HIDE DEF text
    <3>3. \A i \in 1..n : <<text[i]>> # NoText /\ ParseScalar(<<text[i]>>) = values[i]
      BY <2>2, <2>3, <2>6, <3>1
    <3>4. "" \notin ToSet(text)
      BY <3>2, <3>3 DEF ToSet, NoText
    <3>5. words = text
      BY <3>1, <3>4, WordsAre
    <3>6. words # <<>> /\ DOMAIN words = 1..n
      BY <3>1, <3>2, <3>5 DEF IsWords
    <3>7. back = [i \in 1..n |-> values[i]]
      BY <3>3, <3>5, <3>6
    <3> QED BY <2>2, <3>6, <3>7
  <2>7. ASSUME words # <<>>, back = values
        PROVE  values # <<>> /\ \A i \in DOMAIN values : Single(i)
    <3>1. DOMAIN words = DOMAIN values
      BY <2>7
    <3>2. \A i \in DOMAIN values : values[i] = ParseScalar(<<words[i]>>)
      BY <2>7, <3>1
    <3>3. \A w : Len(ParseScalar(<<w>>).text) = 1
      <4> TAKE w
      <4>1. Len(<<w>>) = 1 /\ IsWords(<<w>>)
        BY OneWord
      <4> QED BY <4>1, TypedScalar
    <3>4. \A i \in DOMAIN values : Len(values[i].text) = 1
      BY <3>2, <3>3
    <3>5. values # <<>>
      <4> SUFFICES ASSUME values = <<>> PROVE FALSE
        OBVIOUS
      <4>1. joined = NoText
        BY DEF Join, joined
      <4>2. row.value = NoText
        BY <1>1, <4>1, NothingTyped DEF joined
      <4> QED BY <2>7, <4>2, NothingTyped
    <3> DEFINE text == [i \in 1..n |-> TrimWord(word[i])]
    <3>6. /\ row.value = text /\ IsWords(text)
          /\ \A i \in 1..n : Trim(values[i].text) = <<text[i]>>
      BY <2>5, <3>4, <3>5
    <3>7. DOMAIN text = 1..n
      OBVIOUS
    <3> HIDE DEF text
    <3>8. IsSequence(words)
      BY <3>6, WordsAre
    <3>9. Len(words) = n /\ Len(text) = n
      BY <2>2, <3>1, <3>6, <3>7, <3>8 DEF IsWords, IsSequence
    <3>10. "" \notin ToSet(text)
      BY <3>6, <3>9, WordsAre
    <3>11. words = text
      BY <3>6, <3>10, WordsAre
    <3>12. ASSUME NEW i \in DOMAIN values PROVE Plain(values[i])
      <4>1. Trim(values[i].text) = <<text[i]>> /\ ParseScalar(<<text[i]>>) = values[i]
        BY <2>2, <3>2, <3>6, <3>11
      <4>2. text[i] # ""
        BY <2>2, <3>7, <3>10 DEF ToSet
      <4>3. <<text[i]>> # NoText
        BY <4>2 DEF NoText
      <4> QED BY <2>3, <4>1, <4>3
    <3> QED BY <3>4, <3>5, <3>12
  <2> HIDE DEF back
  <2> QED BY <2>6, <2>7
<1>9. \A key \in {"values"} : v[key] = c[key] <=> back = values
  BY <1>5
<1> HIDE DEF values, back
<1> QED BY <1>2, <1>3, <1>4, <1>6, <1>7, <1>8, <1>9

\* With neither: the bounds come back if each of them is a number.
LEMMA BoundsReturn ==
  ASSUME NEW name, NEW c, IsConstraint(c), c \notin {null, Other},
         ~Own(c, "value"), ~Own(c, "values")
  PROVE  Returns(name, c) <=> PlainConstraint(c)
<1> DEFINE row == PropertyModel(name, c)
           v == ConstraintValue(row)
           Bounds == DOMAIN c \cap {"min", "max"}
           Shown(key) == NumberField(c, key)
           Given == {key \in Bounds : Shown(key) # NoText}
<1>1. Shows(row, name, c)
  BY Modelled
<1>2. /\ row.mode # "requested" /\ row.essential \in BOOLEAN
      /\ v = c <=> /\ DOMAIN c \ {"essential"} = Asked(row)
                   /\ Written(c, "essential")
                   /\ \A key \in Asked(row) : v[key] = c[key]
  BY RowReturns
<1>3. Returns(name, c) <=> PropertyOK(c) /\ ConstraintOK(row) /\ v = c
  BY DEF Returns
<1> HIDE DEF row
<1>4. /\ Bounds = {} => row.mode = "presence"
      /\ Bounds # {} => /\ row.mode = "range"
                        /\ row.min = Shown("min") /\ row.max = Shown("max")
  BY <1>1 DEF Shows, Own
<1>5. \A key \in {"min", "max"} :
        /\ key \notin Bounds => Shown(key) = NoText
        /\ key \in Bounds =>
             (Shown(key) # NoText /\ Numbers[Shown(key)] = c[key] <=> c[key] \in Range(Numbers))
  <2> TAKE key \in {"min", "max"}
  <2>1. key \in Bounds <=> Own(c, key)
    BY DEF Own
  <2> HIDE DEF Bounds, Shown
  <2> QED BY <2>1, NumberReturns DEF Shown
<1> HIDE DEF Shown
<1>6. Asked(row) = Given
  <2>1. CASE Bounds = {}
    BY <1>4, <2>1 DEF Asked
  <2>2. CASE Bounds # {}
    <3>1. Asked(row) = {key \in {"min", "max"} : row[key] # NoText}
      BY <1>4, <2>2 DEF Asked
    <3>2. \A key \in {"min", "max"} : row[key] # NoText <=> key \in Given
      BY <1>4, <1>5, <2>2
    <3> QED BY <3>1, <3>2
  <2> QED BY <2>1, <2>2
<1>7. \A key \in Given : v[key] = Numbers[Shown(key)]
  <2>1. row.mode = "range" => /\ row.min # NoText => v["min"] = Numbers[row.min]
                              /\ row.max # NoText => v["max"] = Numbers[row.max]
    BY <1>2, Constrained
  <2> HIDE DEF v
  <2> QED BY <1>4, <2>1
<1> HIDE DEF v
<1>8. PropertyOK(c)
  BY DEF PropertyOK
<1>9. DOMAIN c \ {"essential"} = Given => ConstraintOK(row)
  <2>1. CASE Bounds = {}
    BY <1>4, <2>1 DEF ConstraintOK
  <2>2. CASE Bounds # {}
    <3>1. ConstraintOK(row) <=> row.min # NoText \/ row.max # NoText
      BY <1>4, <2>2 DEF ConstraintOK
    <3>2. Given # {} => row.min # NoText \/ row.max # NoText
      BY <1>4, <2>2
    <3>3. DOMAIN c \ {"essential"} = Given => Given # {}
      BY <2>2
    <3> QED BY <3>1, <3>2, <3>3
  <2> QED BY <2>1, <2>2
<1>10. PlainConstraint(c) <=>
         /\ Written(c, "essential") /\ DOMAIN c \ {"essential"} = Given
         /\ \A key \in Given : Numbers[Shown(key)] = c[key]
  <2>1. /\ Only(c, {"essential", "value"}) => Only(c, {"essential", "min", "max"})
        /\ Only(c, {"essential", "values"}) => Only(c, {"essential", "min", "max"})
    BY DEF Only, Own
  <2>2. Only(c, {"essential", "value"}) \/ Only(c, {"essential", "values"}) => Bounds = {}
    BY DEF Only
  <2> DEFINE Good == \A key \in {"min", "max"} : Own(c, key) => c[key] \in Range(Numbers)
  <2>3. Good <=> Given = Bounds /\ \A key \in Given : Numbers[Shown(key)] = c[key]
    BY <1>5 DEF Own
  <2>4. Only(c, {"essential", "min", "max"}) <=> DOMAIN c \ {"essential"} = Bounds
    BY DEF Only
  <2>5. Bounds = {} => Good
    BY DEF Own
  <2> HIDE DEF Given, Bounds, Good
  <2>6. PlainConstraint(c) <=>
          /\ Written(c, "essential")
          /\ Only(c, {"essential", "min", "max"})
          /\ Good
    BY <2>1, <2>2, <2>5 DEF PlainConstraint, Good
  <2>7. DOMAIN c \ {"essential"} = Given => Given = Bounds
    BY DEF Given, Bounds
  <2> QED BY <2>3, <2>4, <2>6, <2>7
<1>11. v = c <=> /\ Written(c, "essential") /\ DOMAIN c \ {"essential"} = Given
                 /\ \A key \in Given : Numbers[Shown(key)] = c[key]
  <2> HIDE DEF Given
  <2> QED BY <1>2, <1>6, <1>7
<1> HIDE DEF Given
<1> QED BY <1>3, <1>8, <1>9, <1>10, <1>11

\* A constraint comes back from its row exactly when it is plain.
LEMMA ConstraintReturns ==
  ASSUME NEW name, NEW c, IsConstraint(c)
  PROVE  Returns(name, c) <=> PlainConstraint(c)
<1>1. CASE c = null
  <2>1. PropertyModel(name, c) = RequestedRow(TrimWord(name))
    BY <1>1 DEF PropertyModel
  <2>2. RequestedRow(TrimWord(name)).mode = "requested"
    BY DEF RequestedRow, Row
  <2>3. ConstraintOK(RequestedRow(TrimWord(name))) /\ ConstraintValue(RequestedRow(TrimWord(name))) = null
    BY <2>2 DEF ConstraintOK, ConstraintValue
  <2> QED BY <1>1, <2>1, <2>3 DEF Returns, PropertyOK, PlainConstraint
<1>2. CASE c = Other
  BY <1>2, ScalarsAssumption DEF Returns, PropertyOK, PlainConstraint
<1>3. CASE c \notin {null, Other}
  BY <1>3, ValueReturns, ValuesReturn, BoundsReturn
<1> QED BY <1>1, <1>2, <1>3

-------------------------------------------------------------------------------
(* Rows *)

\* The names of an object become a sequence that leaves none out.
LEMMA EntriesOf ==
  ASSUME NEW S, IsFiniteSet(S)
  PROVE  LET entries == SetToSeq(S) IN
         /\ IsSequence(entries)
         /\ \A i \in DOMAIN entries : entries[i] \in S
         /\ \A n \in S : \E i \in DOMAIN entries : entries[i] = n
<1> DEFINE n == Cardinality(S)
           entries == SetToSeq(S)
<1>1. n \in Nat /\ ExistsBijection(1..n, S)
  BY FS_CardinalityType
<1>2. IsFiniteSet(1..n) /\ Cardinality(1..n) = n
  BY <1>1, FS_Interval
<1> HIDE DEF n
<1>3. \E f \in [1..n -> S] : IsInjective(f)
  BY <1>1 DEF ExistsBijection, Bijection, Injection
<1>4. entries \in [1..n -> S] /\ IsInjective(entries)
  <2>1. entries = CHOOSE f \in [1..n -> S] : IsInjective(f)
    BY DEF SetToSeq, n
  <2> QED BY <1>3, <2>1
<1> HIDE DEF entries
<1>5. entries \in Injection(1..n, S)
  BY <1>4 DEF Injection
<1>6. entries \in Surjection(1..n, S)
  BY <1>1, <1>2, <1>5, FS_Injection DEF n
<1>7. \A s \in S : \E i \in 1..n : entries[i] = s
  BY <1>6 DEF Surjection
<1>8. IsSequence(entries)
  <2>1. entries \in [1..n -> ToSet(entries)]
    BY <1>4 DEF ToSet
  <2> QED BY <1>1, <2>1 DEF IsSequence
<1> QED BY <1>4, <1>7, <1>8 DEF entries

\* The rows of an object: for each of the names a row with its constraint, and no
\* other row.
RowsOf(rows, object, names) ==
  /\ IsSequence(rows)
  /\ \A i \in DOMAIN rows :
       /\ rows[i].name \in names
       /\ SameFields(rows[i], PropertyModel(rows[i].name, object[rows[i].name]))
  /\ \A n \in names : \E i \in DOMAIN rows : rows[i].name = n

\* propertyModel makes a row whose fields a card keeps; a name field trims.
LEMMA ModelIsRow ==
  ASSUME NEW name, NEW c
  PROVE  LET row == PropertyModel(name, c) IN IsRow(row) /\ row.name = TrimWord(name)
<1> DEFINE called == TrimWord(name)
<1>1. \A mode, value, min, max, x : LET row == Row(called, mode, value, min, max, x) IN
        IsRow(row) /\ row.name = called
  BY DEF Row, IsRow
<1> HIDE DEF called
<1>2. \/ PropertyModel(name, c) = RequestedRow(called)
      \/ \E mode, value, min, max, x :
           PropertyModel(name, c) = Row(called, mode, value, min, max, x)
  BY DEF PropertyModel, called
<1> QED BY <1>1, <1>2 DEF RequestedRow, called

\* A card numbers its rows and draws their suggestions, and keeps everything else.
LEMMA CardKeeps ==
  ASSUME NEW metadata, NEW identifier, NEW time, NEW rows,
         \A kind \in Kinds : /\ IsSequence(rows[kind])
                             /\ \A i \in DOMAIN rows[kind] : IsRow(rows[kind][i])
  PROVE  LET card == Card(metadata, identifier, time, rows) IN
         /\ card.identifier = identifier /\ card.time = time
         /\ \A kind \in Kinds :
              /\ IsSequence(card.rows[kind])
              /\ DOMAIN card.rows[kind] = DOMAIN rows[kind]
              /\ \A i \in DOMAIN rows[kind] : SameFields(card.rows[kind][i], rows[kind][i])
<1> DEFINE Numbered(kind) == NumberedRows(rows[kind])
           blank == [type |-> "factor", identifier |-> identifier, time |-> time,
                     rows |-> [kind \in Kinds |-> Numbered(kind)],
                     names |-> [kind \in Kinds |-> {}], removed |-> FALSE]
           named == RefreshNames(blank, metadata)
           drawn == [kind \in Kinds |-> [i \in DOMAIN blank.rows[kind] |->
                       RefreshRow(blank.rows[kind][i], metadata, blank.identifier, kind)]]
           card == Card(metadata, identifier, time, rows)
<1>1. card = [named EXCEPT !.rows = drawn]
  BY DEF Card, RefreshFactor
<1>2. /\ blank.identifier = identifier /\ blank.time = time
      /\ \A kind \in Kinds : blank.rows[kind] = Numbered(kind)
      /\ {"identifier", "time", "rows"} \subseteq DOMAIN blank
  OBVIOUS
<1> HIDE DEF Numbered, blank
<1>3. /\ named.identifier = identifier /\ named.time = time
      /\ {"identifier", "time", "rows"} \subseteq DOMAIN named
  BY <1>2 DEF RefreshNames
<1> HIDE DEF named, drawn
<1>4. card.identifier = identifier /\ card.time = time /\ card.rows = drawn
  BY <1>1, <1>3
<1> HIDE DEF card
<1>5. ASSUME NEW kind \in Kinds
      PROVE  /\ IsSequence(drawn[kind]) /\ DOMAIN drawn[kind] = DOMAIN rows[kind]
             /\ \A i \in DOMAIN rows[kind] : SameFields(drawn[kind][i], rows[kind][i])
  <2> DEFINE list == rows[kind]
             Numbering(i) == [list[i] EXCEPT !.id = i]
             Drawn(i) == RefreshRow(Numbering(i), metadata, identifier, kind)
  <2>1. IsSequence(list) /\ \A i \in DOMAIN list : IsRow(list[i])
    OBVIOUS
  <2>2. Numbered(kind) = [i \in DOMAIN list |-> Numbering(i)]
    BY DEF Numbered, NumberedRows
  <2> HIDE DEF list, Numbering
  <2>3. drawn[kind] = [i \in DOMAIN list |-> Drawn(i)]
    <3>1. /\ DOMAIN Numbered(kind) = DOMAIN list
          /\ \A i \in DOMAIN list : Numbered(kind)[i] = Numbering(i)
      BY <2>2
    <3>2. drawn[kind] = [i \in DOMAIN Numbered(kind) |->
                           RefreshRow(Numbered(kind)[i], metadata, identifier, kind)]
      BY <1>2 DEF drawn
    <3> QED BY <3>1, <3>2
  <2>4. ASSUME NEW i \in DOMAIN list PROVE SameFields(Drawn(i), list[i])
    <3>1. IsRow(list[i])
      BY <2>1
    <3>2. IsRow(Numbering(i)) /\ SameFields(Numbering(i), list[i])
      BY <3>1 DEF IsRow, SameFields, Numbering
    <3>3. SameFields(Drawn(i), Numbering(i))
      BY <3>2 DEF IsRow, SameFields, RefreshRow
    <3> HIDE DEF Drawn
    <3> QED BY <3>2, <3>3 DEF SameFields
  <2>5. IsSequence(drawn[kind])
    <3>1. PICK n \in Nat : DOMAIN list = 1..n
      BY <2>1 DEF IsSequence
    <3>2. drawn[kind] \in [1..n -> ToSet(drawn[kind])]
      BY <2>3, <3>1 DEF ToSet
    <3> QED BY <3>1, <3>2 DEF IsSequence
  <2> HIDE DEF Drawn
  <2> QED BY <2>3, <2>4, <2>5 DEF list
<1> QED BY <1>4, <1>5 DEF card

\* Every name of a row is written, with the constraint of a row of that name.
LEMMA MembersAre ==
  ASSUME NEW rows, IsSequence(rows)
  PROVE  LET o == RowMembers(rows) IN
         /\ IsObject(o) /\ DOMAIN o = {rows[i].name : i \in DOMAIN rows}
         /\ \A n \in DOMAIN o : \E i \in DOMAIN rows :
              rows[i].name = n /\ o[n] = ConstraintValue(rows[i])
<1> DEFINE names == {rows[i].name : i \in DOMAIN rows}
           o == RowMembers(rows)
<1>1. o = [n \in names |-> ConstraintValue(rows[LastRow(rows, n)])]
  BY DEF RowMembers, LastRow
<1>2. \A n \in names : LastRow(rows, n) \in DOMAIN rows /\ rows[LastRow(rows, n)].name = n
  <2> TAKE n \in names
  <2>1. \E i \in DOMAIN rows : rows[i].name = n
    OBVIOUS
  <2> QED BY <2>1, LastIs DEF LastOne
<1> HIDE DEF o, names
<1>3. IsObject(o) /\ DOMAIN o = names
  BY <1>1 DEF IsObject
<1>4. \A n \in names : o[n] = ConstraintValue(rows[LastRow(rows, n)])
  BY <1>1
<1> QED BY <1>2, <1>3, <1>4 DEF o, names

\* The names of an object have no blanks at their ends.
Trims(object) == \A n \in DOMAIN object : ~Own(Trimmed, n)

\* The rows made from an object with such names.
LEMMA RowsMade ==
  ASSUME NEW rows, NEW object, NEW names, IsFiniteSet(names), IsSequence(rows),
         DOMAIN rows = DOMAIN RowModels(object, names),
         \A i \in DOMAIN rows : SameFields(rows[i], RowModels(object, names)[i])
  PROVE  /\ \A i \in DOMAIN rows : ~Own(Trimmed, rows[i].name)
         /\ (\A n \in names : ~Own(Trimmed, n)) => RowsOf(rows, object, names)
<1> DEFINE entries == SetToSeq(names)
<1>1. /\ \A i \in DOMAIN entries : entries[i] \in names
      /\ \A n \in names : \E i \in DOMAIN entries : entries[i] = n
  BY EntriesOf
<1>2. RowModels(object, names) =
        [i \in DOMAIN entries |-> PropertyModel(entries[i], object[entries[i]])]
  BY DEF RowModels
<1> HIDE DEF entries
<1>3. DOMAIN rows = DOMAIN entries
  BY <1>2
<1>4. \A i \in DOMAIN rows :
        SameFields(rows[i], PropertyModel(entries[i], object[entries[i]]))
  BY <1>2, <1>3
<1>5. \A i \in DOMAIN rows : rows[i].name = TrimWord(entries[i])
  BY <1>4, ModelIsRow DEF SameFields
<1>6. \A i \in DOMAIN rows : ~Own(Trimmed, rows[i].name)
  BY <1>5, TrimmedName
<1>7. ASSUME \A n \in names : ~Own(Trimmed, n) PROVE RowsOf(rows, object, names)
  <2>1. \A i \in DOMAIN rows : rows[i].name = entries[i]
    BY <1>1, <1>3, <1>5, <1>7, TrimmedName
  <2> QED BY <1>1, <1>3, <1>4, <2>1 DEF RowsOf
<1> QED BY <1>6, <1>7

\* They are written with the names of the object, each with what its constraint
\* comes back as, and without an error if none of them is blank or in error.
LEMMA RowsWritten ==
  ASSUME NEW rows, NEW object, NEW names, RowsOf(rows, object, names)
  PROVE  LET o == RowMembers(rows) IN
         /\ IsObject(o) /\ DOMAIN o = names
         /\ \A n \in names : o[n] = ConstraintValue(PropertyModel(n, object[n]))
         /\ (\A i \in DOMAIN rows : rows[i].name # "" /\ ConstraintOK(rows[i])) <=>
              "" \notin names /\ \A n \in names : ConstraintOK(PropertyModel(n, object[n]))
<1> DEFINE o == RowMembers(rows)
           Model(n) == PropertyModel(n, object[n])
<1>1. /\ IsSequence(rows)
      /\ \A i \in DOMAIN rows : rows[i].name \in names /\ SameFields(rows[i], Model(rows[i].name))
      /\ \A n \in names : \E i \in DOMAIN rows : rows[i].name = n
  BY DEF RowsOf
<1> HIDE DEF Model
<1>2. \A i \in DOMAIN rows : /\ ConstraintOK(rows[i]) = ConstraintOK(Model(rows[i].name))
                             /\ ConstraintValue(rows[i]) = ConstraintValue(Model(rows[i].name))
  BY <1>1, SameConstraint
<1>3. /\ IsObject(o) /\ DOMAIN o = {rows[i].name : i \in DOMAIN rows}
      /\ \A n \in DOMAIN o : \E i \in DOMAIN rows :
           rows[i].name = n /\ o[n] = ConstraintValue(rows[i])
  BY <1>1, MembersAre
<1> HIDE DEF o
<1>4. DOMAIN o = names
  BY <1>1, <1>3
<1>5. \A n \in names : o[n] = ConstraintValue(Model(n))
  BY <1>2, <1>3, <1>4
<1>6. (\A i \in DOMAIN rows : rows[i].name # "" /\ ConstraintOK(rows[i])) <=>
        "" \notin names /\ \A n \in names : ConstraintOK(Model(n))
  BY <1>1, <1>2
<1> QED BY <1>3, <1>4, <1>5, <1>6 DEF o, Model

\* An object whose constraints come back, with no blank name.
LEMMA ObjectReturns ==
  ASSUME NEW rows, NEW object, NEW names, RowsOf(rows, object, names),
         \A n \in names : IsConstraint(object[n])
  PROVE  (/\ \A n \in names : PropertyOK(object[n])
          /\ \A i \in DOMAIN rows : rows[i].name # "" /\ ConstraintOK(rows[i])
          /\ \A n \in names : RowMembers(rows)[n] = object[n])
           <=> "" \notin names /\ \A n \in names : PlainConstraint(object[n])
<1> DEFINE o == RowMembers(rows)
           Model(n) == PropertyModel(n, object[n])
<1>1. \A n \in names : o[n] = ConstraintValue(Model(n))
  BY RowsWritten
<1>2. (\A i \in DOMAIN rows : rows[i].name # "" /\ ConstraintOK(rows[i])) <=>
        "" \notin names /\ \A n \in names : ConstraintOK(Model(n))
  BY RowsWritten
<1>3. \A n \in names :
        PlainConstraint(object[n]) <=>
          /\ PropertyOK(object[n]) /\ ConstraintOK(Model(n))
          /\ ConstraintValue(Model(n)) = object[n]
  BY ConstraintReturns DEF Returns
<1> HIDE DEF o, Model
<1> QED BY <1>1, <1>2, <1>3 DEF o

-------------------------------------------------------------------------------
(* The time section *)

Asks(time) == time.requested \/ time.max_age # NoText

TimeKeys(t) ==
  (IF t.essential THEN {"essential"} ELSE {})
    \cup (IF t.max_age # NoText THEN {"max_age"} ELSE {})

TimeOf(value, t) ==
  /\ TimeKeys(t) = {} => value = null
  /\ TimeKeys(t) # {} => /\ IsObject(value) /\ DOMAIN value = TimeKeys(t)
                         /\ t.essential => value["essential"] = TRUE
                         /\ t.max_age # NoText => value["max_age"] = Numbers[t.max_age]

\* A time without members is written as null, and any other with its members.
LEMMA TimeWritten ==
  ASSUME NEW t, t.essential \in BOOLEAN
  PROVE  TimeOf(TimeValue(t), t)
<1> DEFINE age == Numbers[t.max_age]
           a == Member("essential", TRUE, t.essential)
           b == Member("max_age", age, t.max_age # NoText)
           o == a ++ b
<1>1. TimeValue(t) = IF DOMAIN o = {} THEN null ELSE o
  BY DEF TimeValue, Empty
<1>2. /\ DOMAIN a = IF t.essential THEN {"essential"} ELSE {}
      /\ t.essential => a["essential"] = TRUE
  BY MemberIs
<1>3. /\ DOMAIN b = IF t.max_age # NoText THEN {"max_age"} ELSE {}
      /\ t.max_age # NoText => b["max_age"] = age
  BY MemberIs
<1> HIDE DEF age, a, b
<1>4. /\ IsObject(o)
      /\ DOMAIN o = DOMAIN a \cup DOMAIN b
      /\ \A k \in DOMAIN a : o[k] = a[k]
      /\ \A k \in DOMAIN b \ DOMAIN a : o[k] = b[k]
  BY Together
<1> HIDE DEF o
<1>5. /\ t.essential => o["essential"] = TRUE
      /\ t.max_age # NoText => o["max_age"] = age
  BY <1>2, <1>3, <1>4
<1> QED BY <1>1, <1>2, <1>3, <1>4, <1>5 DEF TimeOf, TimeKeys, age

\* The fields of the time section for an expression.
LEMMA TimeModelled ==
  ASSUME NEW e
  PROVE  LET metadata == ObjectAt(e, "amr_metadata")
             time == ObjectAt(metadata, "time")
             t == TimeModel(e)
         IN  /\ t.requested = (\/ Own(metadata, "time")
                               \/ Own(e, "amr_metadata") /\ e.amr_metadata = null)
             /\ t.essential = IsTrue(time, "essential")
             /\ t.max_age = NumberField(time, "max_age")
<1> DEFINE metadata == ObjectAt(e, "amr_metadata")
           time == ObjectAt(metadata, "time")
           asked == \/ Own(metadata, "time")
                    \/ Own(e, "amr_metadata") /\ e.amr_metadata = null
           age == NumberField(time, "max_age")
           essential == IsTrue(time, "essential")
           present == ~Empty(time)
<1>1. TimeModel(e) =
        [[requested |-> present, essential |-> essential, max_age |-> age]
           EXCEPT !.requested = asked]
  BY DEF TimeModel, PresentTime
<1> HIDE DEF asked, age, essential, present
<1>2. /\ TimeModel(e).requested = asked /\ TimeModel(e).essential = essential
      /\ TimeModel(e).max_age = age
  BY <1>1
<1> QED BY <1>2 DEF asked, age, essential

\* Nothing is written of a time that the expression does not have, and one that it
\* has comes back exactly if it is plain.
LEMMA TimeReturns ==
  ASSUME NEW e, IsFactor(e)
  PROVE  LET metadata == ObjectAt(e, "amr_metadata")
             t == TimeModel(e)
             none == Own(e, "amr_metadata") /\ e.amr_metadata = null
         IN  /\ none \/ Own(metadata, "time") <=> Asks(t)
             /\ ~Own(metadata, "time") => TimeValue(t) = null /\ t.max_age = NoText
             /\ Own(metadata, "time") =>
                  (/\ t.max_age # NoText => Numbers[t.max_age] \in Ages
                   /\ TimeValue(t) = metadata["time"])
                     <=> PlainTime(metadata["time"])
<1> DEFINE metadata == ObjectAt(e, "amr_metadata")
           time == ObjectAt(metadata, "time")
           t == TimeModel(e)
           none == Own(e, "amr_metadata") /\ e.amr_metadata = null
           keys == TimeKeys(t)
           value == TimeValue(t)
<1>1. /\ t.requested <=> Own(metadata, "time") \/ none
      /\ t.essential = IsTrue(time, "essential")
      /\ t.max_age = NumberField(time, "max_age")
  BY TimeModelled
<1> HIDE DEF t
<1>2. t.essential \in BOOLEAN
  BY <1>1 DEF IsTrue
<1>3. /\ keys = {} => value = null
      /\ keys # {} => /\ IsObject(value) /\ DOMAIN value = keys
                      /\ t.essential => value["essential"] = TRUE
                      /\ t.max_age # NoText => value["max_age"] = Numbers[t.max_age]
  <2>1. TimeOf(value, t)
    BY <1>2, TimeWritten
  <2> HIDE DEF value
  <2> QED BY <2>1 DEF TimeOf
<1>4. CASE ~Own(metadata, "time") \/ metadata["time"] = null
  <2>1. time = <<>> /\ DOMAIN time = {}
    BY <1>4 DEF ObjectAt, Own
  <2>2. ~t.essential /\ t.max_age = NoText
    BY <1>1, <2>1, NumberReturns DEF IsTrue, Own
  <2>3. value = null
    BY <1>3, <2>2 DEF TimeKeys
  <2> HIDE DEF value, metadata
  <2>4. metadata["time"] = null => PlainTime(metadata["time"])
    BY DEF PlainTime
  <2> QED BY <1>1, <1>4, <2>2, <2>3, <2>4 DEF Asks, value, metadata, t
<1>5. CASE Own(metadata, "time") /\ metadata["time"] # null
  <2>1. time = metadata["time"] /\ time # null
    BY <1>5 DEF ObjectAt
  <2>2. IsTime(time)
    <3>1. Own(e, "amr_metadata")
      BY <1>5 DEF ObjectAt, Own
    <3> HIDE DEF time
    <3>2. \A n \in DOMAIN metadata :
            IF n = "time" THEN IsTime(metadata[n]) ELSE IsConstraint(metadata[n])
      BY <3>1 DEF IsFactor
    <3> QED BY <1>5, <2>1, <3>2 DEF Own
  <2> HIDE DEF time, metadata, value
  <2>3. IsObject(time) /\ (Own(time, "essential") => time.essential \in BOOLEAN)
    BY <2>1, <2>2 DEF IsTime
  <2>4. PlainTime(time) <=>
          /\ ~Empty(time) /\ Only(time, {"essential", "max_age"})
          /\ Written(time, "essential")
          /\ Own(time, "max_age") => time["max_age"] \in Ages
    BY <2>1 DEF PlainTime
  <2> DEFINE age == t.max_age
  <2>5. /\ ~Own(time, "max_age") => age = NoText
        /\ Own(time, "max_age") =>
             (age # NoText /\ Numbers[age] = time["max_age"]
                <=> time["max_age"] \in Range(Numbers))
    BY <1>1, NumberReturns
  <2>6. /\ keys = (IF t.essential THEN {"essential"} ELSE {})
                    \cup (IF age # NoText THEN {"max_age"} ELSE {})
        /\ keys = {} => value = null
        /\ keys # {} => /\ IsObject(value) /\ DOMAIN value = keys
                        /\ t.essential => value["essential"] = TRUE
                        /\ age # NoText => value["max_age"] = Numbers[age]
    BY <1>3 DEF TimeKeys
  <2> HIDE DEF age, keys
  <2>7. ASSUME age # NoText => Numbers[age] \in Ages, value = time
        PROVE  PlainTime(time)
    <3>1. keys # {} /\ DOMAIN time = keys
      BY <2>1, <2>6, <2>7
    <3>2. Own(time, "max_age") => age # NoText
      BY <2>6, <3>1 DEF Own
    <3>3. Written(time, "essential")
      BY <2>6, <2>7, <3>1 DEF Written, Own
    <3>4. Own(time, "max_age") => time["max_age"] \in Ages
      BY <2>6, <2>7, <3>1, <3>2
    <3>5. ~Empty(time) /\ Only(time, {"essential", "max_age"})
      BY <2>6, <3>1 DEF Empty, Only
    <3> QED BY <2>4, <3>3, <3>4, <3>5
  <2>8. ASSUME PlainTime(time)
        PROVE  (age # NoText => Numbers[age] \in Ages) /\ value = time
    <3>1. t.essential <=> Own(time, "essential")
      BY <1>1, <2>4, <2>8 DEF IsTrue, Written
    <3>2. /\ age # NoText <=> Own(time, "max_age")
          /\ Own(time, "max_age") => Numbers[age] = time["max_age"] /\ time["max_age"] \in Ages
      BY <2>4, <2>5, <2>8, ScalarsAssumption
    <3>3. DOMAIN time = keys
      BY <2>4, <2>6, <2>8, <3>1, <3>2 DEF Only, Own
    <3>4. keys # {}
      BY <2>4, <2>8, <3>3 DEF Empty
    <3>5. \A k \in DOMAIN time : value[k] = time[k]
      BY <2>4, <2>6, <2>8, <3>1, <3>2, <3>3, <3>4 DEF Written, Own
    <3>6. value = time
      BY <2>3, <2>6, <3>3, <3>4, <3>5 DEF IsObject
    <3> QED BY <3>2, <3>6
  <2> QED BY <1>1, <1>5, <2>1, <2>7, <2>8 DEF Asks, value, metadata, time, t, age
<1> QED BY <1>4, <1>5

-------------------------------------------------------------------------------
(* Expressions *)

\* The objects of an expression have finitely many members, and constraints.
LEMMA ObjectsTyped ==
  ASSUME NEW e, IsFactor(e)
  PROVE  LET metadata == ObjectAt(e, "amr_metadata")
             properties == ObjectAt(e, "amr_properties")
         IN  /\ IsFiniteSet(DOMAIN metadata) /\ IsFiniteSet(DOMAIN properties)
             /\ \A n \in DOMAIN metadata \ {"time"} : IsConstraint(metadata[n])
             /\ \A n \in DOMAIN properties : IsConstraint(properties[n])
<1>1. ASSUME NEW key, Own(e, key) => IsEntries(e[key])
      PROVE  IsFiniteSet(DOMAIN ObjectAt(e, key))
  <2>1. IsFiniteSet({}) /\ DOMAIN <<>> = {}
    BY FS_EmptySet
  <2> QED BY <1>1, <2>1 DEF ObjectAt, IsEntries
<1>2. ASSUME NEW key, ~Own(e, key)
      PROVE  DOMAIN ObjectAt(e, key) = {}
  BY <1>2 DEF ObjectAt
<1>3. Own(e, "amr_metadata") =>
        /\ IsEntries(e["amr_metadata"])
        /\ \A n \in DOMAIN ObjectAt(e, "amr_metadata") \ {"time"} :
             IsConstraint(ObjectAt(e, "amr_metadata")[n])
  BY DEF IsFactor
<1>4. Own(e, "amr_properties") =>
        /\ IsEntries(e["amr_properties"])
        /\ \A n \in DOMAIN ObjectAt(e, "amr_properties") :
             IsConstraint(ObjectAt(e, "amr_properties")[n])
  BY DEF IsFactor
<1> QED BY <1>1, <1>2, <1>3, <1>4

\* The card that factorModel makes of an expression.
CardOf(card, e, m) ==
  LET metadata == ObjectAt(e, "amr_metadata")
      properties == ObjectAt(e, "amr_properties")
  IN  /\ card.identifier = IF e.amr_identifier.value = Null THEN DefaultIdentifier(m)
                           ELSE TrimWord(e.amr_identifier.value.string[1])
      /\ card.time = TimeModel(e)
      /\ \A kind \in Kinds :
           /\ IsSequence(card.rows[kind])
           /\ \A i \in DOMAIN card.rows[kind] : ~Own(Trimmed, card.rows[kind][i].name)
      /\ Trims(metadata) => RowsOf(card.rows["metadata"], metadata, DOMAIN metadata \ {"time"})
      /\ Trims(properties) => RowsOf(card.rows["properties"], properties, DOMAIN properties)

\* The rows made from an object are a list of rows.
LEMMA ModelsAreSequences ==
  ASSUME NEW object, NEW names, IsFiniteSet(names)
  PROVE  LET rows == RowModels(object, names) IN
         IsSequence(rows) /\ \A i \in DOMAIN rows : IsRow(rows[i])
<1> DEFINE entries == SetToSeq(names)
           Model(i) == PropertyModel(entries[i], object[entries[i]])
           rows == RowModels(object, names)
<1>1. IsSequence(entries)
  BY EntriesOf
<1>2. \A i : IsRow(Model(i))
  BY ModelIsRow
<1>3. rows = [i \in DOMAIN entries |-> Model(i)]
  BY DEF RowModels
<1> HIDE DEF entries, Model, rows
<1>4. PICK n \in Nat : DOMAIN entries = 1..n
  BY <1>1 DEF IsSequence
<1>5. rows \in [1..n -> ToSet(rows)]
  BY <1>3, <1>4 DEF ToSet
<1>6. IsSequence(rows)
  BY <1>4, <1>5 DEF IsSequence
<1> QED BY <1>2, <1>3, <1>6 DEF rows

\* factorModel, through addFactor, makes such a card.
LEMMA FactorModelled ==
  ASSUME NEW e, IsFactor(e), NEW m
  PROVE  CardOf(FactorModel(e, m), e, m)
<1> DEFINE metadata == ObjectAt(e, "amr_metadata")
           properties == ObjectAt(e, "amr_properties")
           named == DOMAIN metadata \ {"time"}
           rows == [kind \in Kinds |-> IF kind = "metadata"
                      THEN RowModels(metadata, named)
                      ELSE RowModels(properties, DOMAIN properties)]
           id == IF e.amr_identifier.value = Null THEN DefaultIdentifier(m)
                 ELSE TrimWord(e.amr_identifier.value.string[1])
           card == FactorModel(e, m)
<1>1. card = Card(m, id, TimeModel(e), rows)
  BY DEF FactorModel
<1>2. IsFiniteSet(named) /\ IsFiniteSet(DOMAIN properties)
  BY ObjectsTyped, FS_Subset
<1> HIDE DEF id, named, metadata, properties
<1>3. /\ rows["metadata"] = RowModels(metadata, named)
      /\ rows["properties"] = RowModels(properties, DOMAIN properties)
      /\ Kinds = {"metadata", "properties"}
  BY DEF Kinds
<1> HIDE DEF card, rows
<1>4. \A kind \in Kinds : /\ IsSequence(rows[kind])
                          /\ \A i \in DOMAIN rows[kind] : IsRow(rows[kind][i])
  BY <1>2, <1>3, ModelsAreSequences
<1>5. /\ card.identifier = id /\ card.time = TimeModel(e)
      /\ \A kind \in Kinds :
           /\ IsSequence(card.rows[kind])
           /\ DOMAIN card.rows[kind] = DOMAIN rows[kind]
           /\ \A i \in DOMAIN rows[kind] : SameFields(card.rows[kind][i], rows[kind][i])
  BY <1>1, <1>4, CardKeeps
<1>6. /\ \A i \in DOMAIN card.rows["metadata"] : ~Own(Trimmed, card.rows["metadata"][i].name)
      /\ Trims(metadata) => RowsOf(card.rows["metadata"], metadata, named)
  <2>1. Trims(metadata) => \A n \in named : ~Own(Trimmed, n)
    BY DEF Trims, named
  <2> QED BY <1>2, <1>3, <1>5, <2>1, RowsMade
<1>7. /\ \A i \in DOMAIN card.rows["properties"] :
           ~Own(Trimmed, card.rows["properties"][i].name)
      /\ Trims(properties) => RowsOf(card.rows["properties"], properties, DOMAIN properties)
  <2>1. Trims(properties) => \A n \in DOMAIN properties : ~Own(Trimmed, n)
    BY DEF Trims
  <2> QED BY <1>2, <1>3, <1>5, <2>1, RowsMade
<1> QED BY <1>3, <1>5, <1>6, <1>7 DEF CardOf, card, id, named, metadata, properties

\* What factorExpression writes: no empty object.
LEMMA ExpressionIs ==
  ASSUME NEW card
  PROVE  LET x == FactorExpression(card)
             metadata == MetadataMembers(card)
             properties == RowMembers(card.rows["properties"])
         IN  /\ IsObject(x)
             /\ DOMAIN x = {"amr_identifier"}
                  \cup (IF Empty(metadata) THEN {} ELSE {"amr_metadata"})
                  \cup (IF Empty(properties) THEN {} ELSE {"amr_properties"})
             /\ x["amr_identifier"] = [value |-> String(<<card.identifier>>)]
             /\ ~Empty(metadata) => x["amr_metadata"] = metadata
             /\ ~Empty(properties) => x["amr_properties"] = properties
<1> DEFINE metadata == MetadataMembers(card)
           properties == RowMembers(card.rows["properties"])
           id == String(<<card.identifier>>)
           a == [amr_identifier |-> [value |-> String(<<card.identifier>>)]]
           b == Member("amr_metadata", metadata, ~Empty(metadata))
           c == Member("amr_properties", properties, ~Empty(properties))
           ab == a ++ b
           x == FactorExpression(card)
<1>1. x = ab ++ c
  BY DEF FactorExpression
<1>2. DOMAIN a = {"amr_identifier"} /\ a["amr_identifier"] = [value |-> String(<<card.identifier>>)]
  OBVIOUS
<1> HIDE DEF metadata, properties
<1>3. /\ DOMAIN b = IF Empty(metadata) THEN {} ELSE {"amr_metadata"}
      /\ ~Empty(metadata) => b["amr_metadata"] = metadata
  BY MemberIs DEF Empty
<1>4. /\ DOMAIN c = IF Empty(properties) THEN {} ELSE {"amr_properties"}
      /\ ~Empty(properties) => c["amr_properties"] = properties
  BY MemberIs DEF Empty
<1> HIDE DEF a, b, c
<1>5. /\ DOMAIN ab = DOMAIN a \cup DOMAIN b
      /\ \A k \in DOMAIN a : ab[k] = a[k]
      /\ \A k \in DOMAIN b \ DOMAIN a : ab[k] = b[k]
  BY Together
<1> HIDE DEF ab, x
<1>6. /\ IsObject(x) /\ DOMAIN x = DOMAIN ab \cup DOMAIN c
      /\ \A k \in DOMAIN ab : x[k] = ab[k]
      /\ \A k \in DOMAIN c \ DOMAIN ab : x[k] = c[k]
  <2>1. /\ IsObject(ab ++ c) /\ DOMAIN (ab ++ c) = DOMAIN ab \cup DOMAIN c
        /\ \A k \in DOMAIN ab : (ab ++ c)[k] = ab[k]
        /\ \A k \in DOMAIN c \ DOMAIN ab : (ab ++ c)[k] = c[k]
    BY Together
  <2> QED BY <1>1, <2>1
<1>7. x["amr_identifier"] = [value |-> String(<<card.identifier>>)]
  BY <1>2, <1>5, <1>6
<1>8. ~Empty(metadata) => x["amr_metadata"] = metadata
  BY <1>2, <1>3, <1>5, <1>6
<1>9. ~Empty(properties) => x["amr_properties"] = properties
  BY <1>2, <1>3, <1>4, <1>5, <1>6
<1> QED BY <1>2, <1>3, <1>4, <1>5, <1>6, <1>7, <1>8, <1>9 DEF x, metadata, properties

\* The rows of a kind in a card, with no error.
RowsOK(card, kind) ==
  \A i \in DOMAIN card.rows[kind] :
    card.rows[kind][i].name # "" /\ ConstraintOK(card.rows[kind][i])

\* The member of an expression is what is written from a card, which may be nothing.
Restored(e, key, written) ==
  IF Own(e, key) THEN ~Empty(written) /\ e[key] = written ELSE Empty(written)

\* What metadataMembers writes.
LEMMA MetadataWritten ==
  ASSUME NEW card, card.time.requested \in BOOLEAN
  PROVE  LET o == MetadataMembers(card)
             rows == RowMembers(card.rows["metadata"])
         IN  /\ IsObject(o)
             /\ DOMAIN o = DOMAIN rows \cup (IF Asks(card.time) THEN {"time"} ELSE {})
             /\ \A n \in DOMAIN rows : o[n] = rows[n]
             /\ "time" \notin DOMAIN rows /\ Asks(card.time) =>
                  o["time"] = TimeValue(card.time)
<1> DEFINE rows == RowMembers(card.rows["metadata"])
           time == Member("time", TimeValue(card.time),
                          card.time.requested \/ card.time.max_age # NoText)
           o == MetadataMembers(card)
<1>1. o = rows ++ time
  BY DEF MetadataMembers
<1>2. /\ DOMAIN time = IF Asks(card.time) THEN {"time"} ELSE {}
      /\ Asks(card.time) => time["time"] = TimeValue(card.time)
  <2>1. (card.time.requested \/ card.time.max_age # NoText) \in BOOLEAN
    OBVIOUS
  <2> QED BY <2>1, MemberIs DEF Asks
<1> HIDE DEF rows, time, o
<1>3. /\ IsObject(rows ++ time) /\ DOMAIN (rows ++ time) = DOMAIN rows \cup DOMAIN time
      /\ \A k \in DOMAIN rows : (rows ++ time)[k] = rows[k]
      /\ \A k \in DOMAIN time \ DOMAIN rows : (rows ++ time)[k] = time[k]
  BY Together
<1> QED BY <1>1, <1>2, <1>3 DEF rows, o

\* The metadata of an expression comes back exactly if it is plain.
LEMMA MetadataReturns ==
  ASSUME NEW e, IsFactor(e), NEW m, NEW card, CardOf(card, e, m),
         Trims(ObjectAt(e, "amr_metadata"))
  PROVE  LET metadata == ObjectAt(e, "amr_metadata") IN
         (/\ \A n \in DOMAIN metadata \ {"time"} : PropertyOK(metadata[n])
          /\ RowsOK(card, "metadata")
          /\ card.time.max_age # NoText => Numbers[card.time.max_age] \in Ages
          /\ Restored(e, "amr_metadata", MetadataMembers(card)))
           <=> (Own(e, "amr_metadata") =>
                  /\ PlainObject(e.amr_metadata, {"time"})
                  /\ Own(e.amr_metadata, "time") => PlainTime(e.amr_metadata.time))
<1> DEFINE metadata == ObjectAt(e, "amr_metadata")
           none == Own(e, "amr_metadata") /\ e.amr_metadata = null
           named == DOMAIN metadata \ {"time"}
           rows == card.rows["metadata"]
           members == RowMembers(rows)
           o == MetadataMembers(card)
           t == card.time
<1>1. t = TimeModel(e) /\ RowsOf(rows, metadata, named)
  BY DEF CardOf
<1>2. t.requested \in BOOLEAN
  <2>1. t.requested = (Own(metadata, "time") \/ none)
    BY <1>1, TimeModelled
  <2> QED BY <2>1
<1>3. /\ none \/ Own(metadata, "time") <=> Asks(t)
      /\ ~Own(metadata, "time") => TimeValue(t) = null /\ t.max_age = NoText
      /\ Own(metadata, "time") =>
           (/\ t.max_age # NoText => Numbers[t.max_age] \in Ages
            /\ TimeValue(t) = metadata["time"])
              <=> PlainTime(metadata["time"])
  BY <1>1, TimeReturns
<1>4. \A n \in named : IsConstraint(metadata[n])
  BY ObjectsTyped
<1> HIDE DEF t
<1>5. /\ IsObject(o)
      /\ DOMAIN o = DOMAIN members \cup (IF Asks(t) THEN {"time"} ELSE {})
      /\ \A n \in DOMAIN members : o[n] = members[n]
      /\ "time" \notin DOMAIN members /\ Asks(t) => o["time"] = TimeValue(t)
  BY <1>2, MetadataWritten DEF t
<1>6. RowsOK(card, "metadata") <=>
        \A i \in DOMAIN rows : rows[i].name # "" /\ ConstraintOK(rows[i])
  BY DEF RowsOK
<1> HIDE DEF o, metadata, rows, members
<1>7. DOMAIN members = named
  BY <1>1, RowsWritten DEF members
<1>8. (/\ \A n \in named : PropertyOK(metadata[n])
       /\ \A i \in DOMAIN rows : rows[i].name # "" /\ ConstraintOK(rows[i])
       /\ \A n \in named : members[n] = metadata[n])
        <=> "" \notin named /\ \A n \in named : PlainConstraint(metadata[n])
  <2> HIDE DEF named
  <2> QED BY <1>1, <1>4, ObjectReturns DEF members
<1> DEFINE Comes == /\ \A n \in named : PropertyOK(metadata[n])
                    /\ RowsOK(card, "metadata")
                    /\ t.max_age # NoText => Numbers[t.max_age] \in Ages
                    /\ Restored(e, "amr_metadata", o)
           IsPlain == Own(e, "amr_metadata") =>
                        /\ PlainObject(e.amr_metadata, {"time"})
                        /\ Own(e.amr_metadata, "time") => PlainTime(e.amr_metadata.time)
<1>9. Comes <=> IsPlain
  <2>1. CASE ~Own(e, "amr_metadata")
    <3>1. metadata = <<>> /\ DOMAIN metadata = {}
      BY <2>1 DEF metadata, ObjectAt
    <3>2. DOMAIN o = {} /\ ~Own(metadata, "time")
      BY <1>3, <1>5, <1>7, <2>1, <3>1 DEF Own
    <3>3. Comes
      BY <1>3, <1>6, <1>8, <2>1, <3>1, <3>2 DEF Restored, Empty
    <3> QED BY <2>1, <3>3
  <2>2. CASE none
    <3>1. metadata = <<>> /\ DOMAIN metadata = {}
      BY <2>2 DEF metadata, ObjectAt
    <3>2. DOMAIN o = {"time"} /\ o["time"] = null
      BY <1>3, <1>5, <1>7, <2>2, <3>1 DEF Own
    <3>3. o = [time |-> null]
      BY <1>5, <3>2 DEF IsObject
    <3>4. o # null
      BY <3>3, ScalarsAssumption
    <3> QED BY <2>2, <3>4 DEF Restored, PlainObject
  <2>3. CASE Own(e, "amr_metadata") /\ ~none
    <3>1. metadata = e.amr_metadata /\ metadata # null
      BY <2>3 DEF metadata, ObjectAt
    <3>2. IsObject(metadata)
      BY <2>3, <3>1 DEF IsFactor, IsEntries
    <3>3. DOMAIN o = DOMAIN metadata
      BY <1>3, <1>5, <1>7, <2>3 DEF Own
    <3>4. \A n \in named : o[n] = members[n]
      BY <1>5, <1>7
    <3>5. Own(metadata, "time") => o["time"] = TimeValue(t)
      BY <1>3, <1>5, <1>7
    <3>6. o = metadata <=>
            /\ \A n \in named : members[n] = metadata[n]
            /\ Own(metadata, "time") => TimeValue(t) = metadata["time"]
      <4>1. o = metadata <=> \A n \in DOMAIN metadata : o[n] = metadata[n]
        BY <1>5, <3>2, <3>3 DEF IsObject
      <4> QED BY <3>4, <3>5, <4>1 DEF Own
    <3>7. Restored(e, "amr_metadata", o) <=> ~Empty(metadata) /\ o = metadata
      BY <2>3, <3>1, <3>3 DEF Restored, Empty
    <3>8. IsPlain <=> /\ PlainObject(metadata, {"time"})
                      /\ Own(metadata, "time") => PlainTime(metadata["time"])
      BY <2>3, <3>1
    <3>9. Trims(metadata)
      BY DEF metadata
    <3>10. PlainObject(metadata, {"time"}) <=>
             /\ ~Empty(metadata) /\ "" \notin named
             /\ \A n \in named : PlainConstraint(metadata[n])
      BY <3>1, <3>9 DEF PlainObject, Trims
    <3> HIDE DEF IsPlain, named
    <3> QED BY <1>3, <1>6, <1>8, <3>6, <3>7, <3>8, <3>10
  <2> QED BY <2>1, <2>2, <2>3
<1> QED BY <1>9 DEF metadata, o, t

\* And the properties of an expression, in the same way.
LEMMA PropertiesReturn ==
  ASSUME NEW e, IsFactor(e), NEW m, NEW card, CardOf(card, e, m),
         Trims(ObjectAt(e, "amr_properties"))
  PROVE  LET properties == ObjectAt(e, "amr_properties") IN
         (/\ \A n \in DOMAIN properties : PropertyOK(properties[n])
          /\ RowsOK(card, "properties")
          /\ Restored(e, "amr_properties", RowMembers(card.rows["properties"])))
           <=> (Own(e, "amr_properties") => PlainObject(e.amr_properties, {}))
<1> DEFINE properties == ObjectAt(e, "amr_properties")
           named == DOMAIN properties
           rows == card.rows["properties"]
           members == RowMembers(rows)
<1>1. RowsOf(rows, properties, named)
  BY DEF CardOf
<1>2. \A n \in named : IsConstraint(properties[n])
  BY ObjectsTyped
<1>3. RowsOK(card, "properties") <=>
        \A i \in DOMAIN rows : rows[i].name # "" /\ ConstraintOK(rows[i])
  BY DEF RowsOK
<1> HIDE DEF properties, rows, members
<1>4. IsObject(members) /\ DOMAIN members = named
  BY <1>1, RowsWritten DEF members
<1>5. (/\ \A n \in named : PropertyOK(properties[n])
       /\ \A i \in DOMAIN rows : rows[i].name # "" /\ ConstraintOK(rows[i])
       /\ \A n \in named : members[n] = properties[n])
        <=> "" \notin named /\ \A n \in named : PlainConstraint(properties[n])
  BY <1>1, <1>2, ObjectReturns DEF members
<1> DEFINE Comes == /\ \A n \in named : PropertyOK(properties[n])
                    /\ RowsOK(card, "properties")
                    /\ Restored(e, "amr_properties", members)
           IsPlain == Own(e, "amr_properties") => PlainObject(e.amr_properties, {})
<1>6. Comes <=> IsPlain
  <2>1. CASE ~Own(e, "amr_properties")
    <3>1. named = {}
      BY <2>1 DEF properties, ObjectAt
    <3>2. Comes
      BY <1>3, <1>4, <1>5, <2>1, <3>1 DEF Restored, Empty
    <3> QED BY <2>1, <3>2
  <2>2. CASE Own(e, "amr_properties") /\ e.amr_properties = null
    <3>1. named = {}
      BY <2>2 DEF properties, ObjectAt
    <3> QED BY <1>4, <2>2, <3>1 DEF Restored, Empty, PlainObject
  <2>3. CASE Own(e, "amr_properties") /\ e.amr_properties # null
    <3>1. properties = e.amr_properties
      BY <2>3 DEF properties, ObjectAt
    <3>2. IsObject(properties)
      BY <2>3, <3>1 DEF IsFactor, IsEntries
    <3>3. members = properties <=> \A n \in named : members[n] = properties[n]
      BY <1>4, <3>2 DEF IsObject
    <3>4. Restored(e, "amr_properties", members) <=>
            ~Empty(properties) /\ members = properties
      BY <1>4, <2>3, <3>1 DEF Restored, Empty
    <3>5. IsPlain <=> PlainObject(properties, {})
      BY <2>3, <3>1
    <3>6. Trims(properties)
      BY DEF properties
    <3>7. PlainObject(properties, {}) <=>
            /\ ~Empty(properties) /\ "" \notin named
            /\ \A n \in named : PlainConstraint(properties[n])
      BY <2>3, <3>1, <3>6 DEF PlainObject, Trims
    <3> HIDE DEF IsPlain
    <3> QED BY <1>3, <1>5, <3>3, <3>4, <3>5, <3>7
  <2> QED BY <2>1, <2>2, <2>3
<1> QED BY <1>6 DEF properties, members, rows

\* The identifier a card starts with is a name.
LEMMA DefaultIsName ==
  ASSUME NEW m, IsSequence(m.identifiers), ToSet(m.identifiers) \subseteq Names
  PROVE  FilledName(DefaultIdentifier(m))
<1> DEFINE ids == m.identifiers
<1>1. CASE Contains(ids, "pwd") \/ ids = <<>>
  <2>1. DefaultIdentifier(m) = "pwd"
    BY <1>1 DEF DefaultIdentifier
  <2> QED BY <2>1, ScalarsAssumption DEF FilledName, Own
<1>2. CASE ~(Contains(ids, "pwd") \/ ids = <<>>)
  <2>1. DefaultIdentifier(m) = ids[1]
    BY <1>2 DEF DefaultIdentifier
  <2>2. ids[1] \in ToSet(ids)
    <3> HIDE DEF ids
    <3>1. IsSequence(ids) /\ ids # <<>>
      BY <1>2 DEF ids
    <3> QED BY <3>1 DEF IsSequence
  <2>3. ids[1] \in Names
    BY <2>2
  <2> HIDE DEF ids
  <2> QED BY <2>1, <2>3, ScalarsAssumption DEF FilledName, Own
<1> QED BY <1>1, <1>2

\* The identifier of a loaded card has no blanks at its ends.
LEMMA IdentifierIsName ==
  ASSUME NEW e, NEW m, IsSequence(m.identifiers), ToSet(m.identifiers) \subseteq Names,
         NEW card, CardOf(card, e, m)
  PROVE  FilledName(card.identifier)
BY DefaultIsName, TrimmedName DEF CardOf, FilledName

\* The identifier comes back exactly if it is a string that is not blank and has no
\* blanks at its ends, and the only member.
LEMMA IdentifierReturns ==
  ASSUME NEW e, IsFactor(e), Own(e, "amr_identifier"), Own(e.amr_identifier, "value"),
         NEW m, IsSequence(m.identifiers), ToSet(m.identifiers) \subseteq Names,
         NEW card, CardOf(card, e, m)
  PROVE  card.identifier # "" /\ [value |-> String(<<card.identifier>>)] = e.amr_identifier
           <=> Only(e.amr_identifier, {"value"}) /\ PlainIdentifier(e.amr_identifier.value)
<1> DEFINE id == e.amr_identifier
           given == id.value
           name == card.identifier
           written == String(<<name>>)
<1>1. IsObject(id) /\ Own(id, "value") /\ IsScalar(given) /\ Len(given.string) = 1
  BY DEF IsFactor
<1>2. ~Own(Trimmed, name)
  BY IdentifierIsName DEF FilledName
<1>3. name = IF given = Null THEN DefaultIdentifier(m) ELSE TrimWord(given.string[1])
  BY DEF CardOf
<1>4. /\ written = [type |-> "string", text |-> <<name>>, string |-> <<name>>]
      /\ written.type = "string" /\ written.text = <<name>> /\ written.text[1] = name
  BY DEF String
<1> HIDE DEF given, name, written
<1>5. [value |-> written] = id <=> Only(id, {"value"}) /\ written = given
  <2>1. Only(id, {"value"}) <=> DOMAIN id = {"value"}
    BY <1>1 DEF Only, Own
  <2>2. DOMAIN id = {"value"} => id = [value |-> given]
    BY <1>1 DEF IsObject, given
  <2>3. [value |-> written] = [value |-> given] <=> written = given
    OBVIOUS
  <2>4. [value |-> written] = id => DOMAIN id = {"value"}
    OBVIOUS
  <2> QED BY <2>1, <2>2, <2>3, <2>4
<1>6. ASSUME name # "", written = given PROVE PlainIdentifier(given)
  <2>1. <<name>> # NoText
    BY <1>6 DEF NoText
  <2> QED BY <1>2, <1>4, <1>6, <2>1 DEF PlainIdentifier
<1>7. ASSUME PlainIdentifier(given) PROVE name # "" /\ written = given
  <2> DEFINE word == given.text[1]
  <2>1. /\ given.type = "string" /\ given.text # NoText /\ ~Own(Trimmed, word)
    BY <1>7 DEF PlainIdentifier
  <2>2. /\ given = [type |-> given.type, text |-> given.text, string |-> given.string]
        /\ IsWords(given.text) /\ given.string = given.text
    BY <1>1, <2>1 DEF IsScalar
  <2>3. given.text = <<word>>
    <3> HIDE DEF word
    <3>1. IsSequence(given.text) /\ Len(given.text) = 1
      BY <1>1, <2>2 DEF IsWords
    <3> QED BY <3>1 DEF IsSequence, word
  <2> HIDE DEF word
  <2>4. given # Null
    BY <2>1 DEF Null
  <2>5. name = word
    BY <1>3, <2>1, <2>2, <2>4, TrimmedName DEF word
  <2>6. word # ""
    BY <2>1, <2>3 DEF NoText
  <2> QED BY <1>4, <2>1, <2>2, <2>3, <2>5, <2>6
<1> QED BY <1>5, <1>6, <1>7 DEF id, name, written, given

\* An expression that is written from a card has no names with blanks at their ends.
LEMMA WrittenTrims ==
  ASSUME NEW e, NEW m, NEW card, CardOf(card, e, m), FactorExpression(card) = e
  PROVE  Trims(ObjectAt(e, "amr_metadata")) /\ Trims(ObjectAt(e, "amr_properties"))
<1> DEFINE M == MetadataMembers(card)
           P == RowMembers(card.rows["properties"])
           R == RowMembers(card.rows["metadata"])
           x == FactorExpression(card)
<1>1. \A kind \in Kinds :
        /\ IsSequence(card.rows[kind])
        /\ \A i \in DOMAIN card.rows[kind] : ~Own(Trimmed, card.rows[kind][i].name)
  BY DEF CardOf
<1>2. Kinds = {"metadata", "properties"}
  BY DEF Kinds
<1>3. Trims(P) /\ Trims(R)
  <2>1. DOMAIN P = {card.rows["properties"][i].name : i \in DOMAIN card.rows["properties"]}
    BY <1>1, <1>2, MembersAre
  <2>2. DOMAIN R = {card.rows["metadata"][i].name : i \in DOMAIN card.rows["metadata"]}
    BY <1>1, <1>2, MembersAre
  <2> HIDE DEF P, R
  <2> QED BY <1>1, <1>2, <2>1, <2>2 DEF Trims
<1>4. DOMAIN M \subseteq DOMAIN R \cup {"time"}
  <2> DEFINE time == Member("time", TimeValue(card.time),
                            card.time.requested \/ card.time.max_age # NoText)
  <2>1. M = R ++ time
    BY DEF MetadataMembers
  <2>2. DOMAIN time \subseteq {"time"}
    BY DEF Member
  <2> HIDE DEF M, R, time
  <2> QED BY <2>1, <2>2, Together
<1>5. Trims(M)
  <2> HIDE DEF M, R
  <2> QED BY <1>3, <1>4, ScalarsAssumption DEF Trims, Own
<1>6. /\ DOMAIN x = {"amr_identifier"} \cup (IF Empty(M) THEN {} ELSE {"amr_metadata"})
                                       \cup (IF Empty(P) THEN {} ELSE {"amr_properties"})
      /\ ~Empty(M) => x["amr_metadata"] = M
      /\ ~Empty(P) => x["amr_properties"] = P
  BY ExpressionIs
<1> HIDE DEF M, P
<1>7. Own(x, "amr_metadata") => x["amr_metadata"] = M
  BY <1>6 DEF Own
<1>8. Own(x, "amr_properties") => x["amr_properties"] = P
  BY <1>6 DEF Own
<1> HIDE DEF x
<1>9. x = e
  BY DEF x
<1>10. \A key : \/ ObjectAt(e, key) = <<>>
                \/ Own(e, key) /\ ObjectAt(e, key) = e[key]
  BY DEF ObjectAt
<1>11. Trims(<<>>)
  BY DEF Trims
<1> QED BY <1>3, <1>5, <1>7, <1>8, <1>9, <1>10, <1>11

-------------------------------------------------------------------------------
(* Theorems *)

\* factorModel and factorExpression: for every expression of one method in JSON,
\* whatever its members, and on a page with any metadata, the card it is loaded
\* into is written as the same expression, and nothing throws on the way, exactly
\* if the expression is plain.
THEOREM FactorsReturn ==
  ASSUME NEW e, IsFactor(e),
         NEW m, IsSequence(m.identifiers), ToSet(m.identifiers) \subseteq Names
  PROVE  (/\ FactorModelOK(e)
          /\ FactorOK(FactorModel(e, m))
          /\ FactorExpression(FactorModel(e, m)) = e)
           <=> PlainFactor(e)
<1> DEFINE card == FactorModel(e, m)
           x == FactorExpression(card)
           metadata == ObjectAt(e, "amr_metadata")
           properties == ObjectAt(e, "amr_properties")
           M == MetadataMembers(card)
           P == RowMembers(card.rows["properties"])
<1>1. CardOf(card, e, m)
  BY FactorModelled
<1>2. /\ IsObject(x)
      /\ DOMAIN x = {"amr_identifier"} \cup (IF Empty(M) THEN {} ELSE {"amr_metadata"})
                                       \cup (IF Empty(P) THEN {} ELSE {"amr_properties"})
      /\ x["amr_identifier"] = [value |-> String(<<card.identifier>>)]
      /\ ~Empty(M) => x["amr_metadata"] = M
      /\ ~Empty(P) => x["amr_properties"] = P
  BY ExpressionIs
<1> DEFINE trims == Trims(metadata) /\ Trims(properties)
<1>3. FactorModelOK(e) <=>
        /\ Own(e, "amr_identifier") /\ Own(e.amr_identifier, "value")
        /\ \A n \in DOMAIN metadata \ {"time"} : PropertyOK(metadata[n])
        /\ \A n \in DOMAIN properties : PropertyOK(properties[n])
  BY DEF FactorModelOK
<1> HIDE DEF card
<1>4. ASSUME trims
      PROVE  FactorOK(card) <=>
               /\ card.identifier # ""
               /\ card.time.max_age # NoText => Numbers[card.time.max_age] \in Ages
               /\ RowsOK(card, "metadata") /\ RowsOK(card, "properties")
  <2>1. RowsOf(card.rows["metadata"], metadata, DOMAIN metadata \ {"time"})
    BY <1>1, <1>4 DEF CardOf
  <2>2. \A i \in DOMAIN card.rows["metadata"] : card.rows["metadata"][i].name # "time"
    BY <2>1 DEF RowsOf
  <2>3. Kinds = {"metadata", "properties"}
    BY DEF Kinds
  <2> QED BY <2>2, <2>3 DEF FactorOK, RowsOK
<1> DEFINE Keys == {"amr_identifier", "amr_metadata", "amr_properties"}
<1>5. x = e <=>
        /\ Only(e, Keys) /\ Own(e, "amr_identifier")
        /\ [value |-> String(<<card.identifier>>)] = e.amr_identifier
        /\ Restored(e, "amr_metadata", M) /\ Restored(e, "amr_properties", P)
  <2>1. IsObject(e)
    BY DEF IsFactor
  <2> HIDE DEF x, M, P
  <2>2. ASSUME x = e
        PROVE  /\ Only(e, Keys) /\ Own(e, "amr_identifier")
               /\ [value |-> String(<<card.identifier>>)] = e.amr_identifier
               /\ Restored(e, "amr_metadata", M) /\ Restored(e, "amr_properties", P)
    BY <1>2, <2>2 DEF Only, Own, Restored
  <2>3. ASSUME Only(e, Keys), Own(e, "amr_identifier"),
               [value |-> String(<<card.identifier>>)] = e.amr_identifier,
               Restored(e, "amr_metadata", M), Restored(e, "amr_properties", P)
        PROVE  x = e
    <3>1. DOMAIN x = DOMAIN e
      BY <1>2, <2>3 DEF Only, Own, Restored
    <3>2. \A k \in DOMAIN e : x[k] = e[k]
      BY <1>2, <2>3 DEF Only, Own, Restored
    <3> QED BY <1>2, <2>1, <3>1, <3>2 DEF IsObject
  <2> QED BY <2>2, <2>3
<1>6. ASSUME trims
      PROVE  (/\ \A n \in DOMAIN metadata \ {"time"} : PropertyOK(metadata[n])
              /\ RowsOK(card, "metadata")
              /\ card.time.max_age # NoText => Numbers[card.time.max_age] \in Ages
              /\ Restored(e, "amr_metadata", M))
               <=> (Own(e, "amr_metadata") =>
                      /\ PlainObject(e.amr_metadata, {"time"})
                      /\ Own(e.amr_metadata, "time") => PlainTime(e.amr_metadata.time))
  BY <1>1, <1>6, MetadataReturns
<1>7. ASSUME trims
      PROVE  (/\ \A n \in DOMAIN properties : PropertyOK(properties[n])
              /\ RowsOK(card, "properties")
              /\ Restored(e, "amr_properties", P))
               <=> (Own(e, "amr_properties") => PlainObject(e.amr_properties, {}))
  BY <1>1, <1>7, PropertiesReturn
<1>8. Own(e, "amr_identifier") /\ Own(e.amr_identifier, "value") =>
        (card.identifier # "" /\ [value |-> String(<<card.identifier>>)] = e.amr_identifier
           <=> Only(e.amr_identifier, {"value"}) /\ PlainIdentifier(e.amr_identifier.value))
  BY <1>1, IdentifierReturns
<1>9. x = e => trims
  BY <1>1, WrittenTrims
<1>10. PlainFactor(e) => trims
  <2>1. \A key : \/ ObjectAt(e, key) = <<>>
                 \/ Own(e, key) /\ ObjectAt(e, key) = e[key]
    BY DEF ObjectAt
  <2>2. Trims(<<>>)
    BY DEF Trims
  <2>3. \A object, apart : PlainObject(object, apart) => Trims(object)
    BY DEF PlainObject, Trims
  <2>4. PlainFactor(e) =>
          /\ Own(e, "amr_metadata") => PlainObject(e["amr_metadata"], {"time"})
          /\ Own(e, "amr_properties") => PlainObject(e["amr_properties"], {})
    BY DEF PlainFactor
  <2> QED BY <2>1, <2>2, <2>3, <2>4
<1> HIDE DEF x, metadata, properties, M, P, trims
<1>11. CASE trims
  BY <1>3, <1>4, <1>5, <1>6, <1>7, <1>8, <1>11 DEF PlainFactor, card, x
<1>12. CASE ~trims
  BY <1>9, <1>10, <1>12 DEF card, x
<1> QED BY <1>11, <1>12

-------------------------------------------------------------------------------
(* Cards that a user fills in *)

\* No row has a string in quotes that is read differently without them.
Unrequoted(rows) == \A i \in DOMAIN rows : ~Requoted(rows[i])

\* null and Other are no objects.
NoObjects == \A object : IsObject(object) => object \notin {null, Other}

\* A constraint of JSON: essential is true, and everything else is scalars.
LEMMA WrittenIsConstraint ==
  ASSUME NEW c, IsObject(c), Written(c, "essential"),
         \A key \in {"value", "min", "max"} : Own(c, key) => IsScalar(c[key]),
         Own(c, "values") => /\ IsSequence(c["values"])
                             /\ \A i \in DOMAIN c["values"] : IsScalar(c["values"][i])
  PROVE  IsConstraint(c)
<1>1. Own(c, "essential") => c["essential"] \in BOOLEAN
  BY DEF Written
<1> QED BY <1>1 DEF IsConstraint

\* A row without an error is written as a constraint, and unless a string needs its
\* quotes as one that comes back.
LEMMA RowIsPlain ==
  ASSUME NEW row, FilledRow(row), ConstraintOK(row), NoObjects
  PROVE  /\ IsConstraint(ConstraintValue(row))
         /\ ~Requoted(row) => PlainConstraint(ConstraintValue(row))
<1> DEFINE c == ConstraintValue(row)
           words == Words(row.value)
           back == [i \in DOMAIN words |-> ParseScalar(<<words[i]>>)]
<1>1. CASE row.mode = "requested"
  <2>1. c = null
    BY <1>1 DEF ConstraintValue
  <2> QED BY <2>1 DEF IsConstraint, PlainConstraint
<1>2. CASE row.mode # "requested"
  <2>1. /\ IsObject(c)
        /\ DOMAIN c = (IF row.essential THEN {"essential"} ELSE {}) \cup Asked(row)
        /\ row.essential => c["essential"] = TRUE
        /\ row.mode = "value" => c["value"] = ParseScalar(row.value)
        /\ row.mode = "values" => c["values"] = back
        /\ row.mode = "range" => /\ row.min # NoText => c["min"] = Numbers[row.min]
                                 /\ row.max # NoText => c["max"] = Numbers[row.max]
    BY <1>2, Constrained DEF FilledRow
  <2> HIDE DEF c
  <2>2. c # Other /\ Written(c, "essential")
    BY <2>1 DEF NoObjects, Written, Own, Asked
  <2>3. IsWords(row.value)
    BY DEF FilledRow
  <2>4. CASE row.mode = "value"
    <3>1. DOMAIN c \ {"essential"} = {"value"}
      BY <2>1, <2>4 DEF Asked
    <3>2. ~Requoted(row) => Plain(ParseScalar(row.value))
      BY <2>4 DEF Requoted, ScalarTexts
    <3>3. IsScalar(c["value"]) /\ (~Requoted(row) => Plain(c["value"]))
      BY <2>1, <2>3, <2>4, <3>2, TypedScalar
    <3>4. IsConstraint(c)
      <4>1. ~Own(c, "values") /\ ~Own(c, "min") /\ ~Own(c, "max")
        BY <3>1 DEF Own
      <4> QED BY <2>1, <2>2, <3>3, <4>1, WrittenIsConstraint
    <3>5. Only(c, {"essential", "value"})
      BY <3>1 DEF Only
    <3> QED BY <2>2, <3>3, <3>4, <3>5 DEF PlainConstraint, c
  <2>5. CASE row.mode = "values"
    <3>1. DOMAIN c \ {"essential"} = {"values"} /\ c["values"] = back
      BY <2>1, <2>5 DEF Asked
    <3>2. IsSequence(words) /\ words # <<>>
      BY <2>3, <2>5, WordsAre DEF ConstraintOK
    <3>3. ASSUME NEW i \in DOMAIN words
          PROVE  /\ IsScalar(back[i]) /\ Len(back[i].text) = 1
                 /\ ~Requoted(row) => Plain(back[i])
      <4> DEFINE text == <<words[i]>>
      <4>1. words[i] \in ToSet(words)
        BY DEF ToSet
      <4>2. ~Requoted(row) => Plain(ParseScalar(text))
        BY <2>5, <4>1 DEF Requoted, ScalarTexts
      <4>3. back[i] = ParseScalar(text)
        OBVIOUS
      <4>4. IsWords(text) /\ Len(text) = 1
        BY OneWord
      <4> HIDE DEF text
      <4>5. IsScalar(ParseScalar(text)) /\ Len(ParseScalar(text).text) = 1
        BY <4>4, TypedScalar
      <4> QED BY <4>2, <4>3, <4>5
    <3> HIDE DEF words
    <3>4. DOMAIN back = DOMAIN words /\ IsSequence(back) /\ back # <<>>
      <4>1. PICK n \in Nat : DOMAIN words = 1..n /\ n # 0
        BY <3>2 DEF IsSequence
      <4>2. DOMAIN back = 1..n /\ back \in [1..n -> ToSet(back)]
        BY <4>1 DEF ToSet
      <4> HIDE DEF back
      <4> QED BY <4>1, <4>2 DEF IsSequence
    <3>5. back # Other
      BY DEF NoObjects, IsObject
    <3> HIDE DEF back
    <3>6. IsConstraint(c)
      <4>1. ~Own(c, "value") /\ ~Own(c, "min") /\ ~Own(c, "max")
        BY <3>1 DEF Own
      <4> QED BY <2>1, <2>2, <3>1, <3>3, <3>4, <4>1, WrittenIsConstraint
    <3>7. Only(c, {"essential", "values"})
      BY <3>1 DEF Only
    <3> QED BY <2>2, <3>1, <3>3, <3>4, <3>5, <3>6, <3>7 DEF PlainConstraint, c
  <2>6. CASE row.mode \notin {"value", "values"}
    <3>1. DOMAIN c \ {"essential"} \subseteq {"min", "max"}
      BY <2>1, <2>6 DEF Asked
    <3>2. \A key \in {"min", "max"} : Own(c, key) =>
            row.mode = "range" /\ row[key] # NoText /\ c[key] = Numbers[row[key]]
      <4>1. \A key \in {"min", "max"} : Own(c, key) => key \in Asked(row)
        BY <2>1 DEF Own
      <4>2. \A key \in Asked(row) : row.mode = "range" /\ row[key] # NoText
        BY <2>6 DEF Asked
      <4> QED BY <2>1, <4>1, <4>2
    <3>3. \A text \in {row.min, row.max} :
            text # NoText => Numbers[text] \in Range(Numbers) /\ IsScalar(Numbers[text])
      BY NumbersAre DEF FilledRow
    <3>4. \A key \in {"min", "max"} : Own(c, key) => c[key] \in Range(Numbers) /\ IsScalar(c[key])
      BY <3>2, <3>3
    <3>5. IsConstraint(c)
      <4>1. ~Own(c, "value") /\ ~Own(c, "values")
        BY <3>1 DEF Own
      <4> QED BY <2>1, <2>2, <3>4, <4>1, WrittenIsConstraint
    <3>6. Only(c, {"essential", "min", "max"})
      BY <3>1 DEF Only
    <3> QED BY <2>2, <3>4, <3>5, <3>6 DEF PlainConstraint, c
  <2> QED BY <2>4, <2>5, <2>6
<1> QED BY <1>1, <1>2

\* Rows without an error, and an object with their constraints.
RowsFilled(rows) ==
  /\ IsSequence(rows)
  /\ \A i \in DOMAIN rows :
       FilledRow(rows[i]) /\ ConstraintOK(rows[i]) /\ rows[i].name # ""
WrittenRows(rows, o) ==
  /\ IsObject(o) /\ IsFiniteSet(DOMAIN o) /\ "" \notin DOMAIN o /\ Trims(o)
  /\ DOMAIN o = {rows[i].name : i \in DOMAIN rows}
  /\ \A n \in DOMAIN o : IsConstraint(o[n]) /\ (Unrequoted(rows) => PlainConstraint(o[n]))

\* Rows are written as an object of finitely many constraints that come back.
LEMMA RowsArePlain ==
  ASSUME NEW rows, RowsFilled(rows), NoObjects
  PROVE  WrittenRows(rows, RowMembers(rows))
<1> DEFINE o == RowMembers(rows)
           names == {rows[i].name : i \in DOMAIN rows}
           name == [i \in DOMAIN rows |-> rows[i].name]
<1>1. /\ IsObject(o) /\ DOMAIN o = names
      /\ \A n \in DOMAIN o : \E i \in DOMAIN rows :
           rows[i].name = n /\ o[n] = ConstraintValue(rows[i])
  BY MembersAre DEF RowsFilled
<1>2. \A i \in DOMAIN rows :
        /\ IsConstraint(ConstraintValue(rows[i]))
        /\ Unrequoted(rows) => PlainConstraint(ConstraintValue(rows[i]))
  BY RowIsPlain DEF Unrequoted, RowsFilled
<1>3. IsFiniteSet(names)
  <2>1. PICK n \in Nat : DOMAIN rows = 1..n /\ IsFiniteSet(1..n)
    BY LengthIs DEF RowsFilled
  <2>2. IsFiniteSet(DOMAIN rows)
    BY <2>1
  <2>3. name \in Surjection(DOMAIN rows, names)
    BY DEF Surjection
  <2> HIDE DEF name, names
  <2> QED BY <2>2, <2>3, FS_Surjection
<1>4. "" \notin names /\ \A n \in names : ~Own(Trimmed, n)
  BY DEF RowsFilled, FilledRow, FilledName
<1> HIDE DEF o, names
<1> QED BY <1>1, <1>2, <1>3, <1>4 DEF o, names, WrittenRows, Trims

\* The time section is written as one that comes back.
LEMMA TimeIsPlain ==
  ASSUME NEW t, t.essential \in BOOLEAN, t.max_age # NoText => Numbers[t.max_age] \in Ages
  PROVE  IsTime(TimeValue(t)) /\ PlainTime(TimeValue(t))
<1> DEFINE value == TimeValue(t)
<1>1. TimeOf(value, t)
  BY TimeWritten
<1> HIDE DEF value
<1>2. CASE TimeKeys(t) = {}
  BY <1>1, <1>2 DEF TimeOf, IsTime, PlainTime, value
<1>3. CASE TimeKeys(t) # {}
  <2>1. /\ IsObject(value) /\ DOMAIN value = TimeKeys(t)
        /\ t.essential => value["essential"] = TRUE
        /\ t.max_age # NoText => value["max_age"] = Numbers[t.max_age]
    BY <1>1, <1>3 DEF TimeOf
  <2>2. /\ Own(value, "essential") <=> t.essential
        /\ Own(value, "max_age") <=> t.max_age # NoText
    BY <2>1 DEF TimeKeys, Own
  <2>3. Own(value, "essential") => value["essential"] = TRUE
    BY <2>1, <2>2
  <2>4. Own(value, "max_age") => value["max_age"] \in Ages /\ IsScalar(value["max_age"])
    <3>1. \A number \in Ages : IsScalar(number)
      BY NumbersAre
    <3> QED BY <2>1, <2>2, <3>1
  <2>5. ~Empty(value) /\ Only(value, {"essential", "max_age"})
    BY <1>3, <2>1 DEF Empty, Only, TimeKeys
  <2>6. IsTime(value)
    <3>1. Own(value, "essential") => value["essential"] \in BOOLEAN
      BY <2>3
    <3> QED BY <2>1, <2>4, <3>1 DEF IsTime
  <2>7. PlainTime(value)
    BY <2>3, <2>4, <2>5 DEF PlainTime, Written
  <2> QED BY <2>6, <2>7 DEF value
<1> QED BY <1>2, <1>3

\* A card without an error is written as an expression in JSON, and one that can be
\* shown unless a string needs its quotes.
LEMMA CardIsPlain ==
  ASSUME NEW card, Filled(card), FactorOK(card), NoObjects
  PROVE  /\ IsFactor(FactorExpression(card))
         /\ (\A kind \in Kinds : Unrequoted(card.rows[kind])) => PlainFactor(FactorExpression(card))
<1> DEFINE x == FactorExpression(card)
           M == MetadataMembers(card)
           P == RowMembers(card.rows["properties"])
           R == RowMembers(card.rows["metadata"])
           t == card.time
           clear == \A kind \in Kinds : Unrequoted(card.rows[kind])
<1>1. /\ IsObject(x)
      /\ DOMAIN x = {"amr_identifier"} \cup (IF Empty(M) THEN {} ELSE {"amr_metadata"})
                                       \cup (IF Empty(P) THEN {} ELSE {"amr_properties"})
      /\ x["amr_identifier"] = [value |-> String(<<card.identifier>>)]
      /\ ~Empty(M) => x["amr_metadata"] = M
      /\ ~Empty(P) => x["amr_properties"] = P
  BY ExpressionIs
<1>2. /\ card.identifier # "" /\ FilledName(card.identifier)
      /\ t.requested \in BOOLEAN /\ t.essential \in BOOLEAN
      /\ t.max_age # NoText => Numbers[t.max_age] \in Ages
  BY DEF Filled, FilledTime, FactorOK
<1>3. Kinds = {"metadata", "properties"}
  BY DEF Kinds
<1>4. \A kind \in Kinds :
        /\ IsSequence(card.rows[kind])
        /\ \A i \in DOMAIN card.rows[kind] :
             /\ FilledRow(card.rows[kind][i]) /\ ConstraintOK(card.rows[kind][i])
             /\ card.rows[kind][i].name # ""
             /\ ~(kind = "metadata" /\ card.rows[kind][i].name = "time")
  BY DEF Filled, FactorOK
<1>5. /\ IsObject(P) /\ IsFiniteSet(DOMAIN P) /\ "" \notin DOMAIN P /\ Trims(P)
      /\ \A n \in DOMAIN P : IsConstraint(P[n]) /\ (clear => PlainConstraint(P[n]))
  <2> DEFINE rows == card.rows["properties"]
  <2>1. clear => Unrequoted(rows)
    BY <1>3
  <2>2. RowsFilled(rows)
    BY <1>3, <1>4 DEF RowsFilled
  <2> HIDE DEF clear, rows
  <2>3. WrittenRows(rows, RowMembers(rows))
    BY <2>2, RowsArePlain
  <2> QED BY <2>1, <2>3 DEF rows, WrittenRows
<1>6. /\ IsObject(R) /\ IsFiniteSet(DOMAIN R) /\ "" \notin DOMAIN R /\ Trims(R)
      /\ \A n \in DOMAIN R : IsConstraint(R[n]) /\ (clear => PlainConstraint(R[n]))
  <2> DEFINE rows == card.rows["metadata"]
  <2>1. clear => Unrequoted(rows)
    BY <1>3
  <2>2. RowsFilled(rows)
    BY <1>3, <1>4 DEF RowsFilled
  <2> HIDE DEF clear, rows
  <2>3. WrittenRows(rows, RowMembers(rows))
    BY <2>2, RowsArePlain
  <2> QED BY <2>1, <2>3 DEF rows, WrittenRows
<1>7. "time" \notin DOMAIN R
  <2>1. DOMAIN R = {card.rows["metadata"][i].name : i \in DOMAIN card.rows["metadata"]}
    <3>1. RowsFilled(card.rows["metadata"])
      BY <1>3, <1>4 DEF RowsFilled
    <3> QED BY <3>1, RowsArePlain DEF WrittenRows
  <2>2. \A i \in DOMAIN card.rows["metadata"] : card.rows["metadata"][i].name # "time"
    BY <1>3, <1>4
  <2> HIDE DEF R
  <2> QED BY <2>1, <2>2
<1>8. IsTime(TimeValue(t)) /\ PlainTime(TimeValue(t))
  <2> HIDE DEF t
  <2>1. t.essential \in BOOLEAN
    BY <1>2
  <2>2. t.max_age # NoText => Numbers[t.max_age] \in Ages
    BY <1>2
  <2> QED BY <2>1, <2>2, TimeIsPlain
<1>9. /\ IsObject(M)
      /\ DOMAIN M = DOMAIN R \cup (IF Asks(t) THEN {"time"} ELSE {})
      /\ \A n \in DOMAIN R : M[n] = R[n]
      /\ "time" \notin DOMAIN R /\ Asks(t) => M["time"] = TimeValue(t)
  <2>1. card.time.requested \in BOOLEAN
    BY <1>2
  <2> HIDE DEF x, M, P, R, t
  <2> QED BY <2>1, MetadataWritten DEF M, R, t
<1> HIDE DEF x, M, P, R, t, clear
<1>10. IsFiniteSet(DOMAIN M)
  <2>1. IsFiniteSet(DOMAIN R \cup {"time"})
    BY <1>6, FS_AddElement
  <2> QED BY <1>6, <1>9, <2>1
<1>11. /\ \A n \in DOMAIN M \ {"time"} : IsConstraint(M[n]) /\ (clear => PlainConstraint(M[n]))
       /\ Own(M, "time") => IsTime(M["time"]) /\ PlainTime(M["time"])
       /\ "" \notin DOMAIN M /\ Trims(M)
  BY <1>6, <1>7, <1>8, <1>9, ScalarsAssumption DEF Own, Trims
<1>12. M # null /\ P # null
  BY <1>5, <1>9 DEF NoObjects
<1>13. /\ IsObject(x["amr_identifier"]) /\ Only(x["amr_identifier"], {"value"})
       /\ Own(x["amr_identifier"], "value") /\ PlainIdentifier(x["amr_identifier"].value)
       /\ IsScalar(x["amr_identifier"].value) /\ Len(x["amr_identifier"].value.string) = 1
  <2> DEFINE name == card.identifier
             written == String(<<name>>)
             id == [value |-> written]
  <2>1. x["amr_identifier"] = id
    BY <1>1
  <2>2. name # "" /\ ~Own(Trimmed, name)
    BY <1>2 DEF FilledName
  <2>3. /\ written = [type |-> "string", text |-> <<name>>, string |-> <<name>>]
        /\ IsWords(<<name>>) /\ Len(<<name>>) = 1 /\ <<name>>[1] = name
    BY OneWord DEF String
  <2> HIDE DEF name, written
  <2>4. IsScalar(written) /\ Len(written.string) = 1
    BY <2>3 DEF IsScalar
  <2>5. PlainIdentifier(written)
    <3>1. <<name>> # NoText
      BY <2>2 DEF NoText
    <3> QED BY <2>2, <2>3, <3>1 DEF PlainIdentifier
  <2>6. DOMAIN id = {"value"} /\ id.value = written
    OBVIOUS
  <2>7. IsObject(id)
    <3>1. id = [key \in {"value"} |-> id[key]]
      OBVIOUS
    <3> HIDE DEF id
    <3> QED BY <2>6, <3>1 DEF IsObject
  <2> HIDE DEF id
  <2>8. Only(id, {"value"}) /\ Own(id, "value")
    BY <2>6 DEF Only, Own
  <2> QED BY <2>1, <2>4, <2>5, <2>6, <2>7, <2>8
<1>14. /\ Own(x, "amr_metadata") => ~Empty(M) /\ x["amr_metadata"] = M
       /\ Own(x, "amr_properties") => ~Empty(P) /\ x["amr_properties"] = P
       /\ Own(x, "amr_identifier")
       /\ Only(x, {"amr_identifier", "amr_metadata", "amr_properties"})
  BY <1>1 DEF Own, Only
<1>15. IsFactor(x)
  <2>1. Own(x, "amr_metadata") =>
          IsEntries(x["amr_metadata"]) /\ ObjectAt(x, "amr_metadata") = M
    BY <1>9, <1>10, <1>12, <1>14 DEF IsEntries, ObjectAt
  <2>2. Own(x, "amr_properties") =>
          IsEntries(x["amr_properties"]) /\ ObjectAt(x, "amr_properties") = P
    BY <1>5, <1>12, <1>14 DEF IsEntries, ObjectAt
  <2>3. \A n \in DOMAIN M : IF n = "time" THEN IsTime(M[n]) ELSE IsConstraint(M[n])
    BY <1>11 DEF Own
  <2> QED BY <1>1, <1>5, <1>13, <2>1, <2>2, <2>3 DEF IsFactor
<1>16. ASSUME clear PROVE PlainFactor(x)
  <2>1. Own(x, "amr_metadata") =>
          /\ PlainObject(x["amr_metadata"], {"time"})
          /\ Own(x["amr_metadata"], "time") => PlainTime(x["amr_metadata"]["time"])
    BY <1>11, <1>12, <1>14, <1>16 DEF PlainObject, Own, Trims
  <2>2. Own(x, "amr_properties") => PlainObject(x["amr_properties"], {})
    BY <1>5, <1>12, <1>14, <1>16 DEF PlainObject, Own, Trims
  <2> QED BY <1>13, <1>14, <2>1, <2>2 DEF PlainFactor
<1> QED BY <1>15, <1>16 DEF x, clear

\* factorExpression and factorModel: what a user fills into a card, if the card is
\* written at all, is written as an expression that can be loaded on any page, and
\* the card it is loaded into is written as the same expression: no setting that
\* reaches the JSON is lost on the way back.  Left out are texts that are read as a
\* string which is blank, has blanks at its ends, or is JSON itself: such a string
\* needs its quotes, and the field it is loaded into shows none.
THEOREM CardsReturn ==
  ASSUME NEW card, Filled(card), FactorOK(card), NoObjects,
         \A kind \in Kinds : \A i \in DOMAIN card.rows[kind] :
           ~Requoted(card.rows[kind][i]),
         NEW m, IsSequence(m.identifiers), ToSet(m.identifiers) \subseteq Names
  PROVE  LET expression == FactorExpression(card) IN
         /\ FactorModelOK(expression)
         /\ FactorOK(FactorModel(expression, m))
         /\ FactorExpression(FactorModel(expression, m)) = expression
<1>1. IsFactor(FactorExpression(card)) /\ PlainFactor(FactorExpression(card))
  BY CardIsPlain DEF Unrequoted
<1> QED BY <1>1, FactorsReturn
===============================================================================
