---------------------------- MODULE SqlTextProofs ----------------------------
(***************************************************************************)
(* The properties of SqlText for every statement, default and sequence of  *)
(* random values.  The pieces of a statement's text are passed by the      *)
(* scanner one by one; so the words that matter are found where Render     *)
(* puts them and nowhere else, every edit of the text is an edit of the    *)
(* statement, and what is logged is the text of a statement again, whose   *)
(* values stand in the places of the original ones.                        *)
(***************************************************************************)
EXTENDS SqlText, NumberInduction

-----------------------------------------------------------------------------
(* The states of the scanner.                                              *)
Modes == {"code", "line", "block", "["} \cup Quotes
States == [mode : Modes, depth : Nat, skip : BOOLEAN, found : SUBSET Nat]
State0 == [mode |-> "code", depth |-> 0, skip |-> FALSE, found |-> {}]
After(text, i) == IF i < Len(text) THEN text[i + 1] ELSE "none"
Scanning(run, text, n) ==
  run = [i \in 0..n |-> IF i = 0 THEN State0
                        ELSE Advance(run[i - 1], text[i], After(text, i), i)]
StateAt(text, i) == (CHOOSE run : Scanning(run, text, Len(text)))[i]

(* There is a state for every position.                                    *)
LEMMA ScanningExists ==
  ASSUME NEW text, NEW n \in Nat
  PROVE  \E run : Scanning(run, text, n)
<1> DEFINE H == {k \in 0..n : \E run : Scanning(run, text, k)}
<1>1. 0 \in H
  <2>1. Scanning([i \in 0..0 |-> State0], text, 0)
    BY DEF Scanning
  <2> QED
    BY <2>1
<1>2. ASSUME NEW k \in 0..n, k < n, k \in H PROVE k + 1 \in H
  <2>1. PICK run : Scanning(run, text, k)
    BY <1>2
  <2> DEFINE more == [i \in 0..(k + 1) |-> IF i = k + 1
                          THEN Advance(run[k], text[i], After(text, i), i) ELSE run[i]]
  <2>2. Scanning(more, text, k + 1)
    BY <2>1 DEF Scanning
  <2>3. k + 1 \in 0..n
    BY <1>2
  <2> QED
    BY <2>2, <2>3
<1> HIDE DEF H
<1>3. n \in H
  BY <1>1, <1>2, Induction
<1> QED
  BY <1>3 DEF H

(* The scanner starts outside of everything and moves mark by mark.        *)
LEMMA StateSteps ==
  ASSUME NEW text, Len(text) \in Nat
  PROVE  /\ StateAt(text, 0) = State0
         /\ \A i \in 1..Len(text) :
              StateAt(text, i) = Advance(StateAt(text, i - 1), text[i], After(text, i), i)
         /\ TopLevelKeywords(text) = StateAt(text, Len(text)).found
<1> DEFINE n == Len(text)
           run == CHOOSE run : Scanning(run, text, n)
<1>1. Scanning(run, text, n)
  BY ScanningExists, Zenon
<1>2. TopLevelKeywords(text) = run[n].found
  BY DEF TopLevelKeywords, Scanning, State0, After
<1>3. \A i \in 0..n : StateAt(text, i) = run[i]
  BY DEF StateAt
<1> HIDE DEF run, n
<1>4. n \in Nat
  BY DEF n
<1>5. run[0] = State0 /\ \A i \in 1..n : run[i] = Advance(run[i - 1], text[i], After(text, i), i)
  BY <1>1, <1>4 DEF Scanning
<1>6. \A i \in 1..n : i \in 0..n /\ i - 1 \in 0..n
  BY <1>4
<1> QED
  BY <1>2, <1>3, <1>4, <1>5, <1>6 DEF n

(* The scanner is free outside of quotes, comments and parentheses.        *)
Free(s) == s.mode = "code" /\ ~s.skip /\ s.depth = 0

(* A step of the scanner leaves a state and finds only words it is free    *)
(* at.                                                                     *)
LEMMA AdvanceType ==
  ASSUME NEW s \in States, NEW c, NEW after, NEW i \in Nat
  PROVE  /\ Advance(s, c, after, i) \in States
         /\ Advance(s, c, after, i).found = IF Free(s) /\ c \in Words THEN s.found \cup {i} ELSE s.found
<1> USE DEF States
<1>1. CASE s.skip
  BY <1>1 DEF Advance, Free
<1>2. CASE ~s.skip /\ s.mode = "code"
  <2>1. Advance(s, c, after, i) = InCode(s, c, after, i)
    BY <1>2 DEF Advance
  <2>2. InCode(s, c, after, i) \in States
    <3>1. [s EXCEPT !.depth = IF s.depth = 0 THEN 0 ELSE s.depth - 1] \in States
      <4>1. (IF s.depth = 0 THEN 0 ELSE s.depth - 1) \in Nat
        OBVIOUS
      <4> QED
        BY <4>1
    <3>2. c \in Quotes \cup {"["} => [s EXCEPT !.mode = c] \in States
      BY DEF Modes
    <3>3. [s EXCEPT !.depth = s.depth + 1] \in States
      OBVIOUS
    <3>4. [s EXCEPT !.found = s.found \cup {i}] \in States
      OBVIOUS
    <3>5. /\ [s EXCEPT !.mode = "line", !.skip = TRUE] \in States
          /\ [s EXCEPT !.mode = "block", !.skip = TRUE] \in States
      BY DEF Modes
    <3> QED
      BY <3>1, <3>2, <3>3, <3>4, <3>5 DEF InCode
  <2>3. CASE c \in Words /\ s.depth = 0
    <3>1. InCode(s, c, after, i) = [s EXCEPT !.found = @ \cup {i}]
      BY <2>3 DEF InCode, StartsLineComment, Words, Algorithms, Quotes
    <3> QED
      BY <1>2, <2>1, <2>2, <2>3, <3>1 DEF Free
  <2>4. CASE ~(c \in Words /\ s.depth = 0)
    <3>1. InCode(s, c, after, i).found = s.found
      BY <2>4 DEF InCode
    <3> QED
      BY <1>2, <2>1, <2>2, <2>4, <3>1 DEF Free
  <2> QED
    BY <2>3, <2>4
<1>3. CASE ~s.skip /\ s.mode # "code"
  BY <1>3 DEF Advance, InQuotes, Free, Modes
<1> QED
  BY <1>1, <1>2, <1>3

(* The words at which the scanner is free.                                 *)
Top(text) == {i \in 1..Len(text) : Free(StateAt(text, i - 1)) /\ text[i] \in Words}

(* The fold of the scanner finds the words at which it is free.            *)
LEMMA FoundIsTop ==
  ASSUME NEW text, Len(text) \in Nat
  PROVE  /\ \A i \in 0..Len(text) : StateAt(text, i) \in States
         /\ TopLevelKeywords(text) = Top(text)
<1> DEFINE n == Len(text)
           st(i) == StateAt(text, i)
           H == {i \in 0..n : st(i) \in States /\ st(i).found = Top(text) \cap (1..i)}
<1>0. n \in Nat
  OBVIOUS
<1>1. 0 \in H
  <2>1. st(0) = State0
    BY StateSteps
  <2> HIDE DEF st
  <2>2. State0 \in States /\ State0.found = {}
    BY DEF States, State0, Modes
  <2>3. 1..0 = {} /\ 0 \in 0..n
    OBVIOUS
  <2> QED
    BY <2>1, <2>2, <2>3
<1>2. ASSUME NEW k \in 0..n, k < n, k \in H PROVE k + 1 \in H
  <2>1. k + 1 \in 1..n /\ k + 1 \in Nat /\ (k + 1) - 1 = k
    BY <1>2
  <2>2. st(k + 1) = Advance(st(k), text[k + 1], After(text, k + 1), k + 1)
    BY <2>1, StateSteps
  <2>3. st(k) \in States /\ st(k).found = Top(text) \cap (1..k)
    BY <1>2
  <2>4. k + 1 \in Top(text) <=> Free(st(k)) /\ text[k + 1] \in Words
    BY <2>1 DEF Top
  <2> HIDE DEF st
  <2>5. /\ st(k + 1) \in States
        /\ st(k + 1).found = IF Free(st(k)) /\ text[k + 1] \in Words THEN st(k).found \cup {k + 1}
                             ELSE st(k).found
    <3> DEFINE s == st(k)
               c == text[k + 1]
               after == After(text, k + 1)
    <3>1. s \in States /\ k + 1 \in Nat
      BY <2>1, <2>3
    <3> HIDE DEF s, c, after
    <3>2. /\ Advance(s, c, after, k + 1) \in States
          /\ Advance(s, c, after, k + 1).found =
               IF Free(s) /\ c \in Words THEN s.found \cup {k + 1} ELSE s.found
      BY <3>1, AdvanceType
    <3> QED
      BY <2>2, <3>2 DEF s, c, after
  <2>6. 1..(k + 1) = (1..k) \cup {k + 1}
    BY <2>1
  <2>7. st(k + 1).found = Top(text) \cap (1..(k + 1))
    BY <2>3, <2>4, <2>5, <2>6
  <2> QED
    BY <2>1, <2>5, <2>7
<1> HIDE DEF H
<1>3. \A i \in 0..n : i \in H
  BY <1>1, <1>2, Induction
<1>4. Top(text) \cap (1..n) = Top(text)
  BY DEF Top
<1>5. /\ \A i \in 0..n : st(i) \in States
      /\ st(n).found = Top(text) \cap (1..n)
  BY <1>0, <1>3 DEF H
<1>6. TopLevelKeywords(text) = st(n).found
  BY StateSteps
<1> HIDE DEF st
<1>7. TopLevelKeywords(text) = Top(text)
  BY <1>4, <1>5, <1>6
<1> QED
  BY <1>5, <1>7 DEF st

-----------------------------------------------------------------------------
(* What one mark does to the scanner.                                      *)
In(text, i, mode, depth) ==
  StateAt(text, i).mode = mode /\ StateAt(text, i).skip = FALSE /\ StateAt(text, i).depth = depth
Skipping(text, i, mode, depth) ==
  StateAt(text, i).mode = mode /\ StateAt(text, i).skip = TRUE /\ StateAt(text, i).depth = depth
Special == Quotes \cup {"[", "(", ")", "-", "/"}

(* A text has a length, and its marks are elements.                        *)
LEMMA TextFacts ==
  ASSUME NEW text \in Text
  PROVE  /\ Len(text) \in Nat /\ DOMAIN text = 1..Len(text)
         /\ \A i \in 1..Len(text) : text[i] \in Elements
BY LenProperties, ElementOfSeq DEF Text

(* Outside of quotes and comments,                                         *)
LEMMA CodeSteps ==
  ASSUME NEW text \in Text, NEW i \in 1..Len(text), NEW k \in Nat,
         In(text, i - 1, "code", k), NEW c, c = text[i]
  PROVE  /\ c \notin Special => In(text, i, "code", k)
         /\ c = "(" => In(text, i, "code", k + 1)
         /\ c = ")" => In(text, i, "code", IF k = 0 THEN 0 ELSE k - 1)
         /\ c \in Quotes \cup {"["} => In(text, i, c, k)
         /\ c = "-" /\ After(text, i) = "-" => Skipping(text, i, "line", k)
         /\ c = "/" /\ After(text, i) = "*" => Skipping(text, i, "block", k)
<1> DEFINE s == StateAt(text, i - 1)
           t == StateAt(text, i)
<1>1. s \in States /\ Len(text) \in Nat
  BY TextFacts, FoundIsTop
<1>2. t = Advance(s, c, After(text, i), i)
  BY <1>1, StateSteps
<1>3. s.mode = "code" /\ s.skip = FALSE /\ s.depth = k
  BY DEF In
<1> HIDE DEF s, t
<1>4. t = InCode(s, c, After(text, i), i)
  BY <1>2, <1>3 DEF Advance
<1>5. /\ c \notin Special => t = IF c \in Words /\ k = 0 THEN [s EXCEPT !.found = @ \cup {i}] ELSE s
      /\ c = "(" => t = [s EXCEPT !.depth = k + 1]
      /\ c = ")" => t = [s EXCEPT !.depth = IF k = 0 THEN 0 ELSE k - 1]
      /\ c \in Quotes \cup {"["} => t = [s EXCEPT !.mode = c]
      /\ c = "-" /\ After(text, i) = "-" => t = [s EXCEPT !.mode = "line", !.skip = TRUE]
      /\ c = "/" /\ After(text, i) = "*" => t = [s EXCEPT !.mode = "block", !.skip = TRUE]
  BY <1>3, <1>4 DEF InCode, StartsLineComment, Special, Words, Algorithms, Quotes
<1>6. c \notin Special => t.mode = "code" /\ t.skip = FALSE /\ t.depth = k
  BY <1>1, <1>3, <1>5 DEF States
<1>7. /\ c = "(" => t.mode = "code" /\ t.skip = FALSE /\ t.depth = k + 1
      /\ c = ")" => t.mode = "code" /\ t.skip = FALSE /\ t.depth = IF k = 0 THEN 0 ELSE k - 1
  BY <1>1, <1>3, <1>5 DEF States
<1>8. c \in Quotes \cup {"["} => t.mode = c /\ t.skip = FALSE /\ t.depth = k
  BY <1>1, <1>3, <1>5 DEF States
<1>9. /\ c = "-" /\ After(text, i) = "-" => t.mode = "line" /\ t.skip = TRUE /\ t.depth = k
      /\ c = "/" /\ After(text, i) = "*" => t.mode = "block" /\ t.skip = TRUE /\ t.depth = k
  <2>1. CASE c = "-" /\ After(text, i) = "-"
    <3>1. t = [s EXCEPT !.mode = "line", !.skip = TRUE]
      BY <1>5, <2>1
    <3> QED
      BY <1>1, <1>3, <2>1, <3>1 DEF States
  <2>2. CASE c = "/" /\ After(text, i) = "*"
    <3>1. t = [s EXCEPT !.mode = "block", !.skip = TRUE]
      BY <1>5, <2>2
    <3> QED
      BY <1>1, <1>3, <2>2, <3>1 DEF States
  <2> QED
    BY <2>1, <2>2
<1> QED
  BY <1>6, <1>7, <1>8, <1>9 DEF In, Skipping, t

(* and inside of them.                                                     *)
LEMMA OtherSteps ==
  ASSUME NEW text \in Text, NEW i \in 1..Len(text), NEW k \in Nat, NEW m \in Modes,
         In(text, i - 1, m, k) \/ Skipping(text, i - 1, m, k), NEW c, c = text[i]
  PROVE  /\ Skipping(text, i - 1, m, k) => In(text, i, m, k)
         /\ In(text, i - 1, m, k) /\ m = "line" => In(text, i, IF c = "nl" THEN "code" ELSE "line", k)
         /\ In(text, i - 1, m, k) /\ m = "block" =>
              IF c = "*" /\ After(text, i) = "/" THEN Skipping(text, i, "code", k)
              ELSE In(text, i, "block", k)
         /\ In(text, i - 1, m, k) /\ m = "[" => In(text, i, IF c = "]" THEN "code" ELSE "[", k)
         /\ In(text, i - 1, m, k) /\ m \in Quotes =>
              /\ c # m => In(text, i, m, k)
              /\ c = m /\ After(text, i) = m => Skipping(text, i, m, k)
              /\ c = m /\ After(text, i) # m => In(text, i, "code", k)
<1> DEFINE s == StateAt(text, i - 1)
           t == StateAt(text, i)
           skip == s.skip
<1>1. s \in States /\ Len(text) \in Nat
  BY TextFacts, FoundIsTop
<1>2. t = Advance(s, c, After(text, i), i)
  BY <1>1, StateSteps
<1>3. s.mode = m /\ s.depth = k /\ skip \in BOOLEAN
      /\ (skip <=> Skipping(text, i - 1, m, k)) /\ (~skip <=> In(text, i - 1, m, k))
  BY <1>1 DEF In, Skipping, States
<1> HIDE DEF s, t
<1>4. /\ skip => t = [s EXCEPT !.skip = FALSE]
      /\ ~skip /\ m = "line" => t = IF c = "nl" THEN [s EXCEPT !.mode = "code"] ELSE s
      /\ ~skip /\ m = "block" => t = IF c = "*" /\ After(text, i) = "/"
                                     THEN [s EXCEPT !.mode = "code", !.skip = TRUE] ELSE s
      /\ ~skip /\ m = "[" => t = IF c = "]" THEN [s EXCEPT !.mode = "code"] ELSE s
  BY <1>2, <1>3 DEF Advance, InQuotes
<1>5. ~skip /\ m \in Quotes =>
        /\ c # m => t = s
        /\ c = m /\ After(text, i) = m => t = [s EXCEPT !.skip = TRUE]
        /\ c = m /\ After(text, i) # m => t = [s EXCEPT !.mode = "code"]
  BY <1>2, <1>3 DEF Advance, InQuotes, Quotes
<1>6. skip => t.mode = m /\ t.skip = FALSE /\ t.depth = k
  BY <1>1, <1>3, <1>4 DEF States
<1>7. ~skip /\ m = "line" =>
        t.mode = (IF c = "nl" THEN "code" ELSE "line") /\ t.skip = FALSE /\ t.depth = k
  BY <1>1, <1>3, <1>4 DEF States
<1>8. ~skip /\ m = "block" =>
        IF c = "*" /\ After(text, i) = "/" THEN t.mode = "code" /\ t.skip = TRUE /\ t.depth = k
        ELSE t.mode = "block" /\ t.skip = FALSE /\ t.depth = k
  BY <1>1, <1>3, <1>4 DEF States
<1>9. ~skip /\ m = "[" =>
        t.mode = (IF c = "]" THEN "code" ELSE "[") /\ t.skip = FALSE /\ t.depth = k
  BY <1>1, <1>3, <1>4 DEF States
<1>10. ~skip /\ m \in Quotes =>
         /\ c # m => t.mode = m /\ t.skip = FALSE /\ t.depth = k
         /\ c = m /\ After(text, i) = m => t.mode = m /\ t.skip = TRUE /\ t.depth = k
         /\ c = m /\ After(text, i) # m => t.mode = "code" /\ t.skip = FALSE /\ t.depth = k
  BY <1>1, <1>3, <1>5 DEF States
<1> QED
  BY <1>3, <1>6, <1>7, <1>8, <1>9, <1>10 DEF In, Skipping, t

-----------------------------------------------------------------------------
(* A piece of text the scanner passes: it comes out of it as it went in,   *)
(* wherever the piece stands, if the mark behind it is not one of ends;    *)
(* and the words that matter are found in it at the places keys, unless it *)
(* stands in parentheses.                                                  *)
Keys == {"INSERT", "UPDATE", "REPLACE", "ON"}
KeyAt(text, i) == i \in Top(text) /\ text[i] \in Keys
Placed(p, text, a) ==
  a + Len(p) <= Len(text) /\ \A j \in 1..Len(p) : text[a + j] = p[j]
Passes(p, ends, keys) ==
  \A text \in Text : \A a \in 0..Len(text), k \in Nat :
    Placed(p, text, a) /\ In(text, a, "code", k) /\ After(text, a + Len(p)) \notin ends =>
      /\ In(text, a + Len(p), "code", k)
      /\ \A j \in 1..Len(p) : KeyAt(text, a + j) <=> k = 0 /\ j \in keys

(* Where the scanner is free, and where it is not.                         *)
LEMMA KeyWhenFree ==
  ASSUME NEW text \in Text, NEW i \in 1..Len(text), NEW k \in Nat,
         In(text, i - 1, "code", k)
  PROVE  KeyAt(text, i) <=> k = 0 /\ text[i] \in Keys
<1>1. Keys \subseteq Words
  BY DEF Keys, Words, Algorithms
<1> QED
  BY <1>1 DEF KeyAt, Top, In, Skipping, Free

(* A word inside quotes or a comment, or one that is skipped, is not       *)
(* found.                                                                  *)
LEMMA NoKeyInside ==
  ASSUME NEW text \in Text, NEW i \in 1..Len(text), NEW m, NEW k,
         Skipping(text, i - 1, m, k) \/ (In(text, i - 1, m, k) /\ m # "code")
  PROVE  ~KeyAt(text, i)
BY DEF KeyAt, Top, In, Skipping, Free

(* Nothing is passed.                                                      *)
LEMMA PassEmpty == Passes(<<>>, {}, {})
<1> SUFFICES ASSUME NEW text \in Text, NEW a \in 0..Len(text), NEW k \in Nat,
                    In(text, a, "code", k)
             PROVE  /\ In(text, a + Len(<<>>), "code", k)
                    /\ \A j \in 1..Len(<<>>) : KeyAt(text, a + j) <=> k = 0 /\ j \in {}
  BY DEF Passes
<1>1. Len(<<>>) = 0 /\ a + 0 = a
  BY EmptySeq
<1> QED
  BY <1>1

(* Words and marks that the scanner has no rule for.                       *)
LEMMA PassPlain ==
  ASSUME NEW p \in Text, \A j \in 1..Len(p) : p[j] \notin Special
  PROVE  Passes(p, {}, {j \in 1..Len(p) : p[j] \in Keys})
<1> SUFFICES ASSUME NEW text \in Text, NEW a \in 0..Len(text), NEW k \in Nat,
                    Placed(p, text, a), In(text, a, "code", k)
             PROVE  /\ In(text, a + Len(p), "code", k)
                    /\ \A j \in 1..Len(p) : KeyAt(text, a + j) <=> k = 0 /\ p[j] \in Keys
  BY DEF Passes
<1> DEFINE n == Len(p)
           H == {j \in 0..n : In(text, a + j, "code", k)}
<1>1. n \in Nat /\ Len(text) \in Nat
  BY TextFacts
<1>2. 0 \in H
  BY <1>1
<1>3. ASSUME NEW j \in 0..n, j < n, j \in H PROVE j + 1 \in H
  <2>1. a + (j + 1) \in 1..Len(text) /\ (a + (j + 1)) - 1 = a + j /\ j + 1 \in 1..n
    BY <1>1, <1>3 DEF Placed
  <2>2. text[a + (j + 1)] = p[j + 1] /\ p[j + 1] \notin Special
    BY <2>1 DEF Placed
  <2>3. In(text, (a + (j + 1)) - 1, "code", k)
    BY <1>3, <2>1
  <2>4. In(text, a + (j + 1), "code", k)
    BY <2>1, <2>2, <2>3, CodeSteps
  <2> QED
    BY <2>1, <2>4
<1> HIDE DEF n
<1>4. \A j \in 0..n : j \in H
  <2> HIDE DEF H
  <2> QED
    BY <1>1, <1>2, <1>3, Induction
<1>5. ASSUME NEW j \in 1..n PROVE KeyAt(text, a + j) <=> k = 0 /\ p[j] \in Keys
  <2>1. j - 1 \in 0..n /\ a + j \in 1..Len(text) /\ (a + j) - 1 = a + (j - 1)
    BY <1>1, <1>5 DEF Placed, n
  <2>2. In(text, (a + j) - 1, "code", k)
    BY <1>4, <2>1
  <2>3. text[a + j] = p[j]
    BY <1>5 DEF Placed, n
  <2> QED
    BY <2>1, <2>2, <2>3, KeyWhenFree
<1>6. In(text, a + n, "code", k)
  BY <1>1, <1>4
<1> QED
  BY <1>5, <1>6 DEF n

(* A place of a concatenation is one of its parts.                         *)
LEMMA PlacedConcat ==
  ASSUME NEW p \in Text, NEW q \in Text, NEW text \in Text, NEW a \in 0..Len(text),
         Placed(p \o q, text, a)
  PROVE  /\ Placed(p, text, a) /\ Placed(q, text, a + Len(p)) /\ a + Len(p) \in 0..Len(text)
         /\ Len(p \o q) = Len(p) + Len(q)
         /\ q # <<>> => After(text, a + Len(p)) = q[1]
         /\ q = <<>> => After(text, a + Len(p)) = After(text, a + Len(p \o q))
<1>1. /\ Len(p) \in Nat /\ Len(q) \in Nat /\ Len(text) \in Nat
  BY TextFacts
<1>2. /\ Len(p \o q) = Len(p) + Len(q)
      /\ \A i \in 1..(Len(p) + Len(q)) : (p \o q)[i] = IF i <= Len(p) THEN p[i] ELSE q[i - Len(p)]
  BY ConcatProperties DEF Text
<1>3. /\ a + (Len(p) + Len(q)) <= Len(text)
      /\ \A j \in 1..(Len(p) + Len(q)) : text[a + j] = (p \o q)[j]
  BY <1>2 DEF Placed
<1>4. Placed(p, text, a)
  BY <1>1, <1>2, <1>3 DEF Placed
<1>5. ASSUME NEW j \in 1..Len(q) PROVE text[(a + Len(p)) + j] = q[j]
  <2>1. /\ Len(p) + j \in 1..(Len(p) + Len(q)) /\ ~(Len(p) + j <= Len(p))
        /\ (Len(p) + j) - Len(p) = j /\ a + (Len(p) + j) = (a + Len(p)) + j
    BY <1>1, <1>5
  <2> QED
    BY <1>2, <1>3, <2>1
<1>6. a + Len(p) \in 0..Len(text) /\ (a + Len(p)) + Len(q) <= Len(text)
  BY <1>1, <1>3
<1>7. /\ q # <<>> => After(text, a + Len(p)) = q[1]
      /\ q = <<>> => After(text, a + Len(p)) = After(text, a + Len(p \o q))
  <2>1. CASE q = <<>>
    <3>1. Len(q) = 0
      BY <2>1, EmptySeq
    <3> QED
      BY <1>1, <1>2, <2>1, <3>1
  <2>2. CASE q # <<>>
    <3>1. Len(q) \in Nat \ {0}
      BY <2>2, EmptySeq DEF Text
    <3>2. 1 \in 1..Len(q) /\ a + Len(p) < Len(text)
      BY <1>1, <1>3, <3>1
    <3> QED
      BY <1>5, <2>2, <3>2 DEF After
  <2> QED
    BY <2>1, <2>2
<1> QED
  BY <1>2, <1>4, <1>5, <1>6, <1>7 DEF Placed

(* Two pieces in a row.                                                    *)
LEMMA PassConcat ==
  ASSUME NEW p \in Text, NEW q \in Text, NEW ends1, NEW ends2, NEW keys1, NEW keys2,
         Passes(p, ends1, keys1), Passes(q, ends2, keys2), keys2 \subseteq Nat \ {0},
         keys1 \subseteq 1..Len(p),
         IF q = <<>> THEN ends1 \subseteq ends2 ELSE q[1] \notin ends1
  PROVE  Passes(p \o q, ends2, keys1 \cup {Len(p) + j : j \in keys2})
<1> DEFINE n == Len(p)
           keys == keys1 \cup {n + j : j \in keys2}
<1> SUFFICES ASSUME NEW text \in Text, NEW a \in 0..Len(text), NEW k \in Nat,
                    Placed(p \o q, text, a), In(text, a, "code", k),
                    After(text, a + Len(p \o q)) \notin ends2
             PROVE  /\ In(text, a + Len(p \o q), "code", k)
                    /\ \A j \in 1..Len(p \o q) : KeyAt(text, a + j) <=> k = 0 /\ j \in keys
  BY DEF Passes
<1>1. /\ Placed(p, text, a) /\ Placed(q, text, a + n) /\ a + n \in 0..Len(text)
      /\ Len(p \o q) = n + Len(q)
      /\ q # <<>> => After(text, a + n) = q[1]
      /\ q = <<>> => After(text, a + n) = After(text, a + Len(p \o q))
  BY PlacedConcat
<1>2. n \in Nat /\ Len(q) \in Nat
  BY TextFacts
<1> HIDE DEF n
<1>3. a + Len(p \o q) = (a + n) + Len(q)
  BY <1>1, <1>2
<1>4. After(text, a + n) \notin ends1
  BY <1>1
<1>5. /\ In(text, a + n, "code", k)
      /\ \A j \in 1..n : KeyAt(text, a + j) <=> k = 0 /\ j \in keys1
  BY <1>1, <1>4 DEF Passes, n
<1>6. /\ In(text, (a + n) + Len(q), "code", k)
      /\ \A j \in 1..Len(q) : KeyAt(text, (a + n) + j) <=> k = 0 /\ j \in keys2
  BY <1>1, <1>3, <1>5 DEF Passes
<1>7. ASSUME NEW j \in 1..(n + Len(q)) PROVE KeyAt(text, a + j) <=> k = 0 /\ j \in keys
  <2>1. CASE j <= n
    <3>1. j \in 1..n /\ \A i \in keys2 : n + i # j
      BY <1>2, <2>1
    <3> QED
      BY <1>5, <3>1
  <2>2. CASE ~(j <= n)
    <3>1. /\ j - n \in 1..Len(q) /\ (a + n) + (j - n) = a + j /\ j \notin keys1
      BY <1>2, <2>2 DEF n
    <3>2. j - n \in keys2 <=> j \in {n + i : i \in keys2}
      <4>1. n + (j - n) = j /\ \A i \in keys2 : n + i = j => i = j - n
        BY <1>2
      <4> QED
        BY <4>1
    <3> QED
      BY <1>6, <3>1, <3>2
  <2> QED
    BY <2>1, <2>2
<1> QED
  BY <1>1, <1>3, <1>6, <1>7

(* Parentheses around a piece hide the words in it.                        *)
LEMMA OneMark ==
  ASSUME NEW e \in Elements
  PROVE  <<e>> \in Text /\ Len(<<e>>) = 1 /\ <<e>>[1] = e /\ <<e>> # <<>>
<1>1. <<e>> \in Seq(Elements) /\ Len(<<e>>) = 1 /\ <<e>>[1] = e
  OBVIOUS
<1>2. <<e>> # <<>>
  OBVIOUS
<1> QED
  BY <1>1, <1>2 DEF Text

(* What a text is made of.                                                 *)
LEMMA MarksAreElements ==
  /\ Marks \subseteq Elements /\ Words \subseteq Elements /\ ToSet(Fresh) \subseteq Elements
  /\ "1" \in Elements /\ "then" \in Elements
BY DEF Elements

(* A piece in parentheses is passed and hides its words.                   *)
LEMMA PassGroup ==
  ASSUME NEW p \in Text, NEW ends, NEW keys, Passes(p, ends, keys), ")" \notin ends
  PROVE  Passes(<<"(">> \o p \o <<")">>, {}, {})
<1> DEFINE open == <<"(">>
           close == <<")">>
           n == Len(p)
<1>1. /\ open \in Text /\ close \in Text /\ Len(open) = 1 /\ Len(close) = 1
      /\ open[1] = "(" /\ close[1] = ")" /\ close # <<>>
  BY OneMark, MarksAreElements DEF Marks
<1>2. open \o p \in Text /\ Len(open \o p) = 1 + n /\ n \in Nat
  BY <1>1, TextFacts, ConcatProperties DEF Text
<1> HIDE DEF open, close, n
<1> SUFFICES ASSUME NEW text \in Text, NEW a \in 0..Len(text), NEW k \in Nat,
                    Placed((open \o p) \o close, text, a), In(text, a, "code", k)
             PROVE  /\ In(text, a + Len((open \o p) \o close), "code", k)
                    /\ \A j \in 1..Len((open \o p) \o close) : ~KeyAt(text, a + j)
  BY DEF Passes, open, close
<1>3. /\ Placed(open \o p, text, a) /\ Placed(close, text, a + (1 + n))
      /\ Len((open \o p) \o close) = (1 + n) + 1
      /\ After(text, a + (1 + n)) = ")"
  <2> DEFINE q == open \o p
  <2>1. q \in Text /\ Len(q) = 1 + n /\ Placed(q \o close, text, a)
    BY <1>2
  <2> HIDE DEF q
  <2>2. /\ Placed(q, text, a) /\ Placed(close, text, a + Len(q))
        /\ Len(q \o close) = Len(q) + Len(close)
    <3>1. close \in Text
      BY <1>1
    <3> QED
      BY <2>1, <3>1, PlacedConcat
  <2>3. After(text, a + Len(q)) = ")"
    <3>1. Len(q) \in Nat /\ Len(text) \in Nat
      BY <2>1, TextFacts
    <3>2. (a + Len(q)) + 1 <= Len(text) /\ text[(a + Len(q)) + 1] = ")"
      BY <1>1, <2>2 DEF Placed
    <3> QED
      BY <3>1, <3>2 DEF After
  <2> QED
    BY <1>1, <2>1, <2>2, <2>3 DEF q
<1>4. /\ Placed(open, text, a) /\ Placed(p, text, a + 1) /\ a + 1 \in 0..Len(text)
  BY <1>1, <1>2, <1>3, PlacedConcat
<1>5. a + 1 \in 1..Len(text) /\ (a + 1) - 1 = a /\ text[a + 1] = "("
  BY <1>1, <1>4 DEF Placed
<1>6. In(text, a + 1, "code", k + 1)
  BY <1>5, CodeSteps
<1>7. (a + 1) + n = a + (1 + n) /\ k + 1 \in Nat /\ k + 1 # 0 /\ (k + 1) - 1 = k
  BY <1>2
<1>8. /\ In(text, a + (1 + n), "code", k + 1)
      /\ \A j \in 1..n : ~KeyAt(text, (a + 1) + j)
  <2>1. After(text, (a + 1) + n) \notin ends
    BY <1>3, <1>7
  <2> QED
    BY <1>4, <1>6, <1>7, <2>1 DEF Passes, n
<1> DEFINE z == a + ((1 + n) + 1)
<1>9. z \in 1..Len(text) /\ z - 1 = a + (1 + n) /\ text[z] = ")"
  <2>1. Len(text) \in Nat
    BY TextFacts
  <2>2. (a + (1 + n)) + 1 = z /\ 1 \in 1..1
    BY <1>2
  <2> HIDE DEF z
  <2>3. z <= Len(text) /\ text[z] = ")"
    BY <1>1, <1>3, <2>2 DEF Placed
  <2> QED
    BY <1>2, <2>1, <2>3 DEF z
<1> HIDE DEF z
<1>10. In(text, z, "code", k)
  <2>1. In(text, z - 1, "code", k + 1)
    BY <1>8, <1>9
  <2>2. In(text, z, "code", IF k + 1 = 0 THEN 0 ELSE (k + 1) - 1)
    BY <1>7, <1>9, <2>1, CodeSteps
  <2> QED
    BY <1>7, <2>2
<1>11. ASSUME NEW j \in 1..((1 + n) + 1) PROVE ~KeyAt(text, a + j)
  <2>0. "(" \notin Keys /\ ")" \notin Keys
    BY DEF Keys
  <2>1. CASE j = 1
    BY <1>5, <2>0, <2>1 DEF KeyAt
  <2>2. CASE j = (1 + n) + 1
    BY <1>9, <2>0, <2>2 DEF KeyAt, z
  <2>3. CASE j # 1 /\ j # (1 + n) + 1
    <3>1. j - 1 \in 1..n /\ (a + 1) + (j - 1) = a + j
      BY <1>2, <2>3
    <3> QED
      BY <1>8, <3>1
  <2> QED
    BY <2>1, <2>2, <2>3
<1> QED
  BY <1>3, <1>10, <1>11 DEF z

(* A string or a quoted name, unless a quote follows it.                   *)
LEMMA PassQuoted ==
  ASSUME NEW p \in Text, Quoted(p)
  PROVE  Passes(p, Quotes, {})
<1> SUFFICES ASSUME NEW text \in Text, NEW a \in 0..Len(text), NEW k \in Nat,
                    Placed(p, text, a), In(text, a, "code", k),
                    After(text, a + Len(p)) \notin Quotes
             PROVE  /\ In(text, a + Len(p), "code", k)
                    /\ \A j \in 1..Len(p) : ~KeyAt(text, a + j)
  BY DEF Passes
<1> DEFINE n == Len(p)
<1>1. PICK q \in Quotes :
        /\ n >= 2 /\ p[1] = q /\ p[n] = q
        /\ \E pairs \in SUBSET {i \in 2 .. n - 2 : p[i] = q /\ p[i + 1] = q} :
               \A i \in 2 .. n - 1 :
                   /\ p[i] = q <=> (i \in pairs \/ i - 1 \in pairs)
                   /\ ~(i \in pairs /\ i - 1 \in pairs)
  BY DEF Quoted
<1>2. PICK pairs \in SUBSET {i \in 2 .. n - 2 : p[i] = q /\ p[i + 1] = q} :
               \A i \in 2 .. n - 1 :
                   /\ p[i] = q <=> (i \in pairs \/ i - 1 \in pairs)
                   /\ ~(i \in pairs /\ i - 1 \in pairs)
  BY <1>1
<1>3. /\ n \in Nat /\ Len(text) \in Nat /\ q \in Modes /\ q # "code" /\ q \notin Keys
      /\ a + n <= Len(text) /\ \A j \in 1..n : text[a + j] = p[j]
  BY TextFacts DEF Placed, Modes, Quotes, Keys
<1> HIDE DEF n
<1> DEFINE in(j) == IF j \in pairs THEN Skipping(text, a + j, q, k) ELSE In(text, a + j, q, k)
           H == {j \in 0..(n - 2) : in(j + 1)}
<1>4. 0 \in H
  <2>1. a + 1 \in 1..Len(text) /\ (a + 1) - 1 = a /\ text[a + 1] = q /\ 1 \notin pairs
    BY <1>1, <1>2, <1>3
  <2>2. In(text, a + 1, q, k)
    BY <2>1, CodeSteps
  <2>3. in(1)
    BY <2>1, <2>2
  <2> HIDE DEF in
  <2> QED
    BY <1>1, <1>3, <2>3
<1>5. ASSUME NEW j \in 0..(n - 2), j < n - 2, j \in H PROVE j + 1 \in H
  <2> DEFINE i == j + 2
             y == a + i
  <2>1. /\ i \in 2..(n - 1) /\ i \in 1..n /\ i - 1 = j + 1 /\ i + 1 \in 1..n
        /\ y \in 1..Len(text) /\ y - 1 = a + (j + 1) /\ y + 1 = a + (i + 1) /\ y < Len(text)
    BY <1>1, <1>3, <1>5
  <2>2. in(j + 1)
    BY <1>5
  <2>3. text[y] = p[i] /\ After(text, y) = p[i + 1]
    <3> HIDE DEF i
    <3>1. text[y] = p[i] /\ text[a + (i + 1)] = p[i + 1]
      BY <1>3, <2>1
    <3> HIDE DEF y
    <3> QED
      BY <2>1, <3>1 DEF After
  <2>4. IF i - 1 \in pairs THEN Skipping(text, y - 1, q, k) ELSE In(text, y - 1, q, k)
    BY <2>1, <2>2
  <2>5. IF i \in pairs THEN Skipping(text, y, q, k) ELSE In(text, y, q, k)
    <3> HIDE DEF i, y, in
    <3>1. CASE i - 1 \in pairs
      <4>1. i \notin pairs
        BY <1>2, <2>1, <3>1
      <4>2. In(text, y, q, k)
        BY <1>3, <2>1, <2>4, <3>1, OtherSteps
      <4> QED
        BY <4>1, <4>2
    <3>2. CASE i - 1 \notin pairs /\ i \in pairs
      <4>1. p[i] = q /\ p[i + 1] = q
        BY <1>2, <3>2
      <4>2. Skipping(text, y, q, k)
        BY <1>3, <2>1, <2>3, <2>4, <3>2, <4>1, OtherSteps
      <4> QED
        BY <3>2, <4>2
    <3>3. CASE i - 1 \notin pairs /\ i \notin pairs
      <4>1. p[i] # q
        BY <1>2, <2>1, <3>3
      <4>2. In(text, y, q, k)
        BY <1>3, <2>1, <2>3, <2>4, <3>3, <4>1, OtherSteps
      <4> QED
        BY <3>3, <4>2
    <3> QED
      BY <3>1, <3>2, <3>3
  <2>6. in((j + 1) + 1)
    <3>1. (j + 1) + 1 = i
      BY <1>5
    <3> QED
      BY <2>5, <3>1
  <2>7. j + 1 \in 0..(n - 2)
    BY <1>3, <1>5
  <2> HIDE DEF in
  <2> QED
    BY <2>6, <2>7
<1>6. \A j \in 0..(n - 2) : j \in H
  <2>1. n - 2 \in Nat
    BY <1>1, <1>3
  <2> HIDE DEF H
  <2> QED
    BY <1>4, <1>5, <2>1, Induction
<1>7. \A j \in 1..(n - 1) : in(j)
  <2> SUFFICES ASSUME NEW j \in 1..(n - 1) PROVE in(j)
    OBVIOUS
  <2>1. j - 1 \in 0..(n - 2) /\ (j - 1) + 1 = j
    BY <1>1, <1>3
  <2> HIDE DEF in
  <2> QED
    BY <1>6, <2>1
<1>8. In(text, a + n, "code", k)
  <2> DEFINE y == a + n
  <2>1. /\ n - 1 \in 1..(n - 1) /\ n - 1 \notin pairs /\ y \in 1..Len(text) /\ y - 1 = a + (n - 1)
        /\ text[y] = q
    BY <1>1, <1>2, <1>3
  <2>2. In(text, y - 1, q, k)
    BY <1>7, <2>1
  <2>3. After(text, y) # q
    BY DEF n
  <2> HIDE DEF y
  <2>4. In(text, y, "code", k)
    BY <1>3, <2>1, <2>2, <2>3, OtherSteps
  <2> QED
    BY <2>4 DEF y
<1>9. ASSUME NEW j \in 1..n PROVE ~KeyAt(text, a + j)
  <2>1. CASE j = 1
    BY <1>1, <1>3, <2>1 DEF KeyAt
  <2>2. CASE j # 1
    <3>1. j - 1 \in 1..(n - 1) /\ a + j \in 1..Len(text) /\ (a + j) - 1 = a + (j - 1)
      BY <1>3, <2>2
    <3>2. Skipping(text, (a + j) - 1, q, k) \/ In(text, (a + j) - 1, q, k)
      BY <1>7, <3>1
    <3> QED
      BY <1>3, <3>1, <3>2, NoKeyInside
  <2> QED
    BY <2>1, <2>2
<1> QED
  BY <1>8, <1>9 DEF n

(* A quoted name in brackets, a comment: inside them the mode stays.       *)
LEMMA Stays ==
  ASSUME NEW text \in Text, NEW b \in 0..Len(text), NEW e \in b..Len(text), NEW m, m # "code",
         NEW k, In(text, b, m, k),
         \A i \in (b + 1)..e : In(text, i - 1, m, k) => In(text, i, m, k)
  PROVE  /\ In(text, e, m, k)
         /\ \A i \in (b + 1)..e : ~KeyAt(text, i)
<1> DEFINE n == e - b
           H == {j \in 0..n : In(text, b + j, m, k)}
<1>1. n \in Nat /\ Len(text) \in Nat
  BY TextFacts
<1>2. 0 \in H
  <2>1. b + 0 = b
    OBVIOUS
  <2> QED
    BY <1>1, <2>1
<1>3. ASSUME NEW j \in 0..n, j < n, j \in H PROVE j + 1 \in H
  <2> DEFINE i == b + (j + 1)
  <2>1. i \in (b + 1)..e /\ i - 1 = b + j /\ j + 1 \in 0..n
    BY <1>1, <1>3
  <2>2. In(text, i - 1, m, k)
    BY <1>3, <2>1
  <2> HIDE DEF i
  <2>3. In(text, i, m, k)
    BY <2>1, <2>2
  <2> QED
    BY <2>1, <2>3 DEF i
<1>4. \A j \in 0..n : j \in H
  <2> HIDE DEF H, n
  <2> QED
    BY <1>1, <1>2, <1>3, Induction
<1>5. \A i \in b..e : In(text, i, m, k)
  <2> SUFFICES ASSUME NEW i \in b..e PROVE In(text, i, m, k)
    OBVIOUS
  <2>1. i - b \in 0..n /\ b + (i - b) = i
    BY <1>1
  <2>2. In(text, b + (i - b), m, k)
    BY <1>4, <2>1
  <2> QED
    BY <2>1, <2>2
<1>6. ASSUME NEW i \in (b + 1)..e PROVE ~KeyAt(text, i)
  <2>1. i - 1 \in b..e /\ i \in 1..Len(text)
    BY <1>1, <1>6
  <2>2. In(text, i - 1, m, k)
    BY <1>5, <2>1
  <2> QED
    BY <2>1, <2>2, NoKeyInside
<1> QED
  BY <1>1, <1>5, <1>6

(* A name in brackets is passed and hides its words.                       *)
LEMMA PassBracketed ==
  ASSUME NEW p \in Text, Bracketed(p)
  PROVE  Passes(p, {}, {})
<1> SUFFICES ASSUME NEW text \in Text, NEW a \in 0..Len(text), NEW k \in Nat,
                    Placed(p, text, a), In(text, a, "code", k)
             PROVE  /\ In(text, a + Len(p), "code", k)
                    /\ \A j \in 1..Len(p) : ~KeyAt(text, a + j)
  BY DEF Passes
<1> DEFINE n == Len(p)
           e == a + (n - 1)
<1>1. /\ n >= 2 /\ p[1] = "[" /\ p[n] = "]"
      /\ \A i \in 2 .. n - 1 : p[i] # "]"
  BY DEF Bracketed
<1>2. /\ n \in Nat /\ Len(text) \in Nat
      /\ a + n <= Len(text) /\ \A j \in 1..n : text[a + j] = p[j]
  BY TextFacts DEF Placed
<1>3. "[" \in Modes /\ "[" # "code" /\ "[" \notin Keys
  BY DEF Modes, Keys
<1> HIDE DEF n
<1>4. /\ a + 1 \in 1..Len(text) /\ (a + 1) - 1 = a /\ text[a + 1] = "["
      /\ e \in 1..Len(text) /\ e + 1 \in 1..Len(text) /\ (e + 1) - 1 = e /\ e + 1 = a + n
      /\ text[e + 1] = "]" /\ e \in (a + 1)..Len(text) /\ a + 1 \in 0..Len(text)
  BY <1>1, <1>2
<1>5. In(text, a + 1, "[", k)
  BY <1>4, CodeSteps
<1>6. ASSUME NEW i \in ((a + 1) + 1)..e, In(text, i - 1, "[", k) PROVE In(text, i, "[", k)
  <2>1. i - a \in 2..(n - 1) /\ i - a \in 1..n /\ a + (i - a) = i /\ i \in 1..Len(text)
    BY <1>2, <1>6
  <2>2. text[i] # "]"
    BY <1>1, <1>2, <2>1
  <2>3. In(text, i, IF text[i] = "]" THEN "code" ELSE "[", k)
    BY <1>3, <1>6, <2>1, OtherSteps
  <2> QED
    BY <2>2, <2>3
<1> HIDE DEF e
<1>7. /\ In(text, e, "[", k)
      /\ \A i \in ((a + 1) + 1)..e : ~KeyAt(text, i)
  BY <1>3, <1>4, <1>5, <1>6, Stays
<1>8. In(text, e + 1, "code", k)
  <2>1. In(text, (e + 1) - 1, "[", k)
    BY <1>4, <1>7
  <2>2. In(text, e + 1, IF text[e + 1] = "]" THEN "code" ELSE "[", k)
    BY <1>3, <1>4, <2>1, OtherSteps
  <2> QED
    BY <1>4, <2>2
<1>9. ASSUME NEW j \in 1..n PROVE ~KeyAt(text, a + j)
  <2>0. "]" \notin Keys
    BY DEF Keys
  <2>1. CASE j = 1
    BY <1>3, <1>4, <2>1 DEF KeyAt
  <2>2. CASE j = n
    BY <1>4, <2>0, <2>2 DEF KeyAt
  <2>3. CASE j # 1 /\ j # n
    <3>1. a + j \in ((a + 1) + 1)..e
      BY <1>2, <2>3 DEF e
    <3> QED
      BY <1>7, <3>1
  <2> QED
    BY <2>1, <2>2, <2>3
<1> QED
  BY <1>4, <1>8, <1>9 DEF n

(* A line comment is passed and hides its words.                           *)
LEMMA PassLineComment ==
  ASSUME NEW p \in Text, LineComment(p)
  PROVE  Passes(p, {}, {})
<1> SUFFICES ASSUME NEW text \in Text, NEW a \in 0..Len(text), NEW k \in Nat,
                    Placed(p, text, a), In(text, a, "code", k)
             PROVE  /\ In(text, a + Len(p), "code", k)
                    /\ \A j \in 1..Len(p) : ~KeyAt(text, a + j)
  BY DEF Passes
<1> DEFINE n == Len(p)
           e == a + (n - 1)
<1>1. /\ n >= 3 /\ p[1] = "-" /\ p[2] = "-" /\ p[n] = "nl"
      /\ \A i \in 3 .. n - 1 : p[i] # "nl"
  BY DEF LineComment
<1>2. /\ n \in Nat /\ Len(text) \in Nat
      /\ a + n <= Len(text) /\ \A j \in 1..n : text[a + j] = p[j]
  BY TextFacts DEF Placed
<1>3. "line" \in Modes /\ "line" # "code" /\ "-" \notin Keys /\ "nl" \notin Keys
  BY DEF Modes, Keys
<1> HIDE DEF n
<1>4. /\ a + 1 \in 1..Len(text) /\ (a + 1) - 1 = a /\ text[a + 1] = "-"
      /\ a + 2 \in 1..Len(text) /\ (a + 2) - 1 = a + 1 /\ text[a + 2] = "-"
      /\ e \in 1..Len(text) /\ e + 1 \in 1..Len(text) /\ (e + 1) - 1 = e /\ e + 1 = a + n
      /\ text[e + 1] = "nl" /\ e \in (a + 2)..Len(text) /\ a + 2 \in 0..Len(text)
  BY <1>1, <1>2
<1>5. Skipping(text, a + 1, "line", k)
  <2>1. After(text, a + 1) = "-"
    <3>1. (a + 1) + 1 = a + 2 /\ a + 1 < Len(text)
      BY <1>2, <1>4
    <3> QED
      BY <1>4, <3>1 DEF After
  <2> QED
    BY <1>4, <2>1, CodeSteps
<1>6. In(text, a + 2, "line", k)
  <2>1. Skipping(text, (a + 2) - 1, "line", k)
    BY <1>4, <1>5
  <2> QED
    BY <1>3, <1>4, <2>1, OtherSteps
<1>7. ASSUME NEW i \in ((a + 2) + 1)..e, In(text, i - 1, "line", k) PROVE In(text, i, "line", k)
  <2>1. i - a \in 3..(n - 1) /\ i - a \in 1..n /\ a + (i - a) = i /\ i \in 1..Len(text)
    BY <1>2, <1>7
  <2>2. text[i] # "nl"
    BY <1>1, <1>2, <2>1
  <2>3. In(text, i, IF text[i] = "nl" THEN "code" ELSE "line", k)
    BY <1>3, <1>7, <2>1, OtherSteps
  <2> QED
    BY <2>2, <2>3
<1> HIDE DEF e
<1>8. /\ In(text, e, "line", k)
      /\ \A i \in ((a + 2) + 1)..e : ~KeyAt(text, i)
  BY <1>3, <1>4, <1>6, <1>7, Stays
<1>9. In(text, e + 1, "code", k)
  <2>1. In(text, (e + 1) - 1, "line", k)
    BY <1>4, <1>8
  <2>2. In(text, e + 1, IF text[e + 1] = "nl" THEN "code" ELSE "line", k)
    BY <1>3, <1>4, <2>1, OtherSteps
  <2> QED
    BY <1>4, <2>2
<1>10. ASSUME NEW j \in 1..n PROVE ~KeyAt(text, a + j)
  <2>1. CASE j = 1 \/ j = 2
    BY <1>3, <1>4, <2>1 DEF KeyAt
  <2>2. CASE j = n
    BY <1>3, <1>4, <2>2 DEF KeyAt
  <2>3. CASE j # 1 /\ j # 2 /\ j # n
    <3>1. a + j \in ((a + 2) + 1)..e
      BY <1>2, <2>3 DEF e
    <3> QED
      BY <1>8, <3>1
  <2> QED
    BY <2>1, <2>2, <2>3
<1> QED
  BY <1>4, <1>9, <1>10 DEF n

(* A block comment is passed and hides its words.                          *)
LEMMA PassBlockComment ==
  ASSUME NEW p \in Text, BlockComment(p)
  PROVE  Passes(p, {}, {})
<1> SUFFICES ASSUME NEW text \in Text, NEW a \in 0..Len(text), NEW k \in Nat,
                    Placed(p, text, a), In(text, a, "code", k)
             PROVE  /\ In(text, a + Len(p), "code", k)
                    /\ \A j \in 1..Len(p) : ~KeyAt(text, a + j)
  BY DEF Passes
<1> DEFINE n == Len(p)
           e == a + (n - 2)
<1>1. /\ n >= 4 /\ p[1] = "/" /\ p[2] = "*" /\ p[n - 1] = "*" /\ p[n] = "/"
      /\ \A i \in 3 .. n - 2 : ~(p[i] = "*" /\ p[i + 1] = "/")
  BY DEF BlockComment
<1>2. /\ n \in Nat /\ Len(text) \in Nat
      /\ a + n <= Len(text) /\ \A j \in 1..n : text[a + j] = p[j]
  BY TextFacts DEF Placed
<1>3. /\ "block" \in Modes /\ "block" # "code" /\ "code" \in Modes
      /\ "/" \notin Keys /\ "*" \notin Keys
  BY DEF Modes, Keys
<1> HIDE DEF n
<1>4. /\ a + 1 \in 1..Len(text) /\ (a + 1) - 1 = a /\ text[a + 1] = "/"
      /\ a + 2 \in 1..Len(text) /\ (a + 2) - 1 = a + 1 /\ text[a + 2] = "*"
      /\ e + 1 \in 1..Len(text) /\ (e + 1) - 1 = e /\ e + 1 = a + (n - 1) /\ text[e + 1] = "*"
      /\ e + 2 \in 1..Len(text) /\ (e + 2) - 1 = e + 1 /\ e + 2 = a + n /\ text[e + 2] = "/"
      /\ e \in (a + 2)..Len(text) /\ a + 2 \in 0..Len(text)
  <2>1. 1 \in 1..n /\ 2 \in 1..n /\ n - 1 \in 1..n /\ n \in 1..n
    BY <1>1, <1>2
  <2>2. text[a + 1] = "/" /\ text[a + 2] = "*" /\ text[a + (n - 1)] = "*" /\ text[a + n] = "/"
    BY <1>1, <1>2, <2>1
  <2>3. e + 1 = a + (n - 1) /\ e + 2 = a + n
    BY <1>2
  <2>4. text[e + 1] = "*" /\ text[e + 2] = "/"
    BY <2>2, <2>3
  <2>5. /\ a + 1 \in 1..Len(text) /\ (a + 1) - 1 = a
        /\ a + 2 \in 1..Len(text) /\ (a + 2) - 1 = a + 1 /\ a + 2 \in 0..Len(text)
    BY <1>1, <1>2
  <2>6. /\ e + 1 \in 1..Len(text) /\ (e + 1) - 1 = e
        /\ e + 2 \in 1..Len(text) /\ (e + 2) - 1 = e + 1
        /\ e \in (a + 2)..Len(text)
    BY <1>1, <1>2
  <2> QED
    BY <2>2, <2>3, <2>4, <2>5, <2>6
<1>5. Skipping(text, a + 1, "block", k)
  <2>1. After(text, a + 1) = "*"
    <3>1. (a + 1) + 1 = a + 2 /\ a + 1 < Len(text)
      BY <1>2, <1>4
    <3> QED
      BY <1>4, <3>1 DEF After
  <2> QED
    BY <1>4, <2>1, CodeSteps
<1>6. In(text, a + 2, "block", k)
  <2>1. Skipping(text, (a + 2) - 1, "block", k)
    BY <1>4, <1>5
  <2> QED
    BY <1>3, <1>4, <2>1, OtherSteps
<1>7. ASSUME NEW i \in ((a + 2) + 1)..e, In(text, i - 1, "block", k) PROVE In(text, i, "block", k)
  <2>1. /\ i - a \in 3..(n - 2) /\ i - a \in 1..n /\ (i - a) + 1 \in 1..n
        /\ a + (i - a) = i /\ a + ((i - a) + 1) = i + 1 /\ i \in 1..Len(text) /\ i < Len(text)
    BY <1>2, <1>7
  <2>2. ~(text[i] = "*" /\ text[i + 1] = "/")
    BY <1>1, <1>2, <2>1
  <2>3. ~(text[i] = "*" /\ After(text, i) = "/")
    BY <2>1, <2>2 DEF After
  <2> QED
    BY <1>3, <1>7, <2>1, <2>3, OtherSteps
<1> HIDE DEF e
<1>8. /\ In(text, e, "block", k)
      /\ \A i \in ((a + 2) + 1)..e : ~KeyAt(text, i)
  BY <1>3, <1>4, <1>6, <1>7, Stays
<1>9. Skipping(text, e + 1, "code", k)
  <2>1. In(text, (e + 1) - 1, "block", k)
    BY <1>4, <1>8
  <2>2. After(text, e + 1) = "/"
    <3>1. (e + 1) + 1 = e + 2 /\ e + 1 < Len(text)
      BY <1>2, <1>4
    <3> QED
      BY <1>4, <3>1 DEF After
  <2> QED
    BY <1>3, <1>4, <2>1, <2>2, OtherSteps
<1>10. In(text, e + 2, "code", k)
  <2>1. Skipping(text, (e + 2) - 1, "code", k)
    BY <1>4, <1>9
  <2> QED
    BY <1>3, <1>4, <2>1, OtherSteps
<1>11. ASSUME NEW j \in 1..n PROVE ~KeyAt(text, a + j)
  <2>1. CASE j = 1 \/ j = 2
    BY <1>3, <1>4, <2>1 DEF KeyAt
  <2>2. CASE j = n \/ j = n - 1
    BY <1>3, <1>4, <2>2 DEF KeyAt
  <2>3. CASE j # 1 /\ j # 2 /\ j # n /\ j # n - 1
    <3>1. a + j \in ((a + 2) + 1)..e
      BY <1>2, <2>3 DEF e
    <3> QED
      BY <1>8, <3>1
  <2> QED
    BY <2>1, <2>2, <2>3
<1> QED
  BY <1>4, <1>10, <1>11 DEF n

-----------------------------------------------------------------------------
(* A quiet piece has no words that matter; a loose one may also have a     *)
(* quote behind it.                                                        *)
Quiet(p) == p \in Text /\ Passes(p, Quotes, {})
Loose(p) == p \in Text /\ Passes(p, {}, {})

(* A loose piece is quiet.                                                 *)
LEMMA LooseIsQuiet ==
  ASSUME NEW p, Loose(p)
  PROVE  Quiet(p)
BY DEF Loose, Quiet, Passes

(* Plain marks and words that do not matter are loose.                     *)
LEMMA LoosePlain ==
  ASSUME NEW p \in Text, \A j \in 1..Len(p) : p[j] \notin Special /\ p[j] \notin Keys
  PROVE  Loose(p)
<1>1. {j \in 1..Len(p) : p[j] \in Keys} = {}
  OBVIOUS
<1> QED
  BY <1>1, PassPlain DEF Loose

(* The empty piece is loose.                                               *)
LEMMA LooseEmpty == Loose(<<>>)
BY PassEmpty, EmptySeq DEF Loose, Text

(* Two pieces in a row.                                                    *)
LEMMA QuietConcat ==
  ASSUME NEW p, NEW q, Quiet(p), Quiet(q), q = <<>> \/ q[1] \notin Quotes
  PROVE  Quiet(p \o q)
<1>1. p \in Text /\ q \in Text /\ Passes(p, Quotes, {}) /\ Passes(q, Quotes, {})
  BY DEF Quiet
<1>2. Passes(p \o q, Quotes, {} \cup {Len(p) + j : j \in {}})
  BY <1>1, PassConcat
<1>3. {} \cup {Len(p) + j : j \in {}} = {}
  OBVIOUS
<1>4. p \o q \in Text
  BY <1>1, ConcatProperties DEF Text
<1> QED
  BY <1>2, <1>3, <1>4 DEF Quiet

(* A loose piece before a quiet one leaves it quiet.                       *)
LEMMA QuietAfter ==
  ASSUME NEW p, NEW q, Loose(p), Quiet(q)
  PROVE  Quiet(p \o q)
<1>1. p \in Text /\ q \in Text /\ Passes(p, {}, {}) /\ Passes(q, Quotes, {})
  BY DEF Quiet, Loose
<1>2. Passes(p \o q, Quotes, {} \cup {Len(p) + j : j \in {}})
  BY <1>1, PassConcat
<1>3. {} \cup {Len(p) + j : j \in {}} = {}
  OBVIOUS
<1>4. p \o q \in Text
  BY <1>1, ConcatProperties DEF Text
<1> QED
  BY <1>2, <1>3, <1>4 DEF Quiet

(* A loose piece behind a quiet one makes it loose, if no quote is         *)
(* doubled.                                                                *)
LEMMA LooseConcat ==
  ASSUME NEW p, NEW q, Quiet(p), Loose(q), IF q = <<>> THEN Loose(p) ELSE q[1] \notin Quotes
  PROVE  Loose(p \o q)
<1>1. p \in Text /\ q \in Text /\ Passes(p, Quotes, {}) /\ Passes(q, {}, {})
  BY DEF Quiet, Loose
<1>2. CASE q = <<>>
  <2>1. p \o q = p
    BY <1>1, <1>2, ConcatEmptySeq DEF Text
  <2> QED
    BY <1>2, <2>1
<1>3. CASE q # <<>>
  <2>2. Passes(p \o q, {}, {} \cup {Len(p) + j : j \in {}})
    BY <1>1, <1>3, PassConcat
  <2>3. {} \cup {Len(p) + j : j \in {}} = {}
    OBVIOUS
  <2>4. p \o q \in Text
    BY <1>1, ConcatProperties DEF Text
  <2> QED
    BY <2>2, <2>3, <2>4 DEF Loose
<1> QED
  BY <1>2, <1>3

(* Parentheses make a piece loose.                                         *)
LEMMA LooseGroup ==
  ASSUME NEW p, Quiet(p)
  PROVE  Loose(<<"(">> \o p \o <<")">>)
<1>1. ")" \notin Quotes
  BY DEF Quotes
<1>2. Passes(<<"(">> \o p \o <<")">>, {}, {})
  BY <1>1, PassGroup DEF Quiet
<1>3. <<"(">> \in Text /\ <<")">> \in Text
  BY OneMark, MarksAreElements DEF Marks
<1>4. <<"(">> \o p \in Text
  BY <1>3, ConcatProperties DEF Text, Quiet
<1>5. (<<"(">> \o p) \o <<")">> \in Text
  BY <1>3, <1>4, ConcatProperties DEF Text
<1> QED
  BY <1>2, <1>5 DEF Loose

-----------------------------------------------------------------------------
(* The values written in a statement.                                      *)
Cell(c) == Written(c) \/ c = <<"then">> \/ \E n \in DOMAIN Fresh : c = <<Fresh[n]>>

(* What the random values are not.                                         *)
LEMMA FreshFacts ==
  /\ DOMAIN Fresh = 1..Len(Fresh) /\ Len(Fresh) \in Nat
  /\ \A n \in DOMAIN Fresh : Fresh[n] \in Elements /\ Fresh[n] \notin Marks /\ Fresh[n] \notin Words
<1>1. DOMAIN Fresh = 1..Len(Fresh) /\ Len(Fresh) \in Nat
  BY FreshAssumption, LenProperties
<1>2. \A n \in DOMAIN Fresh : Fresh[n] \in ToSet(Fresh)
  BY DEF ToSet
<1> QED
  BY <1>1, <1>2, FreshAssumption DEF Elements

(* The calls of random() are groups in parentheses.                        *)
LEMMA RandomText ==
  /\ Random = <<"random">> \o (<<"(">> \o <<>> \o <<")">>)
  /\ SubRandom = <<"(">> \o (<<"SELECT", "sp">> \o Random) \o <<")">>
BY DEF Random, SubRandom

(* The words and marks that are neither special nor looked for.            *)
Plain == Elements \ (Special \cup Keys)

(* The words that are neither special nor looked for.                      *)
LEMMA PlainMarks ==
  /\ Blanks \subseteq Plain
  /\ {"INTO", "OR", "WITH", "AS", "SELECT", "SET", "WHERE", "DEFAULT", "VALUES", "CONFLICT",
      "DO", "NOTHING", "t", "c", "d", "x", "random", "CURRENT_TIMESTAMP",
      "ROLLBACK", "ABORT", "IGNORE", "*", ",", "=", "semi", "1", "then"} \subseteq Plain
  /\ \A n \in DOMAIN Fresh : Fresh[n] \in Plain
<1>1. /\ Blanks \cap (Special \cup Keys) = {}
      /\ {"INTO", "OR", "WITH", "AS", "SELECT", "SET", "WHERE", "DEFAULT", "VALUES", "CONFLICT",
          "DO", "NOTHING", "t", "c", "d", "x", "random", "CURRENT_TIMESTAMP",
          "ROLLBACK", "ABORT", "IGNORE", "*", ",", "=", "semi", "1", "then"}
         \cap (Special \cup Keys) = {}
  BY DEF Special, Keys, Quotes, Blanks
<1>2. /\ Blanks \subseteq Marks
      /\ {"*", ",", "=", "semi"} \subseteq Marks
      /\ {"INTO", "OR", "WITH", "AS", "SELECT", "SET", "WHERE", "DEFAULT", "VALUES", "CONFLICT",
          "DO", "NOTHING", "t", "c", "d", "x", "random", "CURRENT_TIMESTAMP",
          "ROLLBACK", "ABORT", "IGNORE"} \subseteq Words
  BY DEF Marks, Words, Algorithms
<1>3. \A n \in DOMAIN Fresh : Fresh[n] \in Elements /\ Fresh[n] \notin Special \cup Keys
  BY FreshFacts DEF Special, Keys, Quotes, Marks, Words, Algorithms
<1> QED
  BY <1>1, <1>2, <1>3, MarksAreElements DEF Plain

(* A piece made of plain words only is loose.                              *)
LEMMA LoosePlainSeq ==
  ASSUME NEW p \in Seq(Plain)
  PROVE  Loose(p)
<1>1. p \in Text
  BY SeqMonotonic DEF Plain, Text
<1>2. \A j \in 1..Len(p) : p[j] \in Plain
  BY ElementOfSeq
<1> QED
  BY <1>1, <1>2, LoosePlain DEF Plain

(* One of them.                                                            *)
LEMMA LooseOne ==
  ASSUME NEW e \in Plain
  PROVE  Loose(<<e>>) /\ Quiet(<<e>>) /\ <<e>> # <<>>
<1>1. <<e>> \in Seq(Plain) /\ <<e>> # <<>>
  OBVIOUS
<1> QED
  BY <1>1, LoosePlainSeq, LooseIsQuiet

(* A value is a quiet piece.                                               *)
LEMMA QuietCell ==
  ASSUME NEW c \in Text, Cell(c)
  PROVE  Quiet(c) /\ c # <<>>
<1>1. CASE c = <<"1">>
  BY <1>1, PlainMarks, LooseOne
<1>2. CASE c = <<"then">>
  BY <1>2, PlainMarks, LooseOne
<1>3. CASE c = Now
  BY <1>3, PlainMarks, LooseOne DEF Now
<1>4. ASSUME NEW n \in DOMAIN Fresh, c = <<Fresh[n]>> PROVE Quiet(c) /\ c # <<>>
  BY <1>4, PlainMarks, LooseOne
<1>5. Loose(Random)
  <2>1. Loose(<<"random">>)
    BY PlainMarks, LooseOne
  <2>2. Loose(<<"(">> \o <<>> \o <<")">>)
    BY LooseEmpty, LooseIsQuiet, LooseGroup
  <2>3. (<<"(">> \o <<>> \o <<")">>)[1] = "("
    OBVIOUS
  <2>4. "(" \notin Quotes
    BY DEF Quotes
  <2>5. <<"(">> \o <<>> \o <<")">> # <<>>
    OBVIOUS
  <2> QED
    BY <2>1, <2>2, <2>3, <2>4, <2>5, LooseIsQuiet, LooseConcat, RandomText
<1>6. Loose(SubRandom)
  <2>1. Loose(<<"SELECT", "sp">>)
    <3>1. "SELECT" \in Plain /\ "sp" \in Plain
      BY PlainMarks DEF Blanks
    <3>2. <<"SELECT", "sp">> \in Seq(Plain)
      BY <3>1
    <3> QED
      BY <3>2, LoosePlainSeq
  <2>2. Quiet(<<"SELECT", "sp">> \o Random)
    BY <1>5, <2>1, LooseIsQuiet, QuietAfter
  <2> QED
    BY <2>2, LooseGroup, RandomText
<1>7. Random # <<>> /\ SubRandom # <<>>
  BY DEF Random, SubRandom
<1>8. CASE Quoted(c)
  <2>1. c # <<>>
    BY <1>8, EmptySeq DEF Quoted
  <2> QED
    BY <1>8, <2>1, PassQuoted DEF Quiet
<1>9. CASE Bracketed(c)
  <2>1. c # <<>>
    BY <1>9, EmptySeq DEF Bracketed
  <2>2. Loose(c)
    BY <1>9, PassBracketed DEF Loose
  <2> QED
    BY <2>1, <2>2, LooseIsQuiet
<1> QED
  BY <1>1, <1>2, <1>3, <1>4, <1>5, <1>6, <1>7, <1>8, <1>9, LooseIsQuiet DEF Cell, Written

-----------------------------------------------------------------------------
(* Lists: their parts with a mark between each two.                        *)

(* Tail of a concatenation.                                                *)
LEMMA TailConcat ==
  ASSUME NEW S, NEW s \in Seq(S), NEW t \in Seq(S), s # <<>>
  PROVE  Tail(s \o t) = Tail(s) \o t
<1>1. Len(s) \in Nat \ {0} /\ Len(t) \in Nat
  BY EmptySeq, LenProperties
<1>2. /\ s \o t \in Seq(S) /\ Len(s \o t) = Len(s) + Len(t)
      /\ \A i \in 1..(Len(s) + Len(t)) : (s \o t)[i] = IF i <= Len(s) THEN s[i] ELSE t[i - Len(s)]
  BY ConcatProperties
<1>3. s \o t # <<>>
  BY <1>1, <1>2, EmptySeq
<1>4. /\ Tail(s) \in Seq(S) /\ Len(Tail(s)) = Len(s) - 1
      /\ \A i \in 1..Len(Tail(s)) : Tail(s)[i] = s[i + 1]
  BY HeadTailProperties
<1>5. /\ Tail(s \o t) \in Seq(S) /\ Len(Tail(s \o t)) = Len(s \o t) - 1
      /\ \A i \in 1..Len(Tail(s \o t)) : Tail(s \o t)[i] = (s \o t)[i + 1]
  BY <1>2, <1>3, HeadTailProperties
<1>6. /\ Tail(s) \o t \in Seq(S) /\ Len(Tail(s) \o t) = Len(Tail(s)) + Len(t)
      /\ \A i \in 1..(Len(Tail(s)) + Len(t)) : (Tail(s) \o t)[i] =
            IF i <= Len(Tail(s)) THEN Tail(s)[i] ELSE t[i - Len(Tail(s))]
  BY <1>4, ConcatProperties
<1> DEFINE m == Len(s)
           n == Len(t)
           u == Tail(s)
           v == Tail(s \o t)
           w == Tail(s) \o t
           x == s \o t
<1>7. ASSUME NEW i \in 1..Len(v) PROVE v[i] = w[i]
  <2>1. /\ i + 1 \in 1..(m + n) /\ i \in 1..(Len(u) + n) /\ v[i] = x[i + 1]
    BY <1>1, <1>2, <1>4, <1>5, <1>7
  <2>2. x[i + 1] = IF i + 1 <= m THEN s[i + 1] ELSE t[(i + 1) - m]
    BY <1>2, <2>1
  <2>3. w[i] = IF i <= Len(u) THEN u[i] ELSE t[i - Len(u)]
    BY <1>6, <2>1
  <2>4. CASE i + 1 <= m
    <3>1. i \in 1..Len(u) /\ i <= Len(u)
      BY <1>1, <1>4, <2>4
    <3> QED
      BY <1>4, <2>1, <2>2, <2>3, <2>4, <3>1
  <2>5. CASE ~(i + 1 <= m)
    <3>1. ~(i <= Len(u)) /\ i - Len(u) = (i + 1) - m
      BY <1>1, <1>4, <2>5
    <3> QED
      BY <2>1, <2>2, <2>3, <2>5, <3>1
  <2> QED
    BY <2>4, <2>5
<1>8. Len(v) = Len(w)
  BY <1>1, <1>2, <1>4, <1>5, <1>6
<1> HIDE DEF v, w
<1>9. v \in Seq(S) /\ w \in Seq(S)
  BY <1>5, <1>6 DEF v, w
<1>10. v = w
  BY <1>7, <1>8, <1>9, SeqEqual
<1> QED
  BY <1>10 DEF v, w

(* A function on 1..n is a sequence.                                       *)
LEMMA SeqOfFunction ==
  ASSUME NEW S, NEW n \in Nat, NEW f \in [1..n -> S]
  PROVE  f \in Seq(S) /\ Len(f) = n /\ DOMAIN f = 1..n
OBVIOUS

(* Every part with the separator before it.                                *)
Marked(parts, mark) == [i \in DOMAIN parts |-> <<mark>> \o parts[i]]

(* One more part is one more marked part.                                  *)
LEMMA MarkedAppend ==
  ASSUME NEW parts \in Seq(Text), NEW p \in Text, NEW mark \in Elements
  PROVE  /\ Marked(parts, mark) \in Seq(Text)
         /\ Marked(Append(parts, p), mark) = Append(Marked(parts, mark), <<mark>> \o p)
<1> DEFINE n == Len(parts)
           more == Append(parts, p)
           old == Marked(parts, mark)
           new == Marked(more, mark)
<1>1. n \in Nat /\ DOMAIN parts = 1..n /\ \A i \in 1..n : parts[i] \in Text
  BY LenProperties, ElementOfSeq
<1>2. /\ more \in Seq(Text) /\ Len(more) = n + 1 /\ DOMAIN more = 1..(n + 1)
      /\ \A i \in 1..n : more[i] = parts[i]
      /\ more[n + 1] = p
  BY AppendProperties, LenProperties
<1>3. \A q \in Text : <<mark>> \o q \in Text
  BY OneMark, ConcatProperties DEF Text
<1> HIDE DEF n, more
<1>4. old = [i \in 1..n |-> <<mark>> \o parts[i]] /\ old \in Seq(Text) /\ Len(old) = n
  <2>1. old = [i \in 1..n |-> <<mark>> \o parts[i]]
    BY <1>1 DEF Marked
  <2>2. \A i \in 1..n : <<mark>> \o parts[i] \in Text
    BY <1>1, <1>3
  <2>3. old \in [1..n -> Text]
    BY <2>1, <2>2
  <2> QED
    BY <1>1, <2>1, <2>3, SeqOfFunction
<1>5. new = [i \in 1..(n + 1) |-> <<mark>> \o more[i]] /\ new \in Seq(Text) /\ Len(new) = n + 1
  <2>1. new = [i \in 1..(n + 1) |-> <<mark>> \o more[i]]
    BY <1>2 DEF Marked
  <2>2. \A i \in 1..(n + 1) : <<mark>> \o more[i] \in Text
    BY <1>2, <1>3, ElementOfSeq
  <2> HIDE DEF new
  <2>3. new \in [1..(n + 1) -> Text]
    BY <2>1, <2>2
  <2>4. n + 1 \in Nat
    BY <1>1
  <2>5. new \in Seq(Text) /\ Len(new) = n + 1
    BY <2>3, <2>4, SeqOfFunction
  <2> QED
    BY <2>1, <2>5
<1>6. <<mark>> \o p \in Text
  BY <1>3
<1> DEFINE last == <<mark>> \o p
<1> HIDE DEF old, new, last
<1>7. /\ Append(old, last) \in Seq(Text) /\ Len(Append(old, last)) = n + 1
      /\ \A i \in 1..n : Append(old, last)[i] = old[i]
      /\ Append(old, last)[n + 1] = last
  <2>1. last \in Text /\ old \in Seq(Text)
    BY <1>4, <1>6 DEF last
  <2>2. /\ Append(old, last) \in Seq(Text) /\ Len(Append(old, last)) = Len(old) + 1
        /\ \A i \in 1..Len(old) : Append(old, last)[i] = old[i]
        /\ Append(old, last)[Len(old) + 1] = last
    BY <2>1, AppendProperties
  <2> QED
    BY <1>4, <2>2
<1>8. ASSUME NEW i \in 1..(n + 1) PROVE new[i] = Append(old, last)[i]
  <2>1. CASE i = n + 1
    BY <1>1, <1>2, <1>5, <1>7, <2>1 DEF last
  <2>2. CASE i # n + 1
    <3>1. i \in 1..n
      BY <1>1, <1>8, <2>2
    <3> QED
      BY <1>2, <1>4, <1>5, <1>7, <3>1
  <2> QED
    BY <2>1, <2>2
<1>9. new = Append(old, last)
  BY <1>5, <1>7, <1>8, SeqEqual
<1> QED
  BY <1>4, <1>9 DEF old, new, more, last

(* One more part comes behind the separator.                               *)
LEMMA SeparatedAppend ==
  ASSUME NEW parts \in Seq(Text), NEW p \in Text, NEW mark \in Elements
  PROVE  /\ parts = <<>> => Separated(Append(parts, p), mark) = p
         /\ parts # <<>> => Separated(Append(parts, p), mark) = Separated(parts, mark) \o (<<mark>> \o p)
<1> DEFINE old == Marked(parts, mark)
           new == Marked(Append(parts, p), mark)
           last == <<mark>> \o p
<1>1. old \in Seq(Text) /\ new = Append(old, last)
  BY MarkedAppend
<1>2. last \in Text /\ <<mark>> \in Text
  BY OneMark, ConcatProperties DEF Text
<1>3. Append(parts, p) # <<>>
  BY AppendProperties
<1>4. /\ Separated(Append(parts, p), mark) = Tail(FlattenSeq(new))
      /\ parts # <<>> => Separated(parts, mark) = Tail(FlattenSeq(old))
  BY <1>3 DEF Separated, Marked
<1>5. FlattenSeq(new) = FlattenSeq(old) \o last /\ FlattenSeq(old) \in Text
  BY <1>1, <1>2, FlattenAppend, FlattenType DEF Text
<1>6. Tail(last) = p
  <2>1. Tail(<<mark>>) = <<>> /\ <<mark>> # <<>>
    OBVIOUS
  <2>2. Tail(last) = Tail(<<mark>>) \o p
    BY <1>2, <2>1, TailConcat DEF Text
  <2> QED
    BY <2>1, <2>2, ConcatEmptySeq DEF Text
<1>7. CASE parts = <<>>
  <2>1. old = <<>>
    BY <1>7 DEF Marked
  <2>2. FlattenSeq(old) = <<>>
    BY <2>1, FlattenEmpty, Zenon
  <2>3. <<>> \o last = last
    BY <1>2, ConcatEmptySeq DEF Text
  <2> HIDE DEF old, new, last
  <2> QED
    BY <1>4, <1>5, <1>6, <1>7, <2>2, <2>3
<1>8. CASE parts # <<>>
  <2>1. PICK front \in Seq(Text), q \in Text : parts = Append(front, q)
    BY <1>8, SequenceEmptyOrAppend
  <2>2. /\ Marked(front, mark) \in Seq(Text)
        /\ old = Append(Marked(front, mark), <<mark>> \o q)
    BY <2>1, MarkedAppend
  <2>3. <<mark>> \o q \in Text /\ <<mark>> \o q # <<>>
    <3>1. Len(<<mark>> \o q) = 1 + Len(q) /\ Len(q) \in Nat /\ <<mark>> \o q \in Text
      BY <1>2, TextFacts, ConcatProperties DEF Text
    <3> QED
      BY <3>1, EmptySeq
  <2>4. FlattenSeq(old) = FlattenSeq(Marked(front, mark)) \o (<<mark>> \o q)
    BY <2>2, <2>3, FlattenAppend DEF Text
  <2>5. FlattenSeq(Marked(front, mark)) \in Text
    BY <2>2, FlattenType DEF Text
  <2>6. FlattenSeq(old) # <<>>
    BY <2>3, <2>4, <2>5, ConcatEqualIffEmpty DEF Text
  <2> HIDE DEF old, new, last
  <2>7. Tail(FlattenSeq(old) \o last) = Tail(FlattenSeq(old)) \o last
    BY <1>2, <1>5, <2>6, TailConcat DEF Text
  <2> QED
    BY <1>4, <1>5, <1>8, <2>7 DEF last
<1> QED
  BY <1>7, <1>8

(* A list is a text.                                                       *)
LEMMA SeparatedType ==
  ASSUME NEW parts \in Seq(Text), NEW mark \in Elements
  PROVE  Separated(parts, mark) \in Text
<1>1. CASE parts = <<>>
  BY <1>1, EmptySeq DEF Separated, Text
<1>2. CASE parts # <<>>
  <2>1. Separated(parts, mark) = Tail(FlattenSeq(Marked(parts, mark)))
    BY <1>2 DEF Separated, Marked
  <2>2. PICK front \in Seq(Text), p \in Text : parts = Append(front, p)
    BY <1>2, SequenceEmptyOrAppend
  <2>3. Marked(front, mark) \in Seq(Text) /\ Marked(parts, mark) = Append(Marked(front, mark), <<mark>> \o p)
    BY <2>2, MarkedAppend
  <2>4. <<mark>> \o p \in Text /\ <<mark>> \o p # <<>>
    <3>1. <<mark>> \in Text /\ <<mark>> # <<>>
      BY OneMark
    <3> QED
      BY <3>1, ConcatProperties, ConcatEqualIffEmpty DEF Text
  <2>5. FlattenSeq(Marked(parts, mark)) = FlattenSeq(Marked(front, mark)) \o (<<mark>> \o p)
    BY <2>3, <2>4, FlattenAppend DEF Text
  <2>6. FlattenSeq(Marked(front, mark)) \in Text
    BY <2>3, FlattenType DEF Text
  <2>7. FlattenSeq(Marked(parts, mark)) \in Text /\ FlattenSeq(Marked(parts, mark)) # <<>>
    BY <2>4, <2>5, <2>6, ConcatProperties, ConcatEqualIffEmpty DEF Text
  <2> QED
    BY <2>1, <2>7, HeadTailProperties DEF Text
<1> QED
  BY <1>1, <1>2

(* Loose pieces in a row.                                                  *)
LEMMA LooseBoth ==
  ASSUME NEW p, NEW q, Loose(p), Loose(q)
  PROVE  Loose(p \o q)
<1>1. p \in Text /\ q \in Text /\ Passes(p, {}, {}) /\ Passes(q, {}, {})
  BY DEF Loose
<1>2. Passes(p \o q, {}, {} \cup {Len(p) + j : j \in {}})
  BY <1>1, PassConcat
<1>3. {} \cup {Len(p) + j : j \in {}} = {}
  OBVIOUS
<1>4. p \o q \in Text
  BY <1>1, ConcatProperties DEF Text
<1> QED
  BY <1>2, <1>3, <1>4 DEF Loose

(* The texts that are quiet.                                               *)
QuietTexts == {p \in Text : Quiet(p)}

(* A list of quiet parts is quiet.                                         *)
LEMMA QuietSeparated ==
  ASSUME NEW parts \in Seq(QuietTexts), NEW mark \in Plain
  PROVE  Quiet(Separated(parts, mark))
<1> DEFINE n == Len(parts)
           first(k) == SubSeq(parts, 1, k)
           sep(k) == Separated(first(k), mark)
           H == {k \in 0..n : Quiet(sep(k))}
<1>1. n \in Nat /\ first(n) = parts /\ first(0) = <<>> /\ parts \in Seq(Text)
  BY LenProperties, SeqMonotonic DEF QuietTexts
<1>2. ASSUME NEW k \in 0..n, k < n
      PROVE  /\ first(k) \in Seq(Text) /\ parts[k + 1] \in Text /\ Quiet(parts[k + 1])
             /\ first(k + 1) = Append(first(k), parts[k + 1]) /\ k + 1 \in 0..n
             /\ k = 0 <=> first(k) = <<>>
  <2>1. k + 1 \in 1..n /\ k + 1 \in 0..n
    BY <1>1, <1>2
  <2>2. parts[k + 1] \in QuietTexts
    BY <2>1, ElementOfSeq
  <2>3. first(k) \in Seq(Text) /\ first(k + 1) = Append(first(k), parts[k + 1])
    BY <1>1, <1>2
  <2>4. k = 0 <=> first(k) = <<>>
    BY <1>1, <1>2
  <2> QED
    BY <2>1, <2>2, <2>3, <2>4 DEF QuietTexts
<1>0. mark \in Elements /\ Loose(<<mark>>) /\ mark \notin Quotes
  BY LooseOne DEF Plain, Special
<1> HIDE DEF n, first
<1>3. 0 \in H
  <2>1. sep(0) = <<>>
    BY <1>1 DEF Separated
  <2> QED
    BY <1>1, <2>1, LooseEmpty, LooseIsQuiet
<1>4. ASSUME NEW k \in 0..n, k < n, k \in H PROVE k + 1 \in H
  <2> DEFINE p == parts[k + 1]
  <2>1. /\ first(k) = <<>> => sep(k + 1) = p
        /\ first(k) # <<>> => sep(k + 1) = sep(k) \o (<<mark>> \o p)
    <3>1. /\ first(k) \in Seq(Text) /\ p \in Text /\ mark \in Elements
          /\ first(k + 1) = Append(first(k), p)
      BY <1>0, <1>2, <1>4
    <3> HIDE DEF p
    <3>2. /\ first(k) = <<>> => Separated(Append(first(k), p), mark) = p
          /\ first(k) # <<>> => Separated(Append(first(k), p), mark)
                                 = Separated(first(k), mark) \o (<<mark>> \o p)
      BY <3>1, SeparatedAppend
    <3> QED
      BY <3>1, <3>2
  <2>2. Quiet(sep(k)) /\ Quiet(p) /\ k + 1 \in 0..n /\ p \in Text
    BY <1>2, <1>4
  <2> HIDE DEF sep, p
  <2>3. Quiet(<<mark>> \o p)
    BY <1>0, <2>2, QuietAfter
  <2>4. (<<mark>> \o p)[1] \notin Quotes
    <3>1. (<<mark>> \o p)[1] = mark
      BY <1>0, <2>2, TextFacts DEF Text
    <3> QED
      BY <1>0, <3>1
  <2>5. Quiet(sep(k) \o (<<mark>> \o p))
    BY <2>2, <2>3, <2>4, QuietConcat
  <2> QED
    BY <2>1, <2>2, <2>5
<1>5. \A k \in 0..n : k \in H
  <2> HIDE DEF H
  <2> QED
    BY <1>1, <1>3, <1>4, Induction
<1>6. n \in 0..n
  BY <1>1
<1> QED
  BY <1>1, <1>5, <1>6

(* A piece that ends with neither a blank nor a semicolon.                 *)
Solid(p) == p # <<>> /\ p[Len(p)] \notin Blanks /\ p[Len(p)] # "semi"

(* What ends in a solid piece is solid.                                    *)
LEMMA SolidConcat ==
  ASSUME NEW p \in Text, NEW q \in Text, Solid(q)
  PROVE  Solid(p \o q)
<1>1. Len(q) \in Nat \ {0} /\ Len(p) \in Nat
  BY TextFacts, EmptySeq DEF Text, Solid
<1>2. /\ Len(p \o q) = Len(p) + Len(q) /\ p \o q \in Text
      /\ \A i \in 1..(Len(p) + Len(q)) : (p \o q)[i] = IF i <= Len(p) THEN p[i] ELSE q[i - Len(p)]
  BY ConcatProperties DEF Text
<1>3. (p \o q)[Len(p) + Len(q)] = q[Len(q)]
  <2>1. /\ Len(p) + Len(q) \in 1..(Len(p) + Len(q)) /\ ~(Len(p) + Len(q) <= Len(p))
        /\ (Len(p) + Len(q)) - Len(p) = Len(q)
    BY <1>1
  <2> QED
    BY <1>2, <2>1
<1>4. p \o q # <<>>
  BY <1>1, <1>2, EmptySeq
<1> QED
  BY <1>2, <1>3, <1>4 DEF Solid

(* A word is solid.                                                        *)
LEMMA SolidOne ==
  ASSUME NEW e, e \notin Blanks, e # "semi"
  PROVE  Solid(<<e>>)
BY DEF Solid

(* A list whose last part is solid is solid.                               *)
LEMMA SolidSeparated ==
  ASSUME NEW parts \in Seq(Text), parts # <<>>, Solid(parts[Len(parts)]), NEW mark \in Elements
  PROVE  Solid(Separated(parts, mark))
<1>1. PICK front \in Seq(Text), p \in Text : parts = Append(front, p)
  BY SequenceEmptyOrAppend
<1>2. parts[Len(parts)] = p
  BY <1>1, AppendProperties
<1>3. Solid(p)
  BY <1>2
<1>4. <<mark>> \in Text /\ <<mark>> \o p \in Text
  BY OneMark, ConcatProperties DEF Text
<1>5. Solid(<<mark>> \o p)
  BY <1>3, <1>4, SolidConcat
<1>6. CASE front = <<>>
  BY <1>1, <1>3, <1>6, SeparatedAppend
<1>7. CASE front # <<>>
  <2>1. Separated(parts, mark) = Separated(front, mark) \o (<<mark>> \o p)
    BY <1>1, <1>7, SeparatedAppend
  <2>2. Separated(front, mark) \in Text
    BY SeparatedType
  <2> QED
    BY <1>4, <1>5, <2>1, <2>2, SolidConcat
<1> QED
  BY <1>6, <1>7

-----------------------------------------------------------------------------
(* The parts of a statement's text.                                        *)
Shaped(r) ==
  /\ r \in Records
  /\ Gap(r.gap)
  /\ r.note = <<>> \/ Comment(r.note)
  /\ r.with = <<>> \/ Written(r.with)
  /\ Cell(r.set)
  /\ \A i \in DOMAIN r.rows : \A j \in DOMAIN r.rows[i] : Cell(r.rows[i][j])
  /\ r.verb = "REPLACE" => r.clause = "none"
  /\ r.verb = "UPDATE" => r.upsert = "none"
  /\ r.source # "default" => r.rows # <<>>
  /\ r.source \in {"select", "update"} => r.rows[1] # <<>>

(* A comment is loose.                                                     *)
LEMMA LooseComment ==
  ASSUME NEW c \in Text, Comment(c)
  PROVE  Loose(c)
BY PassLineComment, PassBlockComment DEF Comment, Loose

(* Blanks are loose.                                                       *)
LEMMA LooseBlank ==
  ASSUME NEW g \in Text, IsBlank(g)
  PROVE  Loose(g)
<1>1. \A i \in 1..Len(g) : g[i] \in Blanks
  BY TextFacts DEF IsBlank
<1>2. \A e \in Blanks : e \notin Special /\ e \notin Keys
  BY DEF Blanks, Special, Keys, Quotes
<1> QED
  BY <1>1, <1>2, LoosePlain

(* Blanks with a comment between them are loose.                           *)
LEMMA LooseGap ==
  ASSUME NEW g \in Text, Gap(g)
  PROVE  Loose(g)
<1>1. CASE IsBlank(g)
  BY <1>1, LooseBlank
<1>2. CASE ~IsBlank(g)
  <2>0. PICK i \in 0 .. Len(g) : \E j \in i .. Len(g) :
          /\ IsBlank(SubSeq(g, 1, i)) /\ IsBlank(SubSeq(g, j + 1, Len(g)))
          /\ Comment(SubSeq(g, i + 1, j))
    BY <1>2 DEF Gap
  <2>1. PICK j \in i .. Len(g) :
          /\ IsBlank(SubSeq(g, 1, i)) /\ IsBlank(SubSeq(g, j + 1, Len(g)))
          /\ Comment(SubSeq(g, i + 1, j))
    BY <2>0
  <2> DEFINE x == SubSeq(g, 1, i)
             y == SubSeq(g, i + 1, j)
             z == SubSeq(g, j + 1, Len(g))
  <2>2. Len(g) \in Nat /\ g \in Seq(Elements)
    BY TextFacts DEF Text
  <2>3. x \o y = SubSeq(g, 1, j)
    <3>1. /\ 1 \in 1..Len(g) + 1 /\ i \in 1 - 1 .. Len(g) /\ j \in i .. Len(g)
      BY <2>2
    <3> QED
      BY <2>2, <3>1, ConcatAdjacentSubSeq
  <2>4. SubSeq(g, 1, j) \o z = g
    <3>1. /\ 1 \in 1..Len(g) + 1 /\ j \in 1 - 1 .. Len(g) /\ Len(g) \in j .. Len(g)
      BY <2>2
    <3> QED
      BY <2>2, <3>1, ConcatAdjacentSubSeq, SubSeqFull
  <2>5. x \in Text /\ y \in Text /\ z \in Text
    <3>1. /\ \A k \in 1..i : g[k] \in Elements
          /\ \A k \in (i + 1)..j : g[k] \in Elements
          /\ \A k \in (j + 1)..Len(g) : g[k] \in Elements
      BY <2>2, TextFacts
    <3>2. i \in Int /\ i + 1 \in Int /\ j \in Int /\ j + 1 \in Int /\ Len(g) \in Int
      BY <2>2
    <3> QED
      BY <3>1, <3>2, SubSeqProperties DEF Text
  <2> HIDE DEF x, y, z
  <2>6. Loose(x) /\ Loose(y) /\ Loose(z)
    BY <2>1, <2>5, LooseBlank, LooseComment DEF x, y, z
  <2>7. Loose((x \o y) \o z)
    BY <2>6, LooseBoth
  <2> QED
    BY <2>3, <2>4, <2>7
<1> QED
  BY <1>1, <1>2

(* Values in parentheses.                                                  *)
LEMMA SolidGroup ==
  ASSUME NEW inner \in Text
  PROVE  Solid(<<"(">> \o inner \o <<")">>)
<1>1. <<"(">> \o inner \in Text /\ <<")">> \in Text
  <2>1. <<"(">> \in Text /\ <<")">> \in Text
    BY OneMark, MarksAreElements DEF Marks
  <2> QED
    BY <2>1, ConcatProperties DEF Text
<1>2. Solid(<<")">>)
  BY DEF Solid, Blanks
<1> QED
  BY <1>1, <1>2, SolidConcat

(* A list in parentheses is loose and solid.                               *)
LEMMA ListedPiece ==
  ASSUME NEW parts \in Seq(QuietTexts)
  PROVE  Loose(Listed(parts)) /\ Solid(Listed(parts))
<1> DEFINE inner == Separated(parts, ",")
<1>1. "," \in Plain
  BY PlainMarks
<1>2. Quiet(inner)
  BY <1>1, QuietSeparated
<1>3. Listed(parts) = <<"(">> \o inner \o <<")">>
  BY DEF Listed
<1> HIDE DEF inner
<1>4. Loose(Listed(parts))
  BY <1>2, <1>3, LooseGroup
<1> QED
  BY <1>2, <1>3, <1>4, SolidGroup DEF Quiet

(* The last mark of a value.                                               *)
LEMMA SolidCell ==
  ASSUME NEW c \in Text, Cell(c)
  PROVE  Solid(c)
<1>1. CASE c = <<"1">> \/ c = <<"then">> \/ c = Now
  <2>1. /\ "1" \notin Blanks /\ "1" # "semi" /\ "then" \notin Blanks /\ "then" # "semi"
        /\ "CURRENT_TIMESTAMP" \notin Blanks /\ "CURRENT_TIMESTAMP" # "semi"
    BY DEF Blanks
  <2> QED
    BY <1>1, <2>1, SolidOne DEF Now
<1>2. ASSUME NEW n \in DOMAIN Fresh, c = <<Fresh[n]>> PROVE Solid(c)
  <2>1. Fresh[n] \notin Blanks /\ Fresh[n] # "semi"
    BY FreshFacts DEF Marks
  <2> QED
    BY <1>2, <2>1, SolidOne
<1>3. Solid(Random)
  BY DEF Solid, Random, Blanks
<1>4. Solid(SubRandom)
  <2>1. <<"SELECT", "sp">> \o Random \in Text
    <3>1. /\ "SELECT" \in Elements /\ "sp" \in Elements /\ "random" \in Elements
          /\ "(" \in Elements /\ ")" \in Elements
      BY PlainMarks, MarksAreElements DEF Plain, Blanks, Marks
    <3>2. <<"SELECT", "sp">> \in Text /\ Random \in Text
      BY <3>1 DEF Random, Text
    <3> QED
      BY <3>2, ConcatProperties DEF Text
  <2> QED
    BY <2>1, SolidGroup, RandomText
<1>5. CASE Quoted(c)
  <2>1. PICK q \in Quotes : Len(c) >= 2 /\ c[Len(c)] = q
    BY <1>5 DEF Quoted
  <2>2. c # <<>>
    BY <2>1, EmptySeq
  <2> QED
    BY <2>1, <2>2 DEF Solid, Blanks, Quotes
<1>6. CASE Bracketed(c)
  <2>1. c # <<>>
    BY <1>6, EmptySeq DEF Bracketed
  <2> QED
    BY <1>6, <2>1 DEF Solid, Blanks, Bracketed
<1> QED
  BY <1>1, <1>2, <1>3, <1>4, <1>5, <1>6 DEF Cell, Written

(* The fields of a statement.                                              *)
LEMMA RecordFacts ==
  ASSUME NEW r \in Records
  PROVE  /\ r.verb \in {"INSERT", "REPLACE", "UPDATE"} /\ r.clause \in Algorithms \cup {"none"}
         /\ r.gap \in Text /\ r.set \in Text /\ r.with \in Text /\ r.note \in Text
         /\ r.columns \in {<<>>, <<"c">>, <<"d">>, <<"c", "d">>, <<"d", "c">>}
         /\ r.source \in {"values", "select", "default", "update"}
         /\ r.rows \in Seq(Seq(Text)) /\ r.upsert \in {"none", "nothing", "update"}
         /\ r.where \in BOOLEAN /\ r.semi \in BOOLEAN
BY DEF Records

(* The values of a row.                                                    *)
LEMMA RowPiece ==
  ASSUME NEW r, Shaped(r), NEW i \in 1..Len(r.rows)
  PROVE  /\ r.rows \in Seq(Seq(Text)) /\ DOMAIN r.rows = 1..Len(r.rows) /\ Len(r.rows) \in Nat
         /\ r.rows[i] \in Seq(QuietTexts) /\ r.rows[i] \in Seq(Text)
         /\ DOMAIN r.rows[i] = 1..Len(r.rows[i])
         /\ \A j \in 1..Len(r.rows[i]) : r.rows[i][j] \in Text /\ Cell(r.rows[i][j])
<1>1. r.rows \in Seq(Seq(Text)) /\ DOMAIN r.rows = 1..Len(r.rows) /\ Len(r.rows) \in Nat
  BY RecordFacts, LenProperties DEF Shaped
<1> DEFINE row == r.rows[i]
<1>2. row \in Seq(Text)
  BY <1>1, ElementOfSeq
<1>3. \A j \in DOMAIN row : Cell(row[j])
  BY <1>1 DEF Shaped
<1> HIDE DEF row
<1>4. Len(row) \in Nat /\ DOMAIN row = 1..Len(row) /\ row \in [1..Len(row) -> Text]
  BY <1>2, LenProperties
<1>5. \A j \in 1..Len(row) : row[j] \in Text /\ Cell(row[j]) /\ row[j] \in QuietTexts
  BY <1>3, <1>4, QuietCell DEF QuietTexts
<1>6. row \in [1..Len(row) -> QuietTexts]
  BY <1>4, <1>5
<1>7. row \in Seq(QuietTexts)
  BY <1>4, <1>6, SeqOfFunction
<1> QED
  BY <1>1, <1>2, <1>4, <1>5, <1>7 DEF row

(* The columns, the rows, the SELECT.                                      *)
LEMMA ColumnsPiece ==
  ASSUME NEW columns \in {<<"c">>, <<"d">>, <<"c", "d">>, <<"d", "c">>}
  PROVE  Loose(Listed([i \in DOMAIN columns |-> <<columns[i]>>]))
<1> DEFINE parts == [i \in DOMAIN columns |-> <<columns[i]>>]
           n == Len(columns)
<1>1. n \in Nat /\ DOMAIN columns = 1..n /\ \A i \in 1..n : columns[i] \in {"c", "d"}
  <2>1. CASE columns = <<"c">> \/ columns = <<"d">>
    BY <2>1
  <2>2. CASE columns = <<"c", "d">> \/ columns = <<"d", "c">>
    BY <2>2
  <2> QED
    BY <2>1, <2>2
<1>2. {"c", "d"} \subseteq Plain
  BY PlainMarks
<1> HIDE DEF n
<1>3. \A i \in 1..n : <<columns[i]>> \in QuietTexts
  BY <1>1, <1>2, LooseOne DEF QuietTexts, Quiet
<1>4. parts \in [1..n -> QuietTexts]
  BY <1>1, <1>3
<1>5. parts \in Seq(QuietTexts)
  BY <1>1, <1>4, SeqOfFunction
<1> QED
  BY <1>5, ListedPiece

(* The rows of VALUES are quiet and solid.                                 *)
LEMMA RowsPiece ==
  ASSUME NEW r, Shaped(r), r.rows # <<>>, NEW parts,
         parts = [i \in DOMAIN r.rows |-> Listed(r.rows[i])]
  PROVE  Quiet(Separated(parts, ",")) /\ Solid(Separated(parts, ","))
<1> DEFINE n == Len(r.rows)
<1>1. n \in Nat \ {0} /\ DOMAIN r.rows = 1..n
  BY RecordFacts, LenProperties, EmptySeq DEF Shaped
<1>2. \A i \in 1..n : Loose(Listed(r.rows[i])) /\ Solid(Listed(r.rows[i]))
  BY RowPiece, ListedPiece
<1>3. \A i \in 1..n : Listed(r.rows[i]) \in QuietTexts
  BY <1>2, LooseIsQuiet DEF QuietTexts, Quiet
<1> HIDE DEF n
<1>4. parts \in [1..n -> QuietTexts]
  BY <1>1, <1>3
<1>5. parts \in Seq(QuietTexts) /\ Len(parts) = n
  BY <1>1, <1>4, SeqOfFunction
<1>6. parts \in Seq(Text) /\ parts # <<>> /\ Solid(parts[Len(parts)])
  <2>1. parts \in Seq(Text)
    BY <1>5, SeqMonotonic DEF QuietTexts
  <2>2. parts # <<>>
    BY <1>1, <1>5, EmptySeq
  <2>3. n \in 1..n
    BY <1>1
  <2> QED
    BY <1>1, <1>2, <1>5, <2>1, <2>2, <2>3
<1>7. "," \in Plain /\ "," \in Elements
  BY PlainMarks DEF Plain
<1> QED
  BY <1>5, <1>6, <1>7, QuietSeparated, SolidSeparated

(* The values of a SELECT are quiet and solid.                             *)
LEMMA SelectPiece ==
  ASSUME NEW r, Shaped(r), r.rows # <<>>, r.rows[1] # <<>>
  PROVE  Quiet(Separated(r.rows[1], ",")) /\ Solid(Separated(r.rows[1], ","))
<1> DEFINE row == r.rows[1]
           n == Len(row)
<1>1. 1 \in 1..Len(r.rows)
  <2>1. r.rows \in Seq(Seq(Text))
    BY RecordFacts DEF Shaped
  <2>2. Len(r.rows) \in Nat \ {0}
    BY <2>1, EmptySeq
  <2> QED
    BY <2>2
<1>2. /\ row \in Seq(QuietTexts) /\ row \in Seq(Text)
      /\ \A j \in 1..n : row[j] \in Text /\ Cell(row[j])
  BY <1>1, RowPiece
<1>3. row # <<>>
  OBVIOUS
<1> HIDE DEF row
<1>4. n \in 1..n
  <2>1. n \in Nat \ {0}
    BY <1>2, <1>3, EmptySeq
  <2> QED
    BY <2>1
<1>5. Solid(row[n])
  BY <1>2, <1>4, SolidCell
<1>6. "," \in Plain /\ "," \in Elements
  BY PlainMarks DEF Plain
<1>7. Quiet(Separated(row, ",")) /\ Solid(Separated(row, ","))
  BY <1>2, <1>3, <1>5, <1>6, QuietSeparated, SolidSeparated
<1> QED
  BY <1>7 DEF row

(* What stands between the table and an UPSERT.                            *)
LEMMA BodyPiece ==
  ASSUME NEW r, Shaped(r)
  PROVE  Quiet(Body(r)) /\ Solid(Body(r))
<1> DEFINE default0 == << <<"DEFAULT", "sp", "VALUES">> >>
           set0 == <<"SET", "sp", "c", "=">> \o r.rows[1][1]
           listed == Optional(r.columns # <<>>,
                              << Listed([i \in DOMAIN r.columns |-> <<r.columns[i]>>]) >>)
           rows0 == Separated([i \in DOMAIN r.rows |-> Listed(r.rows[i])], ",")
           select0 == Separated(r.rows[1], ",")
           parts == CASE r.source = "default" -> default0
                      [] r.source = "update" -> <<set0>>
                      [] OTHER -> listed \o (IF r.source = "values" THEN << <<"VALUES">>, rows0 >>
                                             ELSE << <<"SELECT">>, select0 >>)
<1>1. Body(r) = Separated(parts, "sp")
  BY DEF Body
<1>2. "sp" \in Plain /\ "sp" \in Elements
  BY PlainMarks DEF Plain, Blanks
<1>3. ASSUME NEW p, parts = p, p \in Seq(QuietTexts), p # <<>>, Solid(p[Len(p)])
      PROVE  Quiet(Body(r)) /\ Solid(Body(r))
  <2>1. p \in Seq(Text)
    BY <1>3, SeqMonotonic DEF QuietTexts
  <2> QED
    BY <1>1, <1>2, <1>3, <2>1, QuietSeparated, SolidSeparated
<1>4. /\ r.source \in {"values", "select", "default", "update"} /\ r.rows \in Seq(Seq(Text))
      /\ r.columns \in {<<>>, <<"c">>, <<"d">>, <<"c", "d">>, <<"d", "c">>}
      /\ r.source # "default" => r.rows # <<>>
      /\ r.source \in {"select", "update"} => r.rows[1] # <<>>
  BY RecordFacts DEF Shaped
<1> HIDE DEF parts
<1>5. CASE r.source = "default"
  <2> DEFINE p == <<"DEFAULT", "sp", "VALUES">>
  <2>1. "DEFAULT" \in Plain /\ "VALUES" \in Plain
    BY PlainMarks
  <2>2. p \in Seq(Plain)
    BY <1>2, <2>1
  <2>3. Solid(p)
    BY DEF Solid, Blanks
  <2>4. parts = <<p>>
    BY <1>5 DEF parts
  <2> HIDE DEF p
  <2>5. p \in QuietTexts
    BY <2>2, LoosePlainSeq, LooseIsQuiet DEF QuietTexts, Quiet
  <2>6. <<p>> \in Seq(QuietTexts) /\ <<p>> # <<>> /\ <<p>>[Len(<<p>>)] = p
    BY <2>5
  <2> QED
    BY <1>3, <2>3, <2>4, <2>6
<1>6. CASE r.source = "update"
  <2> DEFINE words == <<"SET", "sp", "c", "=">>
             cell == r.rows[1][1]
             p == words \o cell
  <2>1. "SET" \in Plain /\ "c" \in Plain /\ "=" \in Plain
    BY PlainMarks
  <2>2. words \in Seq(Plain)
    BY <1>2, <2>1
  <2>3. cell \in Text /\ Cell(cell)
    <3>1. 1 \in 1..Len(r.rows) /\ r.rows[1] \in Seq(Text)
      <4>1. Len(r.rows) \in Nat \ {0}
        BY <1>4, <1>6, EmptySeq
      <4>2. 1 \in 1..Len(r.rows)
        BY <4>1
      <4> QED
        BY <4>2, RowPiece
    <3>2. 1 \in 1..Len(r.rows[1])
      <4>1. Len(r.rows[1]) \in Nat \ {0}
        BY <1>4, <1>6, <3>1, EmptySeq
      <4> QED
        BY <4>1
    <3> QED
      BY <3>1, <3>2, RowPiece
  <2>4. parts = <<p>>
    BY <1>6 DEF parts
  <2> HIDE DEF words, cell
  <2>5. Quiet(p) /\ Solid(p) /\ p \in QuietTexts
    <3>1. Loose(words) /\ words \in Text
      BY <2>2, LoosePlainSeq DEF Loose
    <3>2. Quiet(cell) /\ Solid(cell)
      BY <2>3, QuietCell, SolidCell
    <3> QED
      BY <2>3, <3>1, <3>2, QuietAfter, SolidConcat DEF QuietTexts, Quiet
  <2> HIDE DEF p
  <2>6. <<p>> \in Seq(QuietTexts) /\ <<p>> # <<>> /\ <<p>>[Len(<<p>>)] = p
    BY <2>5
  <2> QED
    BY <1>3, <2>4, <2>5, <2>6
<1>7. ASSUME NEW word, word \in {"VALUES", "SELECT"}, NEW x, Quiet(x), Solid(x),
             parts = listed \o << <<word>>, x >>
      PROVE  Quiet(Body(r)) /\ Solid(Body(r))
  <2>1. word \in Plain
    BY <1>7, PlainMarks
  <2>2. <<word>> \in QuietTexts /\ x \in QuietTexts
    BY <1>7, <2>1, LooseOne DEF QuietTexts, Quiet
  <2> DEFINE tail == << <<word>>, x >>
  <2>3. tail \in Seq(QuietTexts) /\ tail # <<>> /\ Len(tail) = 2 /\ tail[2] = x
    BY <2>2
  <2>4. listed \in Seq(QuietTexts)
    <3> DEFINE columns == Listed([i \in DOMAIN r.columns |-> <<r.columns[i]>>])
    <3>1. CASE r.columns = <<>>
      <4>1. listed = <<>>
        BY <3>1 DEF Optional
      <4> QED
        BY <4>1, EmptySeq
    <3>2. CASE r.columns # <<>>
      <4>1. Loose(columns)
        BY <1>4, <3>2, ColumnsPiece
      <4>2. listed = <<columns>>
        BY <3>2 DEF Optional
      <4> HIDE DEF columns, listed
      <4>3. columns \in QuietTexts
        BY <4>1, LooseIsQuiet DEF QuietTexts, Quiet
      <4> QED
        BY <4>2, <4>3
    <3> QED
      BY <3>1, <3>2
  <2> HIDE DEF listed, tail
  <2>5. /\ listed \o tail \in Seq(QuietTexts) /\ listed \o tail # <<>>
        /\ (listed \o tail)[Len(listed \o tail)] = x
    <3>1. listed \o tail \in Seq(QuietTexts) /\ Len(listed \o tail) = Len(listed) + Len(tail)
      BY <2>3, <2>4, ConcatProperties
    <3>2. Len(listed) \in Nat
      BY <2>4, LenProperties
    <3>3. (listed \o tail)[Len(listed) + 2] = x
      <4>1. /\ Len(listed) + 2 \in 1..(Len(listed) + Len(tail)) /\ ~(Len(listed) + 2 <= Len(listed))
            /\ (Len(listed) + 2) - Len(listed) = 2
        BY <2>3, <3>2
      <4> QED
        BY <2>3, <2>4, <4>1, ConcatProperties
    <3>4. listed \o tail # <<>>
      BY <2>3, <2>4, ConcatEqualIffEmpty
    <3> QED
      BY <2>3, <3>1, <3>3, <3>4
  <2>6. parts = listed \o tail
    BY <1>7 DEF tail
  <2> QED
    BY <1>3, <1>7, <2>5, <2>6
<1>8. CASE r.source = "values"
  <2>1. parts = listed \o << <<"VALUES">>, rows0 >>
    BY <1>8 DEF parts
  <2>2. Quiet(rows0) /\ Solid(rows0)
    BY <1>4, <1>8, RowsPiece
  <2> HIDE DEF listed, rows0
  <2> QED
    BY <1>7, <2>1, <2>2
<1>9. CASE r.source = "select"
  <2>1. parts = listed \o << <<"SELECT">>, select0 >>
    BY <1>9 DEF parts
  <2>2. Quiet(select0) /\ Solid(select0)
    BY <1>4, <1>9, SelectPiece
  <2> HIDE DEF listed, select0
  <2> QED
    BY <1>7, <2>1, <2>2
<1> QED
  BY <1>4, <1>5, <1>6, <1>8, <1>9

-----------------------------------------------------------------------------
(* The words that matter in the text of a statement.                       *)
WithPart(r) == Optional(r.with # <<>>, <<"WITH", "sp", "x", "sp", "AS", "(", "SELECT", "sp">> \o r.with
                                       \o <<")", "sp">>)
OrPart(r) == Optional(r.clause # "none", <<"OR", "sp", r.clause, "sp">>)
IntoPart(r) == Optional(r.verb # "UPDATE", <<"INTO", "sp">>)
NotePart(r) == Optional(r.note # <<>>, r.note \o <<"sp">>)
Semi(r) == Optional(r.semi, <<"semi">>)
Ahead(r) == WithPart(r) \o Verb(r) \o <<"sp">> \o NotePart(r) \o Body(r)
VerbKeys(r) == {1} \cup IF r.clause = "REPLACE" THEN {Len(r.gap) + 4} ELSE {}
UpsertKeys(r) == (IF r.upsert = "none" THEN {} ELSE {2}) \cup (IF r.upsert = "update" THEN {8} ELSE {})
KeyPlaces(r) == {Len(WithPart(r)) + j : j \in VerbKeys(r)} \cup {Len(Ahead(r)) + j : j \in UpsertKeys(r)}

(* A statement is what is ahead of its UPSERT, the UPSERT and a semicolon. *)
LEMMA RenderFront == ASSUME NEW r PROVE Render(r) = Ahead(r) \o Upsert(r) \o Semi(r)
BY DEF Render, Ahead, WithPart, NotePart, Semi

(* Concatenations of texts.                                                *)
LEMMA Concat ==
  ASSUME NEW p \in Text, NEW q \in Text
  PROVE  p \o q \in Text /\ Len(p \o q) = Len(p) + Len(q) /\ Len(p) \in Nat /\ Len(q) \in Nat
BY ConcatProperties, TextFacts DEF Text

(* Three pieces can be put together in either order.                       *)
LEMMA Regroup ==
  ASSUME NEW p \in Text, NEW q \in Text, NEW u \in Text
  PROVE  (p \o q) \o u = p \o (q \o u)
<1>1. p \in Seq(Elements) /\ q \in Seq(Elements) /\ u \in Seq(Elements)
  BY DEF Text
<1> QED
  BY <1>1, ConcatAssociative

(* A piece without words that matter after one with them.                  *)
LEMMA PassThen ==
  ASSUME NEW p \in Text, NEW q \in Text, NEW ends1, NEW ends2, NEW keys,
         Passes(p, ends1, keys), keys \subseteq 1..Len(p), Passes(q, ends2, {}),
         IF q = <<>> THEN ends1 \subseteq ends2 ELSE q[1] \notin ends1
  PROVE  /\ Passes(p \o q, ends2, keys)
         /\ p \o q \in Text /\ keys \subseteq 1..Len(p \o q) /\ Len(p \o q) = Len(p) + Len(q)
<1>1. Passes(p \o q, ends2, keys \cup {Len(p) + j : j \in {}})
  BY PassConcat
<1>2. keys \cup {Len(p) + j : j \in {}} = keys
  OBVIOUS
<1>3. p \o q \in Text /\ Len(p \o q) = Len(p) + Len(q) /\ Len(p) \in Nat /\ Len(q) \in Nat
  BY ConcatProperties, TextFacts DEF Text
<1>4. 1..Len(p) \subseteq 1..Len(p \o q)
  BY <1>3
<1> QED
  BY <1>1, <1>2, <1>3, <1>4

(* The WITH clause.                                                        *)
LEMMA WithPiece ==
  ASSUME NEW r, Shaped(r)
  PROVE  Loose(WithPart(r))
<1>1. CASE r.with = <<>>
  <2>1. WithPart(r) = <<>>
    BY <1>1 DEF WithPart, Optional
  <2> QED
    BY <2>1, LooseEmpty
<1>2. CASE r.with # <<>>
  <2> DEFINE words == <<"WITH", "sp", "x", "sp", "AS">>
             open == <<"(">>
             select == <<"SELECT", "sp">>
             close == <<")">>
             space == <<"sp">>
             w == r.with
             all == <<"WITH", "sp", "x", "sp", "AS", "(", "SELECT", "sp">>
             end == <<")", "sp">>
  <2>1. WithPart(r) = (all \o w) \o end
    BY <1>2 DEF WithPart, Optional
  <2>2. all = words \o (open \o select) /\ end = close \o space
    OBVIOUS
  <2>3. /\ "WITH" \in Plain /\ "sp" \in Plain /\ "x" \in Plain /\ "AS" \in Plain
        /\ "SELECT" \in Plain /\ "(" \in Elements /\ ")" \in Elements
    BY PlainMarks, MarksAreElements DEF Blanks, Marks
  <2>4. words \in Seq(Plain) /\ select \in Seq(Plain) /\ space \in Seq(Plain)
    BY <2>3
  <2>5. open \in Text /\ close \in Text
    BY <2>3, OneMark
  <2>6. w \in Text /\ Cell(w)
    BY <1>2, RecordFacts DEF Shaped, Cell
  <2> HIDE DEF words, open, select, close, space, w, all, end
  <2>7. Loose(words) /\ Loose(select) /\ Loose(space) /\ Quiet(w)
    BY <2>4, <2>6, LoosePlainSeq, QuietCell
  <2>8. words \in Text /\ select \in Text /\ space \in Text
    BY <2>7 DEF Loose
  <2> DEFINE group == open \o (select \o w) \o close
  <2>9. Loose(group)
    <3>1. Quiet(select \o w)
      BY <2>7, QuietAfter
    <3> QED
      BY <3>1, LooseGroup DEF open, close
  <2>10. Loose((words \o group) \o space)
    BY <2>7, <2>9, LooseBoth
  <2>11. (all \o w) \o end = (words \o group) \o space
    <3>1. /\ open \o select \in Text /\ select \o w \in Text /\ close \o space \in Text
          /\ open \o (select \o w) \in Text
      BY <2>5, <2>6, <2>8, ConcatProperties DEF Text
    <3>2. all \o w = words \o ((open \o select) \o w)
      <4> DEFINE os == open \o select
      <4>1. os \in Text /\ words \in Text /\ w \in Text /\ all = words \o os
        BY <2>2, <2>6, <2>8, <3>1
      <4> HIDE DEF os
      <4>2. (words \o os) \o w = words \o (os \o w)
        OBVIOUS
      <4> QED
        BY <4>1, <4>2 DEF os
    <3>3. (open \o select) \o w = open \o (select \o w)
      OBVIOUS
    <3> DEFINE inner == open \o (select \o w)
    <3>4. all \o w = words \o inner
      BY <3>2, <3>3
    <3>5. inner \in Text /\ words \o inner \in Text
      BY <2>8, <3>1, ConcatProperties DEF Text
    <3> HIDE DEF inner
    <3> DEFINE wi == words \o inner
    <3>6. wi \o (close \o space) = (wi \o close) \o space
      <4>1. wi \in Text /\ close \in Text /\ space \in Text
        BY <2>5, <2>8, <3>5
      <4> HIDE DEF wi
      <4> QED
        OBVIOUS
    <3>7. wi \o close = words \o (inner \o close)
      <4>1. words \in Text /\ inner \in Text /\ close \in Text
        BY <2>5, <2>8, <3>5
      <4> QED
        BY <4>1, Regroup, Zenon
    <3>8. wi = all \o w /\ group = inner \o close /\ end = close \o space
      BY <2>2, <3>4 DEF inner
    <3> HIDE DEF wi, group
    <3> QED
      BY <3>6, <3>7, <3>8
  <2> QED
    BY <2>1, <2>10, <2>11
<1> QED
  BY <1>1, <1>2

(* The verb, its clause, the table.                                        *)
LEMMA VerbPiece ==
  ASSUME NEW r, Shaped(r)
  PROVE  /\ Verb(r) \in Text /\ Passes(Verb(r), {}, VerbKeys(r)) /\ VerbKeys(r) \subseteq 1..Len(Verb(r))
<1>1. /\ r.verb \in {"INSERT", "REPLACE", "UPDATE"} /\ r.clause \in Algorithms \cup {"none"}
      /\ Loose(r.gap) /\ r.gap \in Text
  BY RecordFacts, LooseGap DEF Shaped
<1> DEFINE verb == <<r.verb>>
           p1 == verb \o r.gap
           p2 == p1 \o OrPart(r)
           p3 == p2 \o IntoPart(r)
           n == Len(r.gap)
<1>2. Verb(r) = p3 \o <<"t">>
  BY DEF Verb, OrPart, IntoPart
<1>3. verb \in Text /\ Passes(verb, {}, {1}) /\ Len(verb) = 1
  <2>1. r.verb \in Elements /\ r.verb \notin Special /\ r.verb \in Keys
    <3>1. r.verb \in Words
      BY <1>1 DEF Words, Algorithms
    <3>2. r.verb \notin Special /\ r.verb \in Keys
      BY <1>1 DEF Special, Keys, Quotes
    <3> QED
      BY <3>1, <3>2, MarksAreElements
  <2>2. verb \in Text /\ Len(verb) = 1 /\ verb[1] = r.verb
    BY <2>1, OneMark
  <2> HIDE DEF verb
  <2>3. {j \in 1..Len(verb) : verb[j] \in Keys} = {1}
    BY <2>1, <2>2
  <2>4. \A j \in 1..Len(verb) : verb[j] \notin Special
    BY <2>1, <2>2
  <2> QED
    BY <2>2, <2>3, <2>4, PassPlain
<1> HIDE DEF verb
<1>4. p1 \in Text /\ Passes(p1, {}, {1}) /\ {1} \subseteq 1..Len(p1) /\ Len(p1) = n + 1 /\ n \in Nat
  <2>1. {1} \subseteq 1..Len(verb) /\ r.gap \in Text /\ Passes(r.gap, {}, {})
    <3>1. {1} \subseteq 1..Len(verb)
      BY <1>3
    <3> QED
      BY <1>1, <3>1 DEF Loose
  <2>2. p1 \in Text /\ Passes(p1, {}, {1}) /\ {1} \subseteq 1..Len(p1) /\ Len(p1) = Len(verb) + Len(r.gap)
    BY <1>3, <2>1, PassThen
  <2>3. Len(r.gap) \in Nat
    BY <1>1, TextFacts
  <2> QED
    BY <1>3, <2>2, <2>3
<1> HIDE DEF p1
<1> DEFINE clauseKeys == IF r.clause = "REPLACE" THEN {3} ELSE {}
<1>5. OrPart(r) \in Text /\ Passes(OrPart(r), {}, clauseKeys)
  <2>1. CASE r.clause = "none"
    <3>1. OrPart(r) = <<>>
      BY <2>1 DEF OrPart, Optional
    <3> QED
      BY <2>1, <3>1, LooseEmpty DEF Loose
  <2>2. CASE r.clause # "none"
    <3> DEFINE ors == <<"OR", "sp", r.clause, "sp">>
    <3>1. OrPart(r) = ors
      BY <2>2 DEF OrPart, Optional
    <3>2. /\ "OR" \in Elements /\ "sp" \in Elements /\ r.clause \in Elements
          /\ "OR" \notin Special /\ "sp" \notin Special /\ r.clause \notin Special
          /\ "OR" \notin Keys /\ "sp" \notin Keys /\ (r.clause \in Keys <=> r.clause = "REPLACE")
      BY <1>1, <2>2, MarksAreElements DEF Words, Marks, Blanks, Algorithms, Special, Keys, Quotes
    <3>3. /\ ors \in Text /\ Len(ors) = 4 /\ ors[1] = "OR" /\ ors[2] = "sp" /\ ors[3] = r.clause
          /\ ors[4] = "sp"
      BY <3>2 DEF Text
    <3> HIDE DEF ors
    <3>4. \A j \in 1..Len(ors) : j = 1 \/ j = 2 \/ j = 3 \/ j = 4
      BY <3>3
    <3>5. \A j \in 1..Len(ors) : ors[j] \notin Special
      BY <3>2, <3>3, <3>4
    <3>6. {j \in 1..Len(ors) : ors[j] \in Keys} = clauseKeys
      BY <3>2, <3>3, <3>4
    <3> QED
      BY <3>1, <3>3, <3>5, <3>6, PassPlain
  <2> QED
    BY <2>1, <2>2
<1>6. p2 \in Text /\ Passes(p2, {}, VerbKeys(r)) /\ VerbKeys(r) \subseteq 1..Len(p2)
  <2>1. Passes(p2, {}, {1} \cup {Len(p1) + j : j \in clauseKeys})
    <3>1. clauseKeys \subseteq Nat \ {0}
      OBVIOUS
    <3> HIDE DEF clauseKeys
    <3> QED
      BY <1>4, <1>5, <3>1, PassConcat
  <2>2. {1} \cup {Len(p1) + j : j \in clauseKeys} = VerbKeys(r)
    <3>1. CASE r.clause = "REPLACE"
      <4>1. {Len(p1) + j : j \in {3}} = {Len(p1) + 3} /\ Len(p1) + 3 = n + 4
        BY <1>4
      <4> QED
        BY <3>1, <4>1 DEF VerbKeys
    <3>2. CASE r.clause # "REPLACE"
      BY <3>2 DEF VerbKeys
    <3> QED
      BY <3>1, <3>2
  <2>3. p2 \in Text /\ Len(p2) = n + 1 + Len(OrPart(r)) /\ Len(OrPart(r)) \in Nat
    <3>1. p2 \in Text /\ Len(p2) = Len(p1) + Len(OrPart(r)) /\ Len(OrPart(r)) \in Nat
      BY <1>4, <1>5, Concat
    <3> QED
      BY <1>4, <3>1
  <2>4. r.clause = "REPLACE" => Len(OrPart(r)) = 4
    BY DEF OrPart, Optional
  <2>5. VerbKeys(r) \subseteq 1..Len(p2)
    <3>1. Len(p2) \in Nat /\ 1 <= Len(p2)
      BY <1>4, <2>3
    <3>2. r.clause = "REPLACE" => n + 4 \in 1..Len(p2)
      <4>1. Len(p2) \in Nat /\ (r.clause = "REPLACE" => Len(p2) = n + 1 + 4)
        BY <2>3, <2>4, <3>1
      <4> HIDE DEF p2, n
      <4> QED
        BY <1>4, <4>1
    <3> HIDE DEF p2
    <3> QED
      BY <3>1, <3>2 DEF VerbKeys
  <2> QED
    BY <2>1, <2>2, <2>3, <2>5
<1>7. Loose(IntoPart(r)) /\ Loose(<<"t">>)
  <2>1. "INTO" \in Plain /\ "sp" \in Plain /\ "t" \in Plain
    BY PlainMarks DEF Blanks
  <2>2. IntoPart(r) = <<"INTO", "sp">> \/ IntoPart(r) = <<>>
    BY DEF IntoPart, Optional
  <2>3. <<"INTO", "sp">> \in Seq(Plain)
    BY <2>1
  <2> QED
    BY <2>1, <2>2, <2>3, LooseOne, LoosePlainSeq, LooseEmpty
<1> HIDE DEF p2
<1>8. p3 \in Text /\ Passes(p3, {}, VerbKeys(r)) /\ VerbKeys(r) \subseteq 1..Len(p3)
  BY <1>6, <1>7, PassThen DEF Loose
<1> HIDE DEF p3
<1>9. /\ p3 \o <<"t">> \in Text /\ Passes(p3 \o <<"t">>, {}, VerbKeys(r))
      /\ VerbKeys(r) \subseteq 1..Len(p3 \o <<"t">>)
  <2> DEFINE table == <<"t">>
  <2>1. table \in Text /\ Passes(table, {}, {})
    BY <1>7 DEF Loose
  <2> HIDE DEF table
  <2>2. IF table = <<>> THEN {} \subseteq {} ELSE table[1] \notin {}
    OBVIOUS
  <2>3. /\ p3 \o table \in Text /\ Passes(p3 \o table, {}, VerbKeys(r))
        /\ VerbKeys(r) \subseteq 1..Len(p3 \o table)
    BY <1>8, <2>1, <2>2, PassThen
  <2> QED
    BY <2>3 DEF table
<1> QED
  BY <1>2, <1>9

(* The UPSERT.                                                             *)
LEMMA UpsertPiece ==
  ASSUME NEW r, Shaped(r)
  PROVE  /\ Upsert(r) \in Text /\ Passes(Upsert(r), Quotes, UpsertKeys(r))
         /\ UpsertKeys(r) \subseteq 1..Len(Upsert(r))
         /\ r.upsert = "none" => Upsert(r) = <<>>
         /\ r.upsert # "none" => Upsert(r) # <<>> /\ Upsert(r)[1] = "sp" /\ Solid(Upsert(r))
<1> DEFINE words == <<"sp", "ON", "sp", "CONFLICT", "sp", "DO", "sp">>
           nothing == <<"NOTHING">>
           update == <<"UPDATE", "sp", "SET", "sp", "c", "=">>
           where == Optional(r.where, <<"sp", "WHERE", "sp", "1">>)
           act == update \o r.set \o where
<1>0. r.upsert \in {"none", "nothing", "update"} /\ r.set \in Text /\ Cell(r.set)
  BY RecordFacts DEF Shaped
<1>1. /\ r.upsert = "none" => Upsert(r) = <<>>
      /\ r.upsert = "nothing" => Upsert(r) = words \o nothing
      /\ r.upsert = "update" => Upsert(r) = words \o act
  BY DEF Upsert
<1>2. /\ "sp" \in Plain /\ "CONFLICT" \in Plain /\ "DO" \in Plain /\ "NOTHING" \in Plain
      /\ "SET" \in Plain /\ "c" \in Plain /\ "=" \in Plain /\ "WHERE" \in Plain /\ "1" \in Plain
  BY PlainMarks DEF Blanks
<1>3. /\ "ON" \in Elements /\ "ON" \in Keys /\ "ON" \notin Special
      /\ "UPDATE" \in Elements /\ "UPDATE" \in Keys /\ "UPDATE" \notin Special
  BY MarksAreElements DEF Words, Keys, Special, Quotes
<1>4. \A e \in Plain : e \in Elements /\ e \notin Keys /\ e \notin Special
  BY DEF Plain
<1>5. words \in Text /\ Passes(words, {}, {2}) /\ Len(words) = 7 /\ words[1] = "sp"
  <2>1. words \in Text
    <3>1. /\ "sp" \in Elements /\ "ON" \in Elements /\ "CONFLICT" \in Elements /\ "DO" \in Elements
      BY <1>2, <1>3, <1>4
    <3> QED
      BY <3>1 DEF Text
  <2>2. /\ Len(words) = 7 /\ words[1] = "sp" /\ words[2] = "ON" /\ words[3] = "sp"
        /\ words[4] = "CONFLICT" /\ words[5] = "sp" /\ words[6] = "DO" /\ words[7] = "sp"
    OBVIOUS
  <2> HIDE DEF words
  <2>3. \A j \in 1..Len(words) : j \in {1, 2, 3, 4, 5, 6, 7}
    BY <2>2
  <2>4. \A j \in 1..Len(words) : words[j] \notin Special /\ (words[j] \in Keys <=> j = 2)
    BY <1>2, <1>3, <1>4, <2>2, <2>3
  <2>5. {j \in 1..Len(words) : words[j] \in Keys} = {2}
    BY <2>2, <2>4
  <2> QED
    BY <2>1, <2>2, <2>4, <2>5, PassPlain
<1>6. Loose(nothing) /\ nothing # <<>> /\ Solid(nothing)
  BY <1>2, LooseOne DEF Solid, Blanks
<1>7. update \in Text /\ Passes(update, {}, {1}) /\ Len(update) = 6
  <2>1. update \in Text
    <3>1. /\ "sp" \in Elements /\ "UPDATE" \in Elements /\ "SET" \in Elements /\ "c" \in Elements
          /\ "=" \in Elements
      BY <1>2, <1>3, <1>4
    <3> QED
      BY <3>1 DEF Text
  <2>2. /\ Len(update) = 6 /\ update[1] = "UPDATE" /\ update[2] = "sp" /\ update[3] = "SET"
        /\ update[4] = "sp" /\ update[5] = "c" /\ update[6] = "="
    OBVIOUS
  <2> HIDE DEF update
  <2>3. \A j \in 1..Len(update) : j \in {1, 2, 3, 4, 5, 6}
    BY <2>2
  <2>4. \A j \in 1..Len(update) : update[j] \notin Special /\ (update[j] \in Keys <=> j = 1)
    BY <1>2, <1>3, <1>4, <2>2, <2>3
  <2>5. {j \in 1..Len(update) : update[j] \in Keys} = {1}
    BY <2>2, <2>4
  <2> QED
    BY <2>1, <2>2, <2>4, <2>5, PassPlain
<1>8. Loose(where) /\ (where # <<>> => where[1] = "sp" /\ Solid(where))
  <2>1. CASE r.where
    <3>1. where = <<"sp", "WHERE", "sp", "1">>
      BY <2>1 DEF Optional
    <3>2. <<"sp", "WHERE", "sp", "1">> \in Seq(Plain)
      BY <1>2
    <3>3. Solid(<<"sp", "WHERE", "sp", "1">>)
      BY DEF Solid, Blanks
    <3> HIDE DEF where
    <3> QED
      BY <3>1, <3>2, <3>3, LoosePlainSeq
  <2>2. CASE ~r.where
    <3>1. where = <<>>
      BY <2>2 DEF Optional
    <3> QED
      BY <3>1, LooseEmpty
  <2> QED
    BY <2>1, <2>2
<1>9. Quiet(r.set) /\ Solid(r.set)
  BY <1>0, QuietCell, SolidCell
<1> HIDE DEF words, nothing, update, where
<1>10. act \in Text /\ Passes(act, Quotes, {1}) /\ {1} \subseteq 1..Len(act) /\ Solid(act) /\ act # <<>>
  <2> DEFINE us == update \o r.set
  <2>1. us \in Text /\ Passes(us, Quotes, {1}) /\ {1} \subseteq 1..Len(us)
    <3>1. {1} \subseteq 1..Len(update)
      BY <1>7
    <3> QED
      BY <1>7, <1>9, <3>1, PassThen DEF Quiet
  <2>2. Solid(us)
    BY <1>7, <1>9, SolidConcat DEF Quiet
  <2>3. where \in Text /\ Passes(where, {}, {}) /\ Passes(where, Quotes, {})
    BY <1>8, LooseIsQuiet DEF Loose, Quiet
  <2>4. "sp" \notin Quotes
    BY DEF Quotes
  <2> HIDE DEF us
  <2>5. us \o where \in Text /\ Passes(us \o where, Quotes, {1}) /\ {1} \subseteq 1..Len(us \o where)
    BY <1>8, <2>1, <2>3, <2>4, PassThen
  <2>6. Solid(us \o where)
    <3>1. CASE where = <<>>
      <4>1. us \o where = us
        BY <2>1, <3>1, ConcatEmptySeq DEF Text
      <4> QED
        BY <2>2, <4>1
    <3>2. CASE where # <<>>
      BY <1>8, <2>1, <2>3, <3>2, SolidConcat
    <3> QED
      BY <3>1, <3>2
  <2>7. act = us \o where
    BY DEF us
  <2> QED
    BY <2>5, <2>6, <2>7 DEF Solid
<1> HIDE DEF act
<1>11. ASSUME NEW x \in Text, x # <<>>, Solid(x)
       PROVE  words \o x \in Text /\ words \o x # <<>> /\ (words \o x)[1] = "sp" /\ Solid(words \o x)
  <2>1. words \o x \in Text /\ Len(words \o x) = 7 + Len(x) /\ Len(x) \in Nat
    BY <1>5, <1>11, Concat
  <2>2. (words \o x)[1] = "sp"
    <3>1. 1 \in 1..(Len(words) + Len(x)) /\ 1 <= Len(words)
      BY <1>5, <2>1
    <3> QED
      BY <1>5, <1>11, <3>1, ConcatProperties DEF Text
  <2>3. words \o x # <<>>
    BY <2>1, EmptySeq
  <2> QED
    BY <1>5, <1>11, <2>1, <2>2, <2>3, SolidConcat
<1>12. CASE r.upsert = "none"
  <2>1. Upsert(r) = <<>> /\ UpsertKeys(r) = {}
    BY <1>1, <1>12 DEF UpsertKeys
  <2>2. <<>> \in Text /\ Passes(<<>>, Quotes, {})
    BY LooseEmpty, LooseIsQuiet DEF Quiet
  <2> QED
    BY <1>12, <2>1, <2>2
<1>13. CASE r.upsert = "nothing"
  <2> DEFINE all == words \o nothing
  <2>1. all \in Text /\ Passes(all, Quotes, {2}) /\ {2} \subseteq 1..Len(all)
    <3>1. {2} \subseteq 1..Len(words) /\ Passes(nothing, Quotes, {}) /\ nothing \in Text
      BY <1>5, <1>6, LooseIsQuiet DEF Quiet
    <3> QED
      BY <1>5, <1>6, <3>1, PassThen
  <2>2. all # <<>> /\ all[1] = "sp" /\ Solid(all)
    BY <1>6, <1>11 DEF Loose
  <2>3. Upsert(r) = all /\ UpsertKeys(r) = {2}
    BY <1>1, <1>13 DEF UpsertKeys
  <2> HIDE DEF all
  <2> QED
    BY <1>13, <2>1, <2>2, <2>3
<1>14. CASE r.upsert = "update"
  <2> DEFINE all == words \o act
  <2>1. all \in Text /\ Passes(all, Quotes, {2} \cup {Len(words) + j : j \in {1}})
    <3>1. {2} \subseteq 1..Len(words) /\ {1} \subseteq Nat \ {0}
      BY <1>5
    <3>2. Passes(all, Quotes, {2} \cup {Len(words) + j : j \in {1}})
      BY <1>5, <1>10, <3>1, PassConcat
    <3> QED
      BY <1>5, <1>10, <3>2, Concat
  <2>2. all # <<>> /\ all[1] = "sp" /\ Solid(all)
    BY <1>10, <1>11
  <2>3. {2} \cup {Len(words) + j : j \in {1}} = UpsertKeys(r)
    <3>1. {Len(words) + j : j \in {1}} = {8}
      BY <1>5
    <3> QED
      BY <1>14, <3>1 DEF UpsertKeys
  <2>4. UpsertKeys(r) \subseteq 1..Len(all)
    <3>1. Len(all) = 7 + Len(act) /\ Len(act) \in Nat /\ 1 <= Len(act)
      <4>1. words \in Text /\ act \in Text /\ Len(words) = 7 /\ 1 \in 1..Len(act)
        BY <1>5, <1>10
      <4>2. Len(all) = Len(words) + Len(act) /\ Len(act) \in Nat
        BY <4>1, Concat
      <4> HIDE DEF all
      <4> QED
        BY <4>1, <4>2
    <3> HIDE DEF all
    <3> QED
      BY <3>1 DEF UpsertKeys
  <2>5. Upsert(r) = all
    BY <1>1, <1>14
  <2> HIDE DEF all
  <2> QED
    BY <1>14, <2>1, <2>2, <2>3, <2>4, <2>5
<1> QED
  BY <1>0, <1>12, <1>13, <1>14

(* Everything before the UPSERT.                                           *)
LEMMA FrontPiece ==
  ASSUME NEW r, Shaped(r)
  PROVE  /\ Ahead(r) \in Text
         /\ Passes(Ahead(r), Quotes, {Len(WithPart(r)) + j : j \in VerbKeys(r)})
         /\ {Len(WithPart(r)) + j : j \in VerbKeys(r)} \subseteq 1..Len(Ahead(r))
         /\ Solid(Ahead(r))
<1> DEFINE w == WithPart(r)
           keys == {Len(w) + j : j \in VerbKeys(r)}
           f1 == w \o Verb(r)
           f2 == f1 \o <<"sp">>
           f3 == f2 \o NotePart(r)
           f4 == f3 \o Body(r)
<1>1. w \in Text /\ Passes(w, {}, {}) /\ Len(w) \in Nat
  BY WithPiece, TextFacts DEF Loose
<1>2. /\ Verb(r) \in Text /\ Passes(Verb(r), {}, VerbKeys(r)) /\ VerbKeys(r) \subseteq 1..Len(Verb(r))
      /\ Len(Verb(r)) \in Nat
  BY VerbPiece, TextFacts
<1> HIDE DEF w
<1>3. f1 \in Text /\ Passes(f1, {}, keys) /\ keys \subseteq 1..Len(f1)
  <2>1. VerbKeys(r) \subseteq Nat \ {0}
    BY <1>2
  <2>2. Passes(f1, {}, {} \cup keys)
    BY <1>1, <1>2, <2>1, PassConcat
  <2>3. f1 \in Text /\ Len(f1) = Len(w) + Len(Verb(r))
    BY <1>1, <1>2, Concat
  <2>4. keys \subseteq 1..Len(f1)
    <3> HIDE DEF f1
    <3> QED
      BY <1>1, <1>2, <2>3
  <2>5. {} \cup keys = keys
    OBVIOUS
  <2> QED
    BY <2>2, <2>3, <2>4, <2>5
<1> HIDE DEF keys, f1
<1>4. Loose(<<"sp">>)
  <2>1. "sp" \in Plain
    BY PlainMarks DEF Blanks
  <2> QED
    BY <2>1, LooseOne
<1>5. ASSUME NEW p \in Text, Passes(p, {}, keys), keys \subseteq 1..Len(p), NEW q, Loose(q)
      PROVE  p \o q \in Text /\ Passes(p \o q, {}, keys) /\ keys \subseteq 1..Len(p \o q)
  <2>1. q \in Text /\ Passes(q, {}, {})
    BY <1>5 DEF Loose
  <2>2. IF q = <<>> THEN {} \subseteq {} ELSE q[1] \notin {}
    OBVIOUS
  <2> QED
    BY <1>5, <2>1, <2>2, PassThen
<1>6. f2 \in Text /\ Passes(f2, {}, keys) /\ keys \subseteq 1..Len(f2)
  BY <1>3, <1>4, <1>5
<1>7. Loose(NotePart(r))
  <2>1. CASE r.note = <<>>
    <3>1. NotePart(r) = <<>>
      BY <2>1 DEF NotePart, Optional
    <3> QED
      BY <3>1, LooseEmpty
  <2>2. CASE r.note # <<>>
    <3>1. NotePart(r) = r.note \o <<"sp">>
      BY <2>2 DEF NotePart, Optional
    <3>2. r.note \in Text /\ Comment(r.note)
      BY <2>2, RecordFacts DEF Shaped
    <3> QED
      BY <1>4, <3>1, <3>2, LooseComment, LooseBoth
  <2> QED
    BY <2>1, <2>2
<1> HIDE DEF f2
<1>8. f3 \in Text /\ Passes(f3, {}, keys) /\ keys \subseteq 1..Len(f3)
  BY <1>5, <1>6, <1>7
<1> HIDE DEF f3
<1>9. Quiet(Body(r)) /\ Solid(Body(r)) /\ Body(r) \in Text
  BY BodyPiece DEF Quiet
<1>10. f4 \in Text /\ Passes(f4, Quotes, keys) /\ keys \subseteq 1..Len(f4)
  <2>1. Passes(Body(r), Quotes, {})
    BY <1>9 DEF Quiet
  <2>2. IF Body(r) = <<>> THEN {} \subseteq Quotes ELSE Body(r)[1] \notin {}
    OBVIOUS
  <2> QED
    BY <1>8, <1>9, <2>1, <2>2, PassThen
<1>11. Solid(f4)
  BY <1>8, <1>9, SolidConcat
<1>12. Ahead(r) = f4
  BY DEF Ahead, f1, f2, f3, w
<1> QED
  BY <1>10, <1>11, <1>12 DEF keys, w

(* So these are the places of the words that matter.                       *)
LEMMA KeysOfRender ==
  ASSUME NEW r, Shaped(r)
  PROVE  /\ Render(r) \in Text
         /\ \A i \in 1..Len(Render(r)) : KeyAt(Render(r), i) <=> i \in KeyPlaces(r)
         /\ KeyPlaces(r) \subseteq 1..Len(Render(r))
<1> DEFINE front == Ahead(r)
           upsert == Upsert(r)
           keys1 == {Len(WithPart(r)) + j : j \in VerbKeys(r)}
           keys2 == UpsertKeys(r)
           fu == front \o upsert
           semi == Semi(r)
           text == fu \o semi
<1>1. front \in Text /\ Passes(front, Quotes, keys1) /\ keys1 \subseteq 1..Len(front)
  BY FrontPiece
<1>2. /\ upsert \in Text /\ Passes(upsert, Quotes, keys2) /\ keys2 \subseteq 1..Len(upsert)
      /\ upsert = <<>> \/ upsert[1] = "sp"
  BY UpsertPiece
<1>3. KeyPlaces(r) = keys1 \cup {Len(front) + j : j \in keys2}
  BY DEF KeyPlaces
<1>4. Render(r) = text
  BY RenderFront
<1>5. semi \in Text /\ Passes(semi, Quotes, {}) /\ (semi = <<>> \/ semi[1] = "semi")
  <2>1. semi = <<"semi">> \/ semi = <<>>
    BY DEF Semi, Optional
  <2>2. "semi" \in Plain
    BY PlainMarks
  <2>3. Loose(semi)
    BY <2>1, <2>2, LooseOne, LooseEmpty
  <2>4. semi \in Text /\ Passes(semi, Quotes, {})
    BY <2>3, LooseIsQuiet DEF Quiet
  <2> HIDE DEF semi
  <2> QED
    BY <2>1, <2>4
<1> HIDE DEF front, upsert, keys1, keys2, semi
<1>6. /\ fu \in Text /\ Passes(fu, Quotes, KeyPlaces(r)) /\ KeyPlaces(r) \subseteq 1..Len(fu)
  <2>1. keys2 \subseteq Nat \ {0} /\ "sp" \notin Quotes
    BY <1>2 DEF Quotes
  <2>2. Passes(fu, Quotes, KeyPlaces(r))
    <3>1. IF upsert = <<>> THEN Quotes \subseteq Quotes ELSE upsert[1] \notin Quotes
      BY <1>2, <2>1
    <3>2. /\ front \in Text /\ upsert \in Text /\ keys1 \subseteq 1..Len(front)
          /\ Passes(front, Quotes, keys1) /\ Passes(upsert, Quotes, keys2)
      BY <1>1, <1>2
    <3>3. Passes(fu, Quotes, keys1 \cup {Len(front) + j : j \in keys2})
      BY <2>1, <3>1, <3>2, PassConcat
    <3> QED
      BY <1>3, <3>3
  <2>3. fu \in Text /\ Len(fu) = Len(front) + Len(upsert) /\ Len(front) \in Nat /\ Len(upsert) \in Nat
    BY <1>1, <1>2, Concat
  <2> HIDE DEF fu
  <2>4. KeyPlaces(r) \subseteq 1..Len(fu)
    <3> SUFFICES ASSUME NEW i \in KeyPlaces(r) PROVE i \in 1..Len(fu)
      OBVIOUS
    <3>1. CASE i \in keys1
      BY <1>1, <2>3, <3>1
    <3>2. ASSUME NEW j \in keys2, i = Len(front) + j PROVE i \in 1..Len(fu)
      <4>1. j \in 1..Len(upsert)
        BY <1>2
      <4> QED
        BY <2>3, <3>2, <4>1
    <3> QED
      BY <1>3, <3>1, <3>2
  <2> QED
    BY <2>2, <2>3, <2>4
<1> HIDE DEF fu
<1>7. text \in Text /\ Passes(text, Quotes, KeyPlaces(r)) /\ KeyPlaces(r) \subseteq 1..Len(text)
  <2>1. "semi" \notin Quotes
    BY DEF Quotes
  <2> QED
    BY <1>5, <1>6, <2>1, PassThen
<1> HIDE DEF text
<1>8. \A i \in 1..Len(text) : KeyAt(text, i) <=> i \in KeyPlaces(r)
  <2>1. Len(text) \in Nat /\ 0 \in 0..Len(text) /\ 0 \in Nat
    BY <1>7, TextFacts
  <2>2. In(text, 0, "code", 0)
    <3>1. StateAt(text, 0) = State0
      BY <2>1, StateSteps
    <3> QED
      BY <3>1 DEF In, State0
  <2>3. Placed(text, text, 0)
    BY <2>1 DEF Placed
  <2>4. After(text, 0 + Len(text)) \notin Quotes
    BY <2>1 DEF After, Quotes
  <2>5. \A j \in 1..Len(text) : KeyAt(text, 0 + j) <=> 0 = 0 /\ j \in KeyPlaces(r)
    BY <1>7, <2>1, <2>2, <2>3, <2>4 DEF Passes
  <2>6. \A j \in 1..Len(text) : 0 + j = j
    BY <2>1
  <2> QED
    BY <2>5, <2>6
<1> QED
  BY <1>4, <1>7, <1>8

-----------------------------------------------------------------------------
(* Matching a pattern at a place.                                          *)

(* The place after the blanks is the one place without a blank behind them.*)
AfterBlanks(text, i, j) ==
  /\ j \in i..Len(text) + 1
  /\ \A k \in i..j - 1 : text[k] \in Blanks
  /\ j <= Len(text) => text[j] \notin Blanks

(* The position after the blanks is the only one of its kind.              *)
LEMMA PastBlanksIs ==
  ASSUME NEW text, Len(text) \in Nat, NEW i \in Nat \ {0}, NEW j, AfterBlanks(text, i, j)
  PROVE  PastBlanks(text, i) = j
<1> DEFINE p == PastBlanks(text, i)
<1>1. /\ p \in i..Len(text) + 1
      /\ \A k \in i..p - 1 : text[k] \in Blanks
      /\ p <= Len(text) => text[p] \notin Blanks
  BY DEF PastBlanks, AfterBlanks
<1>2. /\ j \in i..Len(text) + 1
      /\ \A k \in i..j - 1 : text[k] \in Blanks
      /\ j <= Len(text) => text[j] \notin Blanks
  BY DEF AfterBlanks
<1> HIDE DEF p
<1>3. ~(p < j)
  <2> SUFFICES ASSUME p < j PROVE FALSE
    OBVIOUS
  <2>1. p \in i..j - 1 /\ p <= Len(text)
    BY <1>1, <1>2
  <2> QED
    BY <1>1, <1>2, <2>1
<1>4. ~(j < p)
  <2> SUFFICES ASSUME j < p PROVE FALSE
    OBVIOUS
  <2>1. j \in i..p - 1 /\ j <= Len(text)
    BY <1>1, <1>2
  <2> QED
    BY <1>1, <1>2, <2>1
<1> QED
  BY <1>1, <1>2, <1>3, <1>4 DEF p

(* There is a position after the blanks.                                   *)
LEMMA PastBlanksExists ==
  ASSUME NEW text, Len(text) \in Nat, NEW i \in 1..Len(text) + 1
  PROVE  AfterBlanks(text, i, PastBlanks(text, i))
<1> DEFINE n == Len(text)
           T == {j \in i..n + 1 : j <= n => text[j] \notin Blanks}
<1>1. n + 1 \in T /\ T \in SUBSET Nat
  OBVIOUS
<1>2. PICK j \in T : \A m \in T : j <= m
  BY <1>1, LeastNumber
<1>3. AfterBlanks(text, i, j)
  <2>1. \A k \in i..j - 1 : text[k] \in Blanks
    <3> SUFFICES ASSUME NEW k \in i..j - 1 PROVE text[k] \in Blanks
      OBVIOUS
    <3>1. k \notin T
      BY <1>2
    <3> QED
      BY <1>2, <3>1
  <2> QED
    BY <1>2, <2>1 DEF AfterBlanks
<1>4. i \in Nat \ {0}
  OBVIOUS
<1>5. PastBlanks(text, i) = j
  BY <1>3, <1>4, PastBlanksIs
<1> QED
  BY <1>3, <1>5

(* One word of a pattern and the blanks behind it.                         *)
Step(text, j, words) ==
  IF j \in 1 .. Len(text) - 1 /\ text[j] \in words /\ text[j + 1] \in Blanks
  THEN PastBlanks(text, j + 1) ELSE 0
RunOf(run, text, i, pattern) ==
  /\ MatchAt(text, i, pattern) = run[Len(pattern)]
  /\ run[0] = i
  /\ \A k \in 1..Len(pattern) : run[k] = Step(text, run[k - 1], pattern[k])
StepsTo(text, i, word, to) ==
  \A words : /\ word \in words => Step(text, i, words) = to
             /\ word \notin words => Step(text, i, words) = 0
Matching(run, text, i, pattern, n) ==
  run = [k \in 0..n |-> IF k = 0 THEN i ELSE Step(text, run[k - 1], pattern[k])]

(* A match goes word by word.                                              *)
LEMMA MatchSteps ==
  ASSUME NEW text, NEW i, NEW pattern, Len(pattern) \in Nat
  PROVE  \E run : RunOf(run, text, i, pattern)
<1> DEFINE n == Len(pattern)
           H == {k \in 0..n : \E run : Matching(run, text, i, pattern, k)}
           it == CHOOSE run : Matching(run, text, i, pattern, n)
<1>0. n \in Nat
  OBVIOUS
<1>1. MatchAt(text, i, pattern) = it[n]
  BY DEF MatchAt, Matching, Step
<1> HIDE DEF n
<1>2. 0 \in H
  <2>1. Matching([k \in 0..0 |-> i], text, i, pattern, 0)
    BY DEF Matching
  <2> QED
    BY <1>0, <2>1
<1>3. ASSUME NEW k \in 0..n, k < n, k \in H PROVE k + 1 \in H
  <2>1. PICK run : Matching(run, text, i, pattern, k)
    BY <1>3
  <2> DEFINE more == [l \in 0..(k + 1) |-> IF l = k + 1 THEN Step(text, run[k], pattern[l])
                                           ELSE run[l]]
  <2>2. Matching(more, text, i, pattern, k + 1)
    BY <2>1 DEF Matching
  <2>3. k + 1 \in 0..n
    BY <1>0, <1>3
  <2> QED
    BY <2>2, <2>3
<1>4. n \in H
  <2> HIDE DEF H
  <2>1. \A k \in 0..n : k < n /\ k \in H => k + 1 \in H
    BY <1>3
  <2>2. \A k \in 0..n : k \in H
    BY <1>0, <1>2, <2>1, Induction
  <2> QED
    BY <1>0, <2>2
<1>5. Matching(it, text, i, pattern, n)
  <2>1. \E run : Matching(run, text, i, pattern, n)
    BY <1>4
  <2> QED
    BY <2>1, Zenon
<1> HIDE DEF it
<1>6. it[0] = i /\ \A k \in 1..n : it[k] = Step(text, it[k - 1], pattern[k])
  BY <1>0, <1>5 DEF Matching
<1> QED
  BY <1>1, <1>6 DEF n, RunOf

(* A match of one word is one step.                                        *)
LEMMA MatchOne ==
  ASSUME NEW text, NEW i, NEW pattern, Len(pattern) = 1
  PROVE  MatchAt(text, i, pattern) = Step(text, i, pattern[1])
<1>0. Len(pattern) \in Nat
  OBVIOUS
<1>1. PICK run : RunOf(run, text, i, pattern)
  BY <1>0, MatchSteps
<1>2. run[1] = Step(text, run[0], pattern[1])
  BY <1>1 DEF RunOf
<1> QED
  BY <1>1, <1>2 DEF RunOf

(* two words,                                                              *)
LEMMA MatchTwo ==
  ASSUME NEW text, NEW i, NEW pattern, Len(pattern) = 2
  PROVE  MatchAt(text, i, pattern) = Step(text, Step(text, i, pattern[1]), pattern[2])
<1>0. Len(pattern) \in Nat
  OBVIOUS
<1>1. PICK run : RunOf(run, text, i, pattern)
  BY <1>0, MatchSteps
<1>2. run[1] = Step(text, run[0], pattern[1]) /\ run[2] = Step(text, run[1], pattern[2])
  BY <1>1 DEF RunOf
<1> QED
  BY <1>1, <1>2 DEF RunOf

(* or three.                                                               *)
LEMMA MatchThree ==
  ASSUME NEW text, NEW i, NEW pattern, Len(pattern) = 3
  PROVE  MatchAt(text, i, pattern)
           = Step(text, Step(text, Step(text, i, pattern[1]), pattern[2]), pattern[3])
<1>0. Len(pattern) \in Nat
  OBVIOUS
<1>1. PICK run : RunOf(run, text, i, pattern)
  BY <1>0, MatchSteps
<1>2. /\ run[1] = Step(text, run[0], pattern[1]) /\ run[2] = Step(text, run[1], pattern[2])
      /\ run[3] = Step(text, run[2], pattern[3])
  BY <1>1 DEF RunOf
<1> QED
  BY <1>1, <1>2 DEF RunOf

(* What a step that finds its word says of the text.                       *)
LEMMA StepFound ==
  ASSUME NEW text, Len(text) \in Nat, NEW i, NEW words, Step(text, i, words) # 0
  PROVE  /\ i \in 1..Len(text) - 1 /\ text[i] \in words /\ text[i + 1] \in Blanks
         /\ Step(text, i, words) = PastBlanks(text, i + 1)
         /\ AfterBlanks(text, i + 1, Step(text, i, words))
<1>1. /\ i \in 1..Len(text) - 1 /\ text[i] \in words /\ text[i + 1] \in Blanks
      /\ Step(text, i, words) = PastBlanks(text, i + 1)
  BY DEF Step
<1>2. i + 1 \in 1..Len(text) + 1
  BY <1>1
<1> QED
  BY <1>1, <1>2, PastBlanksExists

-----------------------------------------------------------------------------
(* Cutting a text where its parts meet.                                    *)
LEMMA CutFrom ==
  ASSUME NEW text \in Text, NEW q \in Text, NEW b \in 0..Len(text), Placed(q, text, b),
         b + Len(q) = Len(text)
  PROVE  From(text, b + 1) = q
<1> DEFINE n == Len(text)
           x == SubSeq(text, b + 1, n)
<1>1. n \in Nat /\ Len(q) \in Nat /\ \A i \in 1..n : text[i] \in Elements
  BY TextFacts
<1>2. \A i \in (b + 1)..n : text[i] \in Elements
  BY <1>1
<1>3. /\ x \in Seq(Elements) /\ Len(x) = IF b + 1 <= n THEN n - (b + 1) + 1 ELSE 0
      /\ \A i \in 1..(n - (b + 1) + 1) : x[i] = text[(b + 1) + i - 1]
  <2>1. b + 1 \in Int /\ n \in Int
    BY <1>1
  <2> HIDE DEF n
  <2> QED
    BY <1>2, <2>1, SubSeqProperties
<1> HIDE DEF x, n
<1>4. Len(x) = Len(q)
  BY <1>1, <1>3 DEF n
<1>5. ASSUME NEW i \in 1..Len(x) PROVE x[i] = q[i]
  <2>1. i \in 1..(n - (b + 1) + 1) /\ (b + 1) + i - 1 = b + i /\ i \in 1..Len(q)
    BY <1>1, <1>3, <1>4 DEF n
  <2> QED
    BY <1>3, <2>1 DEF Placed
<1>6. x = q
  <2>1. x \in Seq(Elements) /\ q \in Seq(Elements)
    BY <1>3 DEF Text
  <2> QED
    BY <1>4, <1>5, <2>1, SeqEqual
<1> QED
  BY <1>6 DEF From, x, n

(* What stands before the end of a first piece is that piece.              *)
LEMMA CutBefore ==
  ASSUME NEW text \in Text, NEW p \in Text, Placed(p, text, 0)
  PROVE  Before(text, Len(p) + 1) = p
<1> DEFINE n == Len(p)
           x == SubSeq(text, 1, n)
<1>1. n \in Nat /\ Len(text) \in Nat /\ \A i \in 1..Len(text) : text[i] \in Elements
  BY TextFacts
<1>2. n <= Len(text) /\ \A j \in 1..n : text[j] = p[j]
  <2>1. \A j \in 1..n : 0 + j = j
    BY <1>1
  <2> QED
    BY <1>1, <2>1 DEF Placed
<1> HIDE DEF n
<1>3. /\ x \in Seq(Elements) /\ Len(x) = IF 1 <= n THEN n - 1 + 1 ELSE 0
      /\ \A i \in 1..(n - 1 + 1) : x[i] = text[1 + i - 1]
  <2>1. 1 \in Int /\ n \in Int /\ \A i \in 1..n : text[i] \in Elements
    BY <1>1, <1>2
  <2> QED
    BY <2>1, SubSeqProperties
<1>4. Before(text, n + 1) = x
  <2>1. (n + 1) - 1 = n
    BY <1>1
  <2> QED
    BY <2>1 DEF Before
<1> HIDE DEF x
<1>5. Len(x) = n
  BY <1>1, <1>3
<1>6. ASSUME NEW i \in 1..Len(x) PROVE x[i] = p[i]
  <2>1. i \in 1..(n - 1 + 1) /\ 1 + i - 1 = i /\ i \in 1..n
    BY <1>1, <1>5
  <2> QED
    BY <1>2, <1>3, <2>1
<1>7. x = p
  <2>1. x \in Seq(Elements) /\ p \in Seq(Elements)
    BY <1>3 DEF Text
  <2> QED
    BY <1>5, <1>6, <2>1, SeqEqual DEF n
<1> QED
  BY <1>4, <1>7 DEF n

-----------------------------------------------------------------------------
(* The text of a statement cut at its conflict clause, and at its UPSERT.  *)
AheadRest(r) == IntoPart(r) \o <<"t">> \o <<"sp">> \o NotePart(r) \o Body(r)
Rest(r) == AheadRest(r) \o Upsert(r) \o Semi(r)
WithRest(r, rest) == WithPart(r) \o (<<r.verb>> \o (r.gap \o (OrPart(r) \o rest)))

(* All parts are texts.                                                    *)
LEMMA PartTypes ==
  ASSUME NEW r, Shaped(r)
  PROVE  /\ WithPart(r) \in Text /\ <<r.verb>> \in Text /\ r.gap \in Text /\ OrPart(r) \in Text
         /\ IntoPart(r) \in Text /\ <<"t">> \in Text /\ <<"sp">> \in Text /\ NotePart(r) \in Text
         /\ Body(r) \in Text /\ Upsert(r) \in Text /\ Semi(r) \in Text
<1>1. /\ r.verb \in {"INSERT", "REPLACE", "UPDATE"} /\ r.clause \in Algorithms \cup {"none"}
      /\ r.gap \in Text /\ r.note \in Text
  BY RecordFacts DEF Shaped
<1>2. /\ r.verb \in Elements /\ "t" \in Elements /\ "sp" \in Elements /\ "OR" \in Elements
      /\ "INTO" \in Elements /\ "semi" \in Elements /\ (r.clause = "none" \/ r.clause \in Elements)
  <2>1. r.verb \in Words /\ "t" \in Words /\ "OR" \in Words /\ "INTO" \in Words
        /\ (r.clause = "none" \/ r.clause \in Words)
    BY <1>1 DEF Words, Algorithms
  <2>2. "sp" \in Marks /\ "semi" \in Marks
    BY DEF Marks, Blanks
  <2> QED
    BY <2>1, <2>2, MarksAreElements
<1>3. OrPart(r) \in Text
  <2>1. CASE r.clause = "none"
    BY <2>1, EmptySeq DEF OrPart, Optional, Text
  <2>2. CASE r.clause # "none"
    <3>1. <<"OR", "sp", r.clause, "sp">> \in Seq(Elements)
      BY <1>2, <2>2
    <3> QED
      BY <2>2, <3>1 DEF OrPart, Optional, Text
  <2> QED
    BY <2>1, <2>2
<1>4. IntoPart(r) \in Text
  <2>1. <<"INTO", "sp">> \in Seq(Elements) /\ <<>> \in Seq(Elements)
    BY <1>2
  <2> QED
    BY <2>1 DEF IntoPart, Optional, Text
<1>5. Semi(r) \in Text
  <2>1. <<"semi">> \in Seq(Elements) /\ <<>> \in Seq(Elements)
    BY <1>2
  <2> QED
    BY <2>1 DEF Semi, Optional, Text
<1>6. <<r.verb>> \in Text /\ <<"t">> \in Text /\ <<"sp">> \in Text
  BY <1>2, OneMark
<1>7. NotePart(r) \in Text
  <2>1. r.note \o <<"sp">> \in Text /\ <<>> \in Text
    BY <1>1, <1>6, Concat, EmptySeq DEF Text
  <2> QED
    BY <2>1 DEF NotePart, Optional
<1> QED
  BY <1>1, <1>3, <1>4, <1>5, <1>6, <1>7, WithPiece, BodyPiece, UpsertPiece DEF Loose, Quiet

(* One piece more at the end.                                              *)
LEMMA PushRest ==
  ASSUME NEW r, Shaped(r), NEW z \in Text, NEW x \in Text
  PROVE  WithRest(r, z) \o x = WithRest(r, z \o x)
<1> DEFINE a == WithPart(r)
           v == <<r.verb>>
           g == r.gap
           o == OrPart(r)
           oz == o \o z
           goz == g \o oz
           vgoz == v \o goz
<1>1. a \in Text /\ v \in Text /\ g \in Text /\ o \in Text
  BY PartTypes
<1> HIDE DEF a, v, g, o
<1>2. oz \in Text
  BY <1>1, Concat
<1>3. oz \o x = o \o (z \o x)
  OBVIOUS
<1> HIDE DEF oz
<1>4. goz \in Text
  BY <1>1, <1>2, Concat
<1>5. goz \o x = g \o (oz \o x)
  OBVIOUS
<1> HIDE DEF goz
<1>6. vgoz \in Text
  BY <1>1, <1>4, Concat
<1>7. vgoz \o x = v \o (goz \o x)
  OBVIOUS
<1> HIDE DEF vgoz
<1>8. (a \o vgoz) \o x = a \o (vgoz \o x)
  OBVIOUS
<1>9. WithRest(r, z) = a \o vgoz
  BY DEF WithRest, a, v, g, o, oz, goz, vgoz
<1>10. WithRest(r, z \o x) = a \o (v \o (g \o (o \o (z \o x))))
  BY DEF WithRest, a, v, g, o
<1>11. WithRest(r, z \o x) = a \o (vgoz \o x)
  BY <1>3, <1>5, <1>7, <1>10
<1> QED
  BY <1>8, <1>9, <1>11

(* A statement is its WITH, its verb and the rest.                         *)
LEMMA RenderSplit ==
  ASSUME NEW r, Shaped(r)
  PROVE  /\ Ahead(r) = WithRest(r, AheadRest(r)) /\ Render(r) = WithRest(r, Rest(r))
         /\ AheadRest(r) \in Text /\ Rest(r) \in Text
<1> DEFINE a == WithPart(r)
           v == <<r.verb>>
           g == r.gap
           o == OrPart(r)
           x1 == IntoPart(r)
           x2 == <<"t">>
           x3 == <<"sp">>
           x4 == NotePart(r)
           x5 == Body(r)
           x6 == Upsert(r)
           x7 == Semi(r)
           y2 == x1 \o x2
           y3 == y2 \o x3
           y4 == y3 \o x4
           y5 == y4 \o x5
           y6 == y5 \o x6
           y7 == y6 \o x7
<1>1. /\ a \in Text /\ v \in Text /\ g \in Text /\ o \in Text /\ x1 \in Text /\ x2 \in Text
      /\ x3 \in Text /\ x4 \in Text /\ x5 \in Text /\ x6 \in Text /\ x7 \in Text
  BY PartTypes
<1>2. AheadRest(r) = y5 /\ Rest(r) = y7
  BY DEF AheadRest, Rest
<1>3. Ahead(r) = (((a \o ((((v \o g) \o o) \o x1) \o x2)) \o x3) \o x4) \o x5
  BY DEF Ahead, Verb, OrPart, IntoPart
<1>4. Render(r) = (Ahead(r) \o x6) \o x7
  BY RenderFront
<1> HIDE DEF a, v, g, o, x1, x2, x3, x4, x5, x6, x7
<1>5. y2 \in Text
  BY <1>1, Concat
<1>6. y3 \in Text
  <2> HIDE DEF y2
  <2> QED
    BY <1>1, <1>5, Concat
<1>7. y4 \in Text
  <2> HIDE DEF y3
  <2> QED
    BY <1>1, <1>6, Concat
<1>8. y5 \in Text
  <2> HIDE DEF y4
  <2> QED
    BY <1>1, <1>7, Concat
<1>9. y6 \in Text
  <2> HIDE DEF y5
  <2> QED
    BY <1>1, <1>8, Concat
<1>10. y7 \in Text
  <2> HIDE DEF y6
  <2> QED
    BY <1>1, <1>9, Concat
<1>11. (((v \o g) \o o) \o x1) \o x2 = v \o (g \o (o \o y2))
  <2> DEFINE vg == v \o g
             vgo == vg \o o
             oy == o \o y2
  <2>1. vg \in Text /\ vgo \in Text /\ oy \in Text
    <3>1. vg \in Text
      BY <1>1, Concat
    <3> HIDE DEF vg, y2
    <3> QED
      BY <1>1, <1>5, <3>1, Concat
  <2>2. (vgo \o x1) \o x2 = vgo \o y2
    <3> HIDE DEF vgo
    <3> QED
      OBVIOUS
  <2>3. vgo \o y2 = vg \o oy
    <3> HIDE DEF vg, y2
    <3> QED
      OBVIOUS
  <2>4. vg \o oy = v \o (g \o oy)
    <3> HIDE DEF oy
    <3> QED
      OBVIOUS
  <2> HIDE DEF y2
  <2> QED
    BY <2>2, <2>3, <2>4
<1>12. a \o ((((v \o g) \o o) \o x1) \o x2) = WithRest(r, y2)
  BY <1>11 DEF WithRest, a, v, g, o
<1> HIDE DEF y2
<1>13. WithRest(r, y2) \o x3 = WithRest(r, y3)
  <2> HIDE DEF y2
  <2>1. y2 \in Text /\ x3 \in Text
    BY <1>1, <1>5
  <2> QED
    BY <2>1, PushRest
<1> HIDE DEF y3
<1>14. WithRest(r, y3) \o x4 = WithRest(r, y4)
  <2> HIDE DEF y3
  <2>1. y3 \in Text /\ x4 \in Text
    BY <1>1, <1>6
  <2> QED
    BY <2>1, PushRest
<1> HIDE DEF y4
<1>15. WithRest(r, y4) \o x5 = WithRest(r, y5)
  <2> HIDE DEF y4
  <2>1. y4 \in Text /\ x5 \in Text
    BY <1>1, <1>7
  <2> QED
    BY <2>1, PushRest
<1>16. Ahead(r) = WithRest(r, y5)
  BY <1>3, <1>12, <1>13, <1>14, <1>15
<1> HIDE DEF y5
<1>17. WithRest(r, y5) \o x6 = WithRest(r, y6)
  <2> HIDE DEF y5
  <2>1. y5 \in Text /\ x6 \in Text
    BY <1>1, <1>8
  <2> QED
    BY <2>1, PushRest
<1> HIDE DEF y6
<1>18. WithRest(r, y6) \o x7 = WithRest(r, y7)
  <2> HIDE DEF y6
  <2>1. y6 \in Text /\ x7 \in Text
    BY <1>1, <1>9
  <2> QED
    BY <2>1, PushRest
<1>19. Render(r) = WithRest(r, y7)
  BY <1>4, <1>16, <1>17, <1>18
<1> QED
  BY <1>2, <1>8, <1>10, <1>16, <1>19

-----------------------------------------------------------------------------
(* Where the parts stand.                                                  *)
LEMMA PlacedSelf ==
  ASSUME NEW text \in Text
  PROVE  Placed(text, text, 0) /\ 0 \in 0..Len(text)
<1>1. Len(text) \in Nat
  BY TextFacts
<1>2. \A j \in 1..Len(text) : 0 + j = j
  BY <1>1
<1> QED
  BY <1>1, <1>2 DEF Placed

(* One word, blanks behind it, and what follows them.                      *)
LEMMA StepAt ==
  ASSUME NEW text \in Text, NEW b \in 0..Len(text), NEW w \in Elements, NEW g \in Text,
         NEW q \in Text, Placed(<<w>> \o (g \o q), text, b), g # <<>>, IsBlank(g), q # <<>>,
         q[1] \notin Blanks
  PROVE  /\ text[b + 1] = w /\ text[b + 2] \in Blanks
         /\ StepsTo(text, b + 1, w, b + Len(g) + 2)
         /\ Placed(q, text, b + Len(g) + 1) /\ b + Len(g) + 1 \in 0..Len(text)
         /\ b + Len(g) + 2 \in 1..Len(text) /\ text[b + Len(g) + 2] = q[1]
<1> DEFINE n == Len(g)
           x == <<w>>
           y == g \o q
<1>1. x \in Text /\ Len(x) = 1 /\ x[1] = w /\ y \in Text
  BY OneMark, Concat
<1>2. n \in Nat \ {0} /\ Len(q) \in Nat \ {0} /\ Len(text) \in Nat
  BY TextFacts, EmptySeq DEF Text
<1>3. \A i \in 1..n : g[i] \in Blanks
  BY TextFacts DEF IsBlank
<1>4. Placed(x, text, b) /\ Placed(y, text, b + 1) /\ b + 1 \in 0..Len(text)
  <2> HIDE DEF x, y
  <2>1. Placed(x \o y, text, b)
    BY DEF x, y
  <2> QED
    BY <1>1, <2>1, PlacedConcat
<1>5. Placed(g, text, b + 1) /\ Placed(q, text, (b + 1) + n) /\ (b + 1) + n \in 0..Len(text)
  BY <1>4, PlacedConcat
<1> HIDE DEF n, x, y
<1>6. (b + 1) + n = b + n + 1 /\ (b + 1) + 1 = b + 2 /\ (b + n + 1) + 1 = b + n + 2
  BY <1>2
<1>7. text[b + 1] = w
  BY <1>1, <1>4 DEF Placed
<1>8. (b + 1) + n <= Len(text) /\ \A j \in 1..n : text[(b + 1) + j] = g[j]
  BY <1>5 DEF Placed, n
<1>9. ((b + 1) + n) + Len(q) <= Len(text) /\ text[((b + 1) + n) + 1] = q[1]
  <2>1. 1 \in 1..Len(q)
    BY <1>2
  <2> QED
    BY <1>5, <2>1 DEF Placed
<1>10. text[b + 2] \in Blanks
  <2>1. 1 \in 1..n
    BY <1>2
  <2> QED
    BY <1>3, <1>6, <1>8, <2>1
<1>11. b + n + 2 \in 1..Len(text) /\ text[b + n + 2] = q[1]
  BY <1>2, <1>6, <1>9
<1>12. AfterBlanks(text, b + 2, b + n + 2)
  <2>1. b + n + 2 \in b + 2..Len(text) + 1
    BY <1>2, <1>11
  <2>2. ASSUME NEW k \in b + 2..(b + n + 2) - 1 PROVE text[k] \in Blanks
    <3>1. k - (b + 1) \in 1..n /\ (b + 1) + (k - (b + 1)) = k
      BY <1>2, <2>2
    <3> QED
      BY <1>3, <1>8, <3>1
  <2> QED
    BY <1>11, <2>1, <2>2 DEF AfterBlanks
<1>13. PastBlanks(text, b + 2) = b + n + 2
  <2>1. b + 2 \in Nat \ {0}
    OBVIOUS
  <2> QED
    BY <1>2, <1>12, <2>1, PastBlanksIs
<1>14. b + 1 \in 1..Len(text) - 1
  BY <1>2, <1>6, <1>9
<1>15. StepsTo(text, b + 1, w, b + n + 2)
  BY <1>6, <1>7, <1>10, <1>13, <1>14 DEF Step, StepsTo
<1> QED
  BY <1>5, <1>6, <1>7, <1>10, <1>11, <1>15 DEF n

(* Where the pieces of a statement stand in its text.                      *)
LEMMA RenderPlaces ==
  ASSUME NEW r, Shaped(r), NEW text, text = Render(r), NEW a, a = Len(WithPart(r)),
         NEW f, f = Len(Ahead(r))
  PROVE  /\ text \in Text /\ Len(text) \in Nat /\ a \in 0..Len(text) /\ f \in 0..Len(text)
         /\ Placed(WithPart(r), text, 0)
         /\ Placed(<<r.verb>> \o (r.gap \o (OrPart(r) \o Rest(r))), text, a)
         /\ Len(text) = a + Len(<<r.verb>> \o (r.gap \o (OrPart(r) \o Rest(r))))
         /\ Placed(Ahead(r), text, 0) /\ Placed(Upsert(r) \o Semi(r), text, f)
         /\ Len(text) = f + Len(Upsert(r) \o Semi(r))
<1> DEFINE w == WithPart(r)
           ors == OrPart(r) \o Rest(r)
           gor == r.gap \o ors
           vgor == <<r.verb>> \o gor
           front == Ahead(r)
           us == Upsert(r) \o Semi(r)
<1>1. /\ w \in Text /\ r.gap \in Text /\ OrPart(r) \in Text /\ <<r.verb>> \in Text /\ Rest(r) \in Text
      /\ front \in Text /\ Upsert(r) \in Text /\ Semi(r) \in Text
  BY PartTypes, RenderSplit, FrontPiece
<1>2. ors \in Text
  BY <1>1, Concat
<1>3. gor \in Text
  <2> HIDE DEF ors
  <2> QED
    BY <1>1, <1>2, Concat
<1>4. vgor \in Text
  <2> HIDE DEF gor
  <2> QED
    BY <1>1, <1>3, Concat
<1>5. us \in Text
  BY <1>1, Concat
<1>6. text = w \o vgor
  BY RenderSplit DEF WithRest
<1>7. text = front \o us
  <2>1. text = (front \o Upsert(r)) \o Semi(r)
    BY RenderFront
  <2> DEFINE u == Upsert(r)
             s == Semi(r)
  <2>2. text = (front \o u) \o s /\ us = u \o s
    BY <2>1
  <2> HIDE DEF front, u, s, us
  <2>3. (front \o u) \o s = front \o (u \o s)
    OBVIOUS
  <2> QED
    BY <2>2, <2>3
<1> HIDE DEF w, vgor, front, us
<1>8. text \in Text /\ Len(text) \in Nat
  BY <1>1, <1>4, <1>6, Concat, TextFacts
<1>9. 0 + Len(w) = Len(w) /\ 0 + Len(front) = Len(front)
  BY <1>1, TextFacts
<1>10. Placed(w \o vgor, text, 0) /\ Placed(front \o us, text, 0) /\ 0 \in 0..Len(text)
  BY <1>6, <1>7, <1>8, PlacedSelf
<1>11. Placed(w, text, 0) /\ Placed(vgor, text, Len(w)) /\ Len(w) \in 0..Len(text)
  <2>1. Placed(w, text, 0) /\ Placed(vgor, text, 0 + Len(w)) /\ 0 + Len(w) \in 0..Len(text)
    BY <1>1, <1>4, <1>8, <1>10, PlacedConcat
  <2> QED
    BY <1>9, <2>1
<1>12. Placed(front, text, 0) /\ Placed(us, text, Len(front)) /\ Len(front) \in 0..Len(text)
  <2>1. Placed(front, text, 0) /\ Placed(us, text, 0 + Len(front)) /\ 0 + Len(front) \in 0..Len(text)
    BY <1>1, <1>5, <1>8, <1>10, PlacedConcat
  <2> QED
    BY <1>9, <2>1
<1>13. Len(text) = Len(w) + Len(vgor) /\ Len(text) = Len(front) + Len(us)
  BY <1>1, <1>4, <1>5, <1>6, <1>7, Concat
<1> QED
  BY <1>8, <1>11, <1>12, <1>13 DEF w, vgor, front, us

(* What follows a conflict clause.                                         *)
LEMMA RestStarts ==
  ASSUME NEW r, Shaped(r)
  PROVE  /\ Rest(r) \in Text /\ Rest(r) # <<>>
         /\ Rest(r)[1] = IF r.verb = "UPDATE" THEN "t" ELSE "INTO"
         /\ r.verb # "UPDATE" => \E q \in Text : Rest(r) = <<"INTO">> \o (<<"sp">> \o q) /\ q # <<>> /\ q[1] = "t"
<1> DEFINE x1 == IntoPart(r)
           x2 == <<"t">>
           x3 == <<"sp">>
           x4 == NotePart(r)
           x5 == Body(r)
           x6 == Upsert(r)
           x7 == Semi(r)
           z6 == x6 \o x7
           z5 == x5 \o z6
           z4 == x4 \o z5
           z3 == x3 \o z4
           q == x2 \o z3
<1>1. /\ x1 \in Text /\ x2 \in Text /\ x3 \in Text /\ x4 \in Text /\ x5 \in Text /\ x6 \in Text
      /\ x7 \in Text
  BY PartTypes
<1>2. Rest(r) = (((((x1 \o x2) \o x3) \o x4) \o x5) \o x6) \o x7
  BY DEF Rest, AheadRest
<1>3. Len(x2) = 1 /\ x2[1] = "t"
  OBVIOUS
<1> HIDE DEF x4, x5, x6, x7
<1>4. (r.verb = "UPDATE" => x1 = <<>>) /\ (r.verb # "UPDATE" => x1 = <<"INTO", "sp">>)
  BY DEF IntoPart, Optional
<1> HIDE DEF x1, x2, x3
<1>5. z6 \in Text
  BY <1>1, Concat
<1>6. z5 \in Text
  <2> HIDE DEF z6
  <2> QED
    BY <1>1, <1>5, Concat
<1>7. z4 \in Text
  <2> HIDE DEF z5
  <2> QED
    BY <1>1, <1>6, Concat
<1>8. z3 \in Text
  <2> HIDE DEF z4
  <2> QED
    BY <1>1, <1>7, Concat
<1>9. q \in Text
  <2> HIDE DEF z3
  <2> QED
    BY <1>1, <1>8, Concat
<1>10. Rest(r) = x1 \o q
  <2> DEFINE y2 == x1 \o x2
             y3 == y2 \o x3
             y4 == y3 \o x4
             y5 == y4 \o x5
  <2>1. y2 \in Text
    BY <1>1, Concat
  <2>2. y3 \in Text
    <3> HIDE DEF y2
    <3> QED
      BY <1>1, <2>1, Concat
  <2>3. y4 \in Text
    <3> HIDE DEF y3
    <3> QED
      BY <1>1, <2>2, Concat
  <2>4. y5 \in Text
    <3> HIDE DEF y4
    <3> QED
      BY <1>1, <2>3, Concat
  <2>5. Rest(r) = y5 \o z6
    <3>1. Rest(r) = (y5 \o x6) \o x7
      BY <1>2
    <3> HIDE DEF y5
    <3>2. (y5 \o x6) \o x7 = y5 \o z6
      OBVIOUS
    <3> HIDE DEF z6
    <3> QED
      BY <3>1, <3>2
  <2>6. y5 \o z6 = y4 \o z5
    <3> HIDE DEF y4, z6
    <3> QED
      OBVIOUS
  <2>7. y4 \o z5 = y3 \o z4
    <3> HIDE DEF y3, z5
    <3> QED
      OBVIOUS
  <2>8. y3 \o z4 = y2 \o z3
    <3> HIDE DEF y2, z4
    <3> QED
      OBVIOUS
  <2>9. y2 \o z3 = x1 \o q
    <3> HIDE DEF z3
    <3> QED
      OBVIOUS
  <2> HIDE DEF y2, y3, y4, y5
  <2> QED
    BY <2>5, <2>6, <2>7, <2>8, <2>9
<1> HIDE DEF z3
<1>11. q # <<>> /\ q[1] = "t"
  <2>1. Len(q) = 1 + Len(z3) /\ Len(z3) \in Nat
    <3>1. x2 \in Text /\ z3 \in Text
      BY <1>1, <1>8
    <3>2. Len(q) = Len(x2) + Len(z3) /\ Len(z3) \in Nat
      BY <3>1, Concat
    <3> HIDE DEF q
    <3> QED
      BY <1>3, <3>2
  <2>2. 1 \in 1..(Len(x2) + Len(z3)) /\ 1 <= Len(x2)
    BY <1>3, <2>1
  <2>3. q[1] = x2[1]
    BY <1>1, <1>8, <2>2, ConcatProperties DEF Text
  <2> HIDE DEF q
  <2> QED
    BY <1>3, <1>9, <2>1, <2>3, EmptySeq
<1> HIDE DEF q
<1>12. CASE r.verb = "UPDATE"
  <2>1. Rest(r) = q
    BY <1>4, <1>9, <1>10, <1>12, ConcatEmptySeq DEF Text
  <2> QED
    BY <1>9, <1>11, <1>12, <2>1
<1>13. CASE r.verb # "UPDATE"
  <2> DEFINE into == <<"INTO">>
             sp == <<"sp">>
             sq == sp \o q
  <2>1. x1 = into \o sp
    BY <1>4, <1>13
  <2>2. into \in Text /\ sp \in Text /\ Len(into) = 1 /\ into[1] = "INTO"
    BY OneMark, MarksAreElements DEF Words, Marks, Blanks
  <2> HIDE DEF into, sp
  <2>3. Rest(r) = into \o sq /\ sq \in Text
    <3>1. sq \in Text
      BY <1>9, <2>2, Concat
    <3> HIDE DEF q
    <3>2. (into \o sp) \o q = into \o (sp \o q)
      OBVIOUS
    <3> QED
      BY <1>10, <2>1, <3>1, <3>2
  <2> HIDE DEF sq
  <2>4. Len(into \o sq) = 1 + Len(sq) /\ Len(sq) \in Nat /\ into \o sq \in Text
    BY <2>2, <2>3, Concat
  <2>5. (into \o sq)[1] = "INTO"
    <3>1. 1 \in 1..(Len(into) + Len(sq)) /\ 1 <= Len(into)
      BY <2>2, <2>4
    <3> QED
      BY <2>2, <2>3, <3>1, ConcatProperties DEF Text
  <2>6. into \o sq # <<>>
    BY <2>4, EmptySeq
  <2> QED
    BY <1>9, <1>11, <1>13, <2>3, <2>4, <2>5, <2>6 DEF into, sp, sq
<1> QED
  BY <1>12, <1>13

(* One word and one blank.                                                 *)
LEMMA StepOne ==
  ASSUME NEW text \in Text, NEW j \in Nat \ {0}, j + 2 <= Len(text), text[j + 1] \in Blanks,
         text[j + 2] \notin Blanks
  PROVE  StepsTo(text, j, text[j], j + 2)
<1>1. Len(text) \in Nat
  BY TextFacts
<1>2. AfterBlanks(text, j + 1, j + 2)
  <2>1. j + 2 \in j + 1..Len(text) + 1
    BY <1>1
  <2>2. ASSUME NEW k \in j + 1..(j + 2) - 1 PROVE text[k] \in Blanks
    <3>1. k = j + 1
      BY <2>2
    <3> QED
      BY <3>1
  <2> QED
    BY <2>1, <2>2 DEF AfterBlanks
<1>3. PastBlanks(text, j + 1) = j + 2
  BY <1>1, <1>2, PastBlanksIs
<1>4. j \in 1..Len(text) - 1
  BY <1>1
<1> QED
  BY <1>3, <1>4 DEF Step, StepsTo

(* The verb of a statement, whatever gap follows it.                       *)
LEMMA VerbAt ==
  ASSUME NEW r, Shaped(r), NEW text, text = Render(r), NEW a, a = Len(WithPart(r))
  PROVE  /\ text \in Text /\ Len(text) \in Nat /\ a \in Nat /\ a + 1 \in 1..Len(text)
         /\ text[a + 1] = r.verb /\ r.verb \in Elements
         /\ Placed(r.gap \o (OrPart(r) \o Rest(r)), text, a + 1) /\ a + 1 \in 0..Len(text)
<1> DEFINE w == <<r.verb>>
           ors == OrPart(r) \o Rest(r)
           y == r.gap \o ors
<1>1. /\ text \in Text /\ Len(text) \in Nat /\ a \in 0..Len(text)
      /\ Placed(w \o y, text, a)
  BY RenderPlaces
<1>2. w \in Text /\ r.gap \in Text /\ OrPart(r) \in Text /\ Rest(r) \in Text
  BY PartTypes, RenderSplit
<1>3. ors \in Text
  BY <1>2, Concat
<1>4. y \in Text
  <2> HIDE DEF ors
  <2> QED
    BY <1>2, <1>3, Concat
<1>5. Len(w) = 1 /\ w[1] = r.verb
  OBVIOUS
<1>6. r.verb \in Elements
  <2>1. 1 \in 1..Len(w) /\ w[1] = r.verb
    OBVIOUS
  <2> HIDE DEF w
  <2> QED
    BY <1>2, <2>1, TextFacts
<1> HIDE DEF w, y
<1>7. Placed(w, text, a) /\ Placed(y, text, a + 1) /\ a + 1 \in 0..Len(text)
  BY <1>1, <1>2, <1>4, <1>5, PlacedConcat
<1>8. text[a + 1] = r.verb
  <2>1. 1 \in 1..Len(w)
    BY <1>5
  <2> QED
    BY <1>5, <1>7, <2>1 DEF Placed
<1>9. a \in Nat /\ a + 1 \in 1..Len(text)
  BY <1>1, <1>7
<1> QED
  BY <1>1, <1>6, <1>7, <1>8, <1>9 DEF y, ors

(* Where the verb and the clause stand, when only blanks part them.      *)
ClauseFacts(r, text, a, n) ==
  /\ n \in Nat /\ StepsTo(text, a + 1, r.verb, a + n + 2)
  /\ r.clause # "none" => /\ text[a + n + 2] = "OR" /\ text[a + n + 4] = r.clause
                      /\ StepsTo(text, a + n + 2, "OR", a + n + 4)
                      /\ StepsTo(text, a + n + 4, r.clause, a + n + 6)
                      /\ Placed(Rest(r), text, a + n + 5) /\ a + n + 5 \in 0..Len(text)
                      /\ a + n + 5 + Len(Rest(r)) = Len(text)
  /\ r.clause = "none" => /\ text[a + n + 2] = Rest(r)[1]
                      /\ Placed(Rest(r), text, a + n + 1) /\ a + n + 1 \in 0..Len(text)
                      /\ a + n + 1 + Len(Rest(r)) = Len(text)

(* The verb and the conflict clause, where only blanks part them.          *)
LEMMA ClauseAt ==
  ASSUME NEW r, Shaped(r), NEW text, text = Render(r), NEW a, a = Len(WithPart(r)),
         NEW n, n = Len(r.gap), IsBlank(r.gap)
  PROVE  ClauseFacts(r, text, a, n)
<1> DEFINE w == <<r.verb>>
           g == r.gap
           o == OrPart(r)
           q == Rest(r)
           ors == o \o q
           gor == g \o ors
<1>1. /\ text \in Text /\ Len(text) \in Nat /\ a \in Nat /\ a \in 0..Len(text) /\ r.verb \in Elements
      /\ Placed(w \o gor, text, a) /\ Len(text) = a + Len(w \o gor)
  BY RenderPlaces, VerbAt
<1>2. w \in Text /\ g \in Text /\ o \in Text /\ q \in Text /\ Len(w) = 1
  BY PartTypes, RenderSplit
<1>3. q # <<>> /\ q[1] \in {"t", "INTO"}
  BY RestStarts
<1>4. /\ r.clause = "none" => o = <<>>
      /\ r.clause # "none" => Len(o) = 4 /\ o[1] = "OR" /\ o[2] = "sp" /\ o[3] = r.clause /\ o[4] = "sp"
  BY DEF OrPart, Optional
<1>5. g # <<>>
  <2>1. Gap(g)
    BY DEF Shaped
  <2> HIDE DEF g
  <2>2. ASSUME g = <<>> PROVE FALSE
    <3>1. Len(g) = 0
      BY <2>2
    <3>2. PICK i \in 0 .. Len(g) : \E j \in i .. Len(g) : Comment(SubSeq(g, i + 1, j))
      BY <2>1, <2>2 DEF Gap
    <3>3. PICK j \in i .. Len(g) : Comment(SubSeq(g, i + 1, j))
      BY <3>2
    <3>4. i = 0 /\ j = 0
      BY <3>1
    <3>5. SubSeq(g, 1, 0) = <<>>
      BY <2>2
    <3>6. Comment(<<>>)
      <4>1. SubSeq(g, i + 1, j) = SubSeq(g, 1, 0)
        BY <3>4
      <4> QED
        BY <3>3, <3>5, <4>1
    <3>7. Len(<<>>) = 0
      OBVIOUS
    <3> QED
      BY <3>6, <3>7 DEF Comment, LineComment, BlockComment
  <2> QED
    BY <2>2
<1>6. r.clause \in Algorithms \cup {"none"}
  BY RecordFacts DEF Shaped
<1>7. /\ \A e \in Algorithms : e \notin Blanks
      /\ "OR" \notin Blanks /\ "t" \notin Blanks /\ "INTO" \notin Blanks /\ "sp" \in Blanks
  BY DEF Blanks, Algorithms
<1> HIDE DEF w, o, q
<1>8. ors \in Text /\ Len(ors) = Len(o) + Len(q) /\ Len(o) \in Nat /\ Len(q) \in Nat /\ Len(q) >= 1
  <2>1. Len(q) # 0
    BY <1>2, <1>3, EmptySeq DEF Text
  <2> QED
    BY <1>2, <2>1, Concat
<1>9. ors # <<>> /\ ors[1] \notin Blanks
  <2>1. CASE r.clause = "none"
    <3>1. ors = q
      BY <1>2, <1>4, <2>1, ConcatEmptySeq DEF Text
    <3> HIDE DEF ors
    <3> QED
      BY <1>3, <1>7, <3>1
  <2>2. CASE r.clause # "none"
    <3>1. 1 \in 1..(Len(o) + Len(q)) /\ 1 <= Len(o)
      BY <1>4, <1>8, <2>2
    <3>2. ors[1] = "OR"
      BY <1>2, <1>4, <2>2, <3>1, ConcatProperties DEF Text
    <3> HIDE DEF ors
    <3>3. ors # <<>>
      BY <1>8, <3>1, EmptySeq DEF Text
    <3> QED
      BY <1>7, <3>2, <3>3
  <2> QED
    BY <2>1, <2>2
<1> HIDE DEF g, ors
<1>10. /\ StepsTo(text, a + 1, r.verb, a + Len(g) + 2)
       /\ Placed(ors, text, a + Len(g) + 1) /\ a + Len(g) + 1 \in 0..Len(text)
       /\ text[a + Len(g) + 2] = ors[1]
  <2>1. IsBlank(g) /\ Placed(<<r.verb>> \o (g \o ors), text, a)
    BY <1>1 DEF g, w
  <2>2. text \in Text /\ a \in 0..Len(text) /\ r.verb \in Elements /\ g \in Text /\ ors \in Text
    BY <1>1, <1>2, <1>8
  <2>3. ors # <<>> /\ ors[1] \notin Blanks
    BY <1>9
  <2> DEFINE v == r.verb
  <2>4. /\ text \in Text /\ a \in 0..Len(text) /\ v \in Elements /\ g \in Text /\ ors \in Text
        /\ IsBlank(g) /\ g # <<>> /\ Placed(<<v>> \o (g \o ors), text, a)
    BY <1>5, <2>1, <2>2
  <2> HIDE DEF v
  <2>5. /\ StepsTo(text, a + 1, v, a + Len(g) + 2)
        /\ Placed(ors, text, a + Len(g) + 1) /\ a + Len(g) + 1 \in 0..Len(text)
        /\ text[a + Len(g) + 2] = ors[1]
    BY <2>3, <2>4, StepAt, SMTT(60)
  <2> QED
    BY <2>5 DEF v
<1>11. n = Len(g) /\ n \in Nat
  BY <1>2, TextFacts DEF g
<1>12. Len(text) = a + n + 1 + Len(ors)
  <2>1. gor \in Text /\ Len(gor) = n + Len(ors)
    BY <1>2, <1>8, <1>11, Concat
  <2>2. w \in Text /\ Len(w) = 1 /\ gor \in Text
    BY <1>2, <2>1
  <2> DEFINE wgor == w \o gor
  <2>3. Len(text) = a + Len(wgor)
    BY <1>1
  <2> HIDE DEF gor
  <2>4. Len(wgor) = Len(w) + Len(gor)
    BY <2>2, Concat
  <2> HIDE DEF wgor
  <2>5. a \in Nat /\ n \in Nat /\ Len(ors) \in Nat
    BY <1>1, <1>8, <1>11
  <2> QED
    BY <2>1, <2>2, <2>3, <2>4, <2>5
<1>13. Placed(o, text, a + n + 1) /\ Placed(q, text, (a + n + 1) + Len(o)) /\ (a + n + 1) + Len(o) \in 0..Len(text)
  <2>1. Placed(o \o q, text, a + n + 1) /\ a + n + 1 \in 0..Len(text)
    BY <1>10, <1>11 DEF ors
  <2> QED
    BY <1>1, <1>2, <2>1, PlacedConcat
<1>14. CASE r.clause = "none"
  <2>1. Len(o) = 0 /\ (a + n + 1) + 0 = a + n + 1 /\ ors = q
    BY <1>1, <1>2, <1>4, <1>11, <1>14, ConcatEmptySeq DEF Text, ors
  <2>2. text[a + n + 2] = q[1] /\ Placed(q, text, a + n + 1) /\ a + n + 1 \in 0..Len(text)
    BY <1>10, <1>11, <1>13, <2>1
  <2>3. a + n + 1 + Len(q) = Len(text)
    BY <1>12, <2>1
  <2> QED
    BY <1>10, <1>11, <1>14, <2>2, <2>3 DEF q, ClauseFacts
<1>15. CASE r.clause # "none"
  <2>1. /\ Len(o) = 4 /\ o[1] = "OR" /\ o[2] = "sp" /\ o[3] = r.clause /\ o[4] = "sp"
        /\ (a + n + 1) + 4 = a + n + 5 /\ a + n + 5 + 1 = a + n + 6
        /\ (a + n + 1) + 1 = a + n + 2 /\ (a + n + 1) + 2 = a + n + 3
        /\ (a + n + 1) + 3 = a + n + 4 /\ (a + n + 1) + 4 = a + n + 5
    BY <1>1, <1>4, <1>11, <1>15
  <2>2. \A j \in 1..4 : text[(a + n + 1) + j] = o[j]
    BY <1>13, <2>1 DEF Placed
  <2>3. /\ text[a + n + 2] = "OR" /\ text[a + n + 3] = "sp"
        /\ text[a + n + 4] = r.clause /\ text[a + n + 5] = "sp"
    <3>1. 1 \in 1..4 /\ 2 \in 1..4 /\ 3 \in 1..4 /\ 4 \in 1..4
      OBVIOUS
    <3> QED
      BY <2>1, <2>2, <3>1
  <2>4. Placed(q, text, a + n + 5) /\ a + n + 5 \in 0..Len(text)
    BY <1>13, <2>1
  <2>5. text[a + n + 6] = q[1] /\ a + n + 6 <= Len(text) /\ a + n + 5 + Len(q) = Len(text)
    <3>1. 1 \in 1..Len(q)
      BY <1>8
    <3>2. text[a + n + 5 + 1] = q[1]
      BY <2>4, <3>1 DEF Placed
    <3> DEFINE l == Len(text)
               lq == Len(q)
               lo == Len(ors)
    <3>3. lo = 4 + lq /\ lq \in Nat /\ lq >= 1
      BY <1>8, <2>1
    <3>4. a \in Nat /\ n \in Nat /\ l = a + n + 1 + lo
      BY <1>1, <1>11, <1>12
    <3> HIDE DEF l, lq, lo
    <3>5. a + n + 5 + 1 = a + n + 6 /\ a + n + 5 + lq = l /\ a + n + 6 <= l
      BY ONLY <3>3, <3>4
    <3> QED
      BY <3>2, <3>5 DEF l, lq
  <2> DEFINE i == a + n + 2
             j == a + n + 4
  <2>6. /\ i \in Nat \ {0} /\ i + 2 <= Len(text) /\ i + 1 = a + n + 3 /\ i + 2 = a + n + 4
        /\ j \in Nat \ {0} /\ j + 2 <= Len(text) /\ j + 1 = a + n + 5 /\ j + 2 = a + n + 6
    BY <1>1, <1>11, <2>5
  <2>7. text[i + 1] \in Blanks /\ text[i + 2] \notin Blanks /\ text[j + 1] \in Blanks /\ text[j + 2] \notin Blanks
    <3>1. /\ text[a + n + 3] \in Blanks /\ text[a + n + 4] \notin Blanks
          /\ text[a + n + 5] \in Blanks
      BY <1>6, <1>7, <1>15, <2>3
    <3>2. text[a + n + 6] \notin Blanks
      BY <1>3, <1>7, <2>5
    <3>3. i + 1 = a + n + 3 /\ i + 2 = a + n + 4 /\ j + 1 = a + n + 5 /\ j + 2 = a + n + 6
      BY <2>6
    <3> HIDE DEF i, j
    <3> QED
      BY ONLY <3>1, <3>2, <3>3
  <2>8. text[i] = "OR" /\ text[j] = r.clause
    BY <2>3
  <2> HIDE DEF i, j
  <2>9. /\ StepsTo(text, i, text[i], i + 2)
        /\ StepsTo(text, j, text[j], j + 2)
    BY <1>1, <2>6, <2>7, StepOne
  <2>10. /\ StepsTo(text, a + n + 2, "OR", a + n + 4)
         /\ StepsTo(text, a + n + 4, r.clause, a + n + 6)
    BY <2>6, <2>8, <2>9 DEF i, j
  <2> QED
    BY <1>10, <1>11, <1>15, <2>3, <2>4, <2>5, <2>10 DEF q, ClauseFacts
<1> QED
  BY <1>14, <1>15

(* Where the words of an UPSERT stand.                                   *)
UpsertFacts(r, text, f) ==
  /\ f \in Nat /\ f + 4 <= Len(text)
  /\ text[f + 2] = "ON" /\ text[f + 3] = "sp" /\ text[f + 4] = "CONFLICT"
  /\ PastBlanks(text, f + 3) = f + 4
  /\ r.upsert = "update" => /\ f + 10 <= Len(text) /\ text[f + 8] = "UPDATE" /\ text[f + 10] = "SET"
                            /\ StepsTo(text, f + 8, "UPDATE", f + 10)

(* The words of an UPSERT.                                                 *)
LEMMA UpsertAt ==
  ASSUME NEW r, Shaped(r), NEW text, text = Render(r), NEW f, f = Len(Ahead(r)), r.upsert # "none"
  PROVE  UpsertFacts(r, text, f)
<1> DEFINE words0 == <<"sp", "ON", "sp", "CONFLICT", "sp", "DO", "sp">>
           update == <<"UPDATE", "sp", "SET", "sp", "c", "=">>
           where == Optional(r.where, <<"sp", "WHERE", "sp", "1">>)
           more == r.set \o where
           act == IF r.upsert = "nothing" THEN <<"NOTHING">> ELSE (update \o r.set) \o where
           u == Upsert(r)
           s == Semi(r)
<1>1. /\ text \in Text /\ Len(text) \in Nat /\ f \in 0..Len(text) /\ Placed(u \o s, text, f)
  BY RenderPlaces
<1>2. u \in Text /\ s \in Text
  BY PartTypes
<1>3. r.upsert \in {"nothing", "update"} /\ r.set \in Text
  BY RecordFacts DEF Shaped
<1>4. words0 \in Text /\ Len(words0) = 7 /\ words0[2] = "ON" /\ words0[3] = "sp" /\ words0[4] = "CONFLICT"
  <2>1. "sp" \in Elements /\ "ON" \in Elements /\ "CONFLICT" \in Elements /\ "DO" \in Elements
    BY MarksAreElements DEF Words, Marks, Blanks
  <2>2. words0 \in Seq(Elements)
    BY <2>1
  <2> QED
    BY <2>2 DEF Text
<1>5. update \in Text /\ Len(update) = 6 /\ update[1] = "UPDATE" /\ update[2] = "sp" /\ update[3] = "SET"
  <2>1. "sp" \in Elements /\ "UPDATE" \in Elements /\ "SET" \in Elements /\ "c" \in Elements /\ "=" \in Elements
    BY MarksAreElements DEF Words, Marks, Blanks
  <2>2. update \in Seq(Elements)
    BY <2>1
  <2> QED
    BY <2>2 DEF Text
<1>6. where \in Text
  <2>1. "sp" \in Elements /\ "WHERE" \in Elements /\ "1" \in Elements
    BY MarksAreElements DEF Words, Marks, Blanks, Elements
  <2>2. <<"sp", "WHERE", "sp", "1">> \in Seq(Elements) /\ <<>> \in Seq(Elements)
    BY <2>1
  <2> QED
    BY <2>2 DEF Optional, Text
<1>7. u = words0 \o act
  BY DEF Upsert
<1>8. <<"NOTHING">> \in Text
  BY OneMark, MarksAreElements DEF Words
<1> HIDE DEF words0, update, where, u, s
<1>9. more \in Text /\ (update \o r.set) \o where = update \o more
  <2> DEFINE x == r.set
  <2>1. x \in Text /\ where \in Text
    BY <1>3, <1>6
  <2> HIDE DEF x
  <2>2. x \o where \in Text
    BY <2>1, Concat
  <2>3. (update \o x) \o where = update \o (x \o where)
    OBVIOUS
  <2> QED
    BY <2>2, <2>3 DEF x
<1> HIDE DEF more
<1>10. act \in Text
  BY <1>3, <1>5, <1>8, <1>9, Concat
<1>11. r.upsert = "update" => act = update \o more
  BY <1>9
<1> HIDE DEF act
<1>12. Placed(words0 \o act, text, f)
  BY <1>1, <1>2, <1>7, PlacedConcat
<1>13. Placed(words0, text, f) /\ Placed(act, text, f + 7) /\ f + 7 \in 0..Len(text)
  BY <1>1, <1>4, <1>10, <1>12, PlacedConcat
<1>14. /\ f \in Nat /\ f + 4 <= Len(text) /\ text[f + 2] = "ON" /\ text[f + 3] = "sp" /\ text[f + 4] = "CONFLICT"
  <2>1. \A j \in 1..7 : text[f + j] = words0[j]
    BY <1>4, <1>13 DEF Placed
  <2>2. 2 \in 1..7 /\ 3 \in 1..7 /\ 4 \in 1..7
    OBVIOUS
  <2> QED
    BY <1>1, <1>4, <1>13, <2>1, <2>2
<1>15. PastBlanks(text, f + 3) = f + 4
  <2>1. "sp" \in Blanks /\ "CONFLICT" \notin Blanks
    BY DEF Blanks
  <2>2. \A k \in f + 3..(f + 4) - 1 : k = f + 3
    BY <1>14
  <2>3. AfterBlanks(text, f + 3, f + 4)
    BY <1>1, <1>14, <2>1, <2>2 DEF AfterBlanks
  <2>4. f + 3 \in Nat \ {0}
    BY <1>14
  <2> QED
    BY <1>1, <2>3, <2>4, PastBlanksIs
<1>16. ASSUME r.upsert = "update"
       PROVE  /\ f + 10 <= Len(text) /\ text[f + 8] = "UPDATE" /\ text[f + 10] = "SET"
              /\ StepsTo(text, f + 8, "UPDATE", f + 10)
  <2>1. Placed(update, text, f + 7)
    <3>1. Placed(update \o more, text, f + 7) /\ f + 7 \in 0..Len(text)
      BY <1>11, <1>13, <1>16
    <3>2. update \in Text /\ more \in Text /\ text \in Text
      BY <1>1, <1>5, <1>9
    <3> QED
      BY <3>1, <3>2, PlacedConcat
  <2>2. \A j \in 1..6 : text[(f + 7) + j] = update[j]
    BY <1>5, <2>1 DEF Placed
  <2>3. /\ (f + 7) + 1 = f + 8 /\ (f + 7) + 2 = f + 9 /\ (f + 7) + 3 = f + 10
        /\ (f + 8) + 1 = f + 9 /\ (f + 8) + 2 = f + 10 /\ 1 \in 1..6 /\ 2 \in 1..6 /\ 3 \in 1..6
        /\ f + 8 \in Nat \ {0}
    BY <1>14
  <2>4. text[f + 8] = "UPDATE" /\ text[f + 9] = "sp" /\ text[f + 10] = "SET"
    BY <1>5, <2>2, <2>3
  <2>5. f + 10 <= Len(text)
    BY <1>1, <1>5, <1>14, <2>1 DEF Placed
  <2>6. "sp" \in Blanks /\ "SET" \notin Blanks
    BY DEF Blanks
  <2> DEFINE j == f + 8
  <2>7. j \in Nat \ {0} /\ j + 2 <= Len(text) /\ text[j + 1] \in Blanks /\ text[j + 2] \notin Blanks
        /\ j + 2 = f + 10 /\ text[j] = "UPDATE"
    BY <2>3, <2>4, <2>5, <2>6
  <2> HIDE DEF j
  <2>8. StepsTo(text, j, "UPDATE", f + 10)
    BY <1>1, <2>7, StepOne
  <2> QED
    BY <2>4, <2>5, <2>8 DEF j
<1> QED
  BY <1>14, <1>15, <1>16 DEF UpsertFacts

(* Where words that matter may stand.                                    *)
KeyFacts(r, text, a, n, f) ==
  /\ TopLevelKeywords(text) \subseteq 1..Len(text) /\ Len(text) \in Nat
  /\ a + 1 \in TopLevelKeywords(text) /\ r.verb \in Keys
  /\ r.upsert # "none" => f + 2 \in TopLevelKeywords(text)
  /\ r.clause = "REPLACE" => a + n + 4 \in TopLevelKeywords(text)
  /\ \A i \in TopLevelKeywords(text) : text[i] \in Keys =>
        \/ i = a + 1
        \/ r.clause = "REPLACE" /\ i = a + n + 4
        \/ r.upsert # "none" /\ i = f + 2
        \/ r.upsert = "update" /\ i = f + 8
  /\ a \in Nat /\ n \in Nat /\ f \in Nat /\ a + 1 <= f

(* The words among which a pattern is looked for, each at its place.       *)
LEMMA KeysAre ==
  ASSUME NEW r, Shaped(r), NEW text, text = Render(r), NEW a, a = Len(WithPart(r)),
         NEW n, n = Len(r.gap), NEW f, f = Len(Ahead(r))
  PROVE  KeyFacts(r, text, a, n, f)
<1>1. /\ text \in Text /\ \A i \in 1..Len(text) : KeyAt(text, i) <=> i \in KeyPlaces(r)
      /\ KeyPlaces(r) \subseteq 1..Len(text)
  BY KeysOfRender
<1>2. TopLevelKeywords(text) = Top(text)
  BY <1>1, FoundIsTop
<1>3. Top(text) \subseteq 1..Len(text) /\ Len(text) \in Nat
  BY <1>1, TextFacts DEF Top
<1>4. \A i \in Top(text) : text[i] \in Keys <=> i \in KeyPlaces(r)
  BY <1>1, <1>3 DEF KeyAt
<1>5. KeyPlaces(r) \subseteq Top(text)
  BY <1>1 DEF KeyAt
<1>6. \A i : i \in KeyPlaces(r) <=> \/ i = a + 1
                                    \/ r.clause = "REPLACE" /\ i = a + (n + 4)
                                    \/ r.upsert # "none" /\ i = f + 2
                                    \/ r.upsert = "update" /\ i = f + 8
  BY DEF KeyPlaces, VerbKeys, UpsertKeys
<1>7. a \in Nat /\ n \in Nat /\ f \in Nat /\ a + 1 <= f
  <2>1. WithPart(r) \in Text /\ r.gap \in Text /\ Ahead(r) \in Text
    BY PartTypes, FrontPiece
  <2>2. a + 1 \in 1..Len(Ahead(r))
    <3>1. 1 \in VerbKeys(r)
      BY DEF VerbKeys
    <3> QED
      BY <3>1, FrontPiece
  <2> QED
    BY <2>1, <2>2, TextFacts
<1>8. a + (n + 4) = a + n + 4
  BY <1>7
<1>9. r.verb \in Keys
  BY RecordFacts DEF Shaped, Keys
<1> QED
  BY <1>2, <1>3, <1>4, <1>5, <1>6, <1>7, <1>8, <1>9 DEF KeyFacts

(* The word of the conflict clause, whatever gap stands before it.         *)
LEMMA ClauseWord ==
  ASSUME NEW r, Shaped(r), NEW text, text = Render(r), NEW a, a = Len(WithPart(r)),
         NEW n, n = Len(r.gap), r.clause # "none"
  PROVE  text[a + n + 4] = r.clause
<1> DEFINE g == r.gap
           o == OrPart(r)
           q == Rest(r)
           ors == o \o q
<1>1. /\ text \in Text /\ a \in Nat /\ a + 1 \in 0..Len(text) /\ Placed(g \o ors, text, a + 1)
  BY VerbAt
<1>2. g \in Text /\ o \in Text /\ q \in Text
  BY PartTypes, RenderSplit
<1>3. Len(o) = 4 /\ o[3] = r.clause
  BY DEF OrPart, Optional
<1> HIDE DEF g, o, q
<1>4. ors \in Text
  BY <1>2, Concat
<1> HIDE DEF ors
<1>5. Placed(ors, text, (a + 1) + Len(g)) /\ (a + 1) + Len(g) \in 0..Len(text)
  BY <1>1, <1>2, <1>4, PlacedConcat
<1>6. n = Len(g) /\ n \in Nat
  BY <1>2, TextFacts DEF g
<1>7. Placed(o, text, (a + 1) + Len(g))
  <2>1. Placed(o \o q, text, (a + 1) + Len(g))
    BY <1>5 DEF ors
  <2> QED
    BY <1>1, <1>2, <1>5, <2>1, PlacedConcat
<1>8. text[((a + 1) + n) + 3] = r.clause
  <2>1. 3 \in 1..Len(o)
    BY <1>3
  <2> QED
    BY <1>3, <1>6, <1>7, <2>1 DEF Placed
<1>9. ((a + 1) + n) + 3 = a + n + 4
  BY <1>1, <1>6
<1> QED
  BY <1>8, <1>9

(* A comment after the verb hides the clause from the patterns.            *)
LEMMA CommentAt ==
  ASSUME NEW r, Shaped(r), NEW text, text = Render(r), NEW a, a = Len(WithPart(r)),
         ~IsBlank(r.gap), NEW words, Step(text, a + 1, words) # 0
  PROVE  text[Step(text, a + 1, words)] \in {"-", "/"}
<1> DEFINE g == r.gap
           ors == OrPart(r) \o Rest(r)
           m == Step(text, a + 1, words)
<1>1. /\ text \in Text /\ Len(text) \in Nat /\ a \in Nat /\ a + 1 \in 0..Len(text)
      /\ Placed(g \o ors, text, a + 1)
  BY VerbAt
<1>2. g \in Text /\ ors \in Text
  BY PartTypes, RenderSplit, Concat
<1>3. Gap(g) /\ ~IsBlank(g)
  BY DEF Shaped
<1>4. m = PastBlanks(text, (a + 1) + 1)
  BY <1>1, StepFound
<1> HIDE DEF g, ors, m
<1>5. Placed(g, text, a + 1)
  BY <1>1, <1>2, PlacedConcat
<1>6. PICK i \in 0 .. Len(g) : \E j \in i .. Len(g) :
         /\ IsBlank(SubSeq(g, 1, i)) /\ Comment(SubSeq(g, i + 1, j))
  BY <1>3 DEF Gap
<1>7. PICK j \in i .. Len(g) : IsBlank(SubSeq(g, 1, i)) /\ Comment(SubSeq(g, i + 1, j))
  BY <1>6
<1>8. Len(g) \in Nat /\ \A k \in 1..Len(g) : g[k] \in Elements
  BY <1>2, TextFacts
<1> DEFINE x == SubSeq(g, 1, i)
           y == SubSeq(g, i + 1, j)
<1>9. /\ x \in Seq(Elements) /\ Len(x) = (IF 1 <= i THEN i - 1 + 1 ELSE 0)
      /\ \A k \in 1..(i - 1 + 1) : x[k] = g[1 + k - 1]
  <2>1. 1 \in Int /\ i \in Int /\ \A k \in 1..i : g[k] \in Elements
    BY <1>8
  <2> QED
    BY <2>1, SubSeqProperties
<1>10. /\ y \in Seq(Elements) /\ Len(y) = (IF i + 1 <= j THEN j - (i + 1) + 1 ELSE 0)
       /\ \A k \in 1..(j - (i + 1) + 1) : y[k] = g[(i + 1) + k - 1]
  <2>1. i + 1 \in Int /\ j \in Int /\ \A k \in i + 1..j : g[k] \in Elements
    BY <1>8
  <2> QED
    BY <2>1, SubSeqProperties
<1> HIDE DEF x, y
<1>11. IsBlank(x) /\ Comment(y)
  BY <1>7 DEF x, y
<1>12. Len(y) >= 3 /\ y[1] \in {"-", "/"}
  BY <1>10, <1>11 DEF Comment, LineComment, BlockComment
<1>13. i + 1 <= j /\ i + 1 \in 1..Len(g) /\ g[i + 1] = y[1]
  <2>1. i + 1 <= j
    BY <1>10, <1>12
  <2>2. 1 \in 1..(j - (i + 1) + 1) /\ (i + 1) + 1 - 1 = i + 1
    BY <1>8, <2>1
  <2>3. i + 1 \in 1..Len(g)
    BY <1>8, <2>1
  <2> QED
    BY <1>10, <2>1, <2>2, <2>3
<1>14. \A k \in 1..i : g[k] \in Blanks
  <2> SUFFICES ASSUME NEW k \in 1..i PROVE g[k] \in Blanks
    OBVIOUS
  <2>1. DOMAIN x = 1..Len(x)
    BY <1>9, LenProperties
  <2>2. k \in DOMAIN x /\ k \in 1..(i - 1 + 1) /\ 1 + k - 1 = k
    BY <1>9, <2>1
  <2> QED
    BY <1>9, <1>11, <2>2 DEF IsBlank
<1>15. \A k \in 1..Len(g) : text[(a + 1) + k] = g[k]
  BY <1>5 DEF Placed
<1>16. AfterBlanks(text, (a + 1) + 1, (a + 1) + i + 1)
  <2>1. (a + 1) + i + 1 \in (a + 1) + 1..Len(text) + 1
    BY <1>1, <1>5, <1>8, <1>13 DEF Placed
  <2>2. ASSUME NEW k \in (a + 1) + 1..((a + 1) + i + 1) - 1 PROVE text[k] \in Blanks
    <3>1. k - (a + 1) \in 1..i /\ k - (a + 1) \in 1..Len(g) /\ (a + 1) + (k - (a + 1)) = k
      BY <1>1, <1>8, <1>13, <2>2
    <3> QED
      BY <1>14, <1>15, <3>1
  <2>3. text[(a + 1) + i + 1] \in {"-", "/"}
    <3>1. (a + 1) + (i + 1) = (a + 1) + i + 1
      BY <1>1
    <3>2. text[(a + 1) + (i + 1)] = y[1]
      BY <1>13, <1>15
    <3> QED
      BY <1>12, <3>1, <3>2
  <2>4. text[(a + 1) + i + 1] \notin Blanks
    BY <2>3 DEF Blanks
  <2> QED
    BY <2>1, <2>2, <2>4 DEF AfterBlanks
<1>17. m = (a + 1) + (i + 1)
  <2>1. (a + 1) + 1 \in Nat \ {0} /\ (a + 1) + (i + 1) = (a + 1) + i + 1
    BY <1>1
  <2> QED
    BY <1>1, <1>4, <1>16, <2>1, PastBlanksIs
<1>18. text[m] \in {"-", "/"}
  BY <1>12, <1>13, <1>15, <1>17
<1> QED
  BY <1>18 DEF m

(* No word is found from nowhere on.                                       *)
LEMMA StepFromNowhere ==
  ASSUME NEW text, NEW words
  PROVE  Step(text, 0, words) = 0
BY DEF Step

(* What looking for an OR clause finds.                                  *)
OrFacts(r, text, a, n, w, algs) ==
  /\ r.verb = w /\ r.clause \in algs /\ IsBlank(r.gap) =>
        /\ Matches(text, OrClause(w, algs)) = {a + 1}
        /\ MatchAt(text, a + 1, OrClause(w, algs)) = a + n + 6
        /\ MatchAt(text, a + 1, << {w}, {"OR"} >>) = a + n + 4
  /\ ~(r.verb = w /\ r.clause \in algs /\ IsBlank(r.gap)) =>
        Matches(text, OrClause(w, algs)) = {}

(* Where an OR clause is found, and that it is found where it is written.  *)
LEMMA OrMatches ==
  ASSUME NEW r, Shaped(r), NEW text, text = Render(r), NEW a, a = Len(WithPart(r)),
         NEW n, n = Len(r.gap), NEW w \in {"INSERT", "UPDATE"}, NEW algs, algs \subseteq Algorithms
  PROVE  OrFacts(r, text, a, n, w, algs)
<1> DEFINE f == Len(Ahead(r))
           top == TopLevelKeywords(text)
           s1(i) == Step(text, i, {w})
           s2(i) == Step(text, s1(i), {"OR"})
           s3(i) == Step(text, s2(i), algs)
           here == r.verb = w /\ r.clause \in algs /\ IsBlank(r.gap)
           three == OrClause(w, algs)
           two == << {w}, {"OR"} >>
<1>0. /\ Len(three) = 3 /\ three[1] = {w} /\ three[2] = {"OR"} /\ three[3] = algs
      /\ Len(two) = 2 /\ two[1] = {w} /\ two[2] = {"OR"}
  BY DEF OrClause
<1>f. f = Len(Ahead(r))
  OBVIOUS
<1> HIDE DEF f
<1>k. KeyFacts(r, text, a, n, f)
  BY <1>f, KeysAre
<1>k1. top \subseteq 1..Len(text) /\ Len(text) \in Nat /\ a + 1 \in top
  BY <1>k DEF KeyFacts
<1>k2. \A i \in top : text[i] \in Keys =>
               \/ i = a + 1
               \/ r.clause = "REPLACE" /\ i = a + n + 4
               \/ r.upsert # "none" /\ i = f + 2
               \/ r.upsert = "update" /\ i = f + 8
  BY <1>k DEF KeyFacts
<1>k3. a \in Nat /\ n \in Nat /\ f \in Nat
  BY <1>k DEF KeyFacts
<1>b. ASSUME IsBlank(r.gap) PROVE ClauseFacts(r, text, a, n)
  BY <1>b, ClauseAt
<1>b1. ASSUME IsBlank(r.gap) PROVE StepsTo(text, a + 1, r.verb, a + n + 2)
  BY <1>b1, <1>b DEF ClauseFacts
<1>b2. ASSUME IsBlank(r.gap), r.clause # "none" PROVE StepsTo(text, a + n + 2, "OR", a + n + 4)
  BY <1>b2, <1>b DEF ClauseFacts
<1>b3. ASSUME IsBlank(r.gap), r.clause # "none" PROVE StepsTo(text, a + n + 4, r.clause, a + n + 6)
  BY <1>b3, <1>b DEF ClauseFacts
<1>b4. ASSUME IsBlank(r.gap), r.clause = "none" PROVE text[a + n + 2] \in {"t", "INTO"}
  <2>1. text[a + n + 2] = Rest(r)[1]
    BY <1>b4, <1>b DEF ClauseFacts
  <2>2. Rest(r)[1] \in {"t", "INTO"}
    BY RestStarts
  <2> QED
    BY <2>1, <2>2
<1>u. ASSUME r.upsert # "none" PROVE UpsertFacts(r, text, f)
  BY <1>f, <1>u, UpsertAt
<1>u1. ASSUME r.upsert # "none" PROVE text[f + 2] = "ON"
  BY <1>u1, <1>u DEF UpsertFacts
<1>u2. ASSUME r.upsert = "update"
       PROVE  text[f + 8] = "UPDATE" /\ text[f + 10] = "SET" /\ StepsTo(text, f + 8, "UPDATE", f + 10)
  BY <1>u2, <1>u DEF UpsertFacts
<1> HIDE DEF top, three, two
<1>1. /\ top \subseteq 1..Len(text) /\ Len(text) \in Nat /\ a + 1 \in top
      /\ \A i \in top : text[i] \in Keys =>
               \/ i = a + 1
               \/ r.clause = "REPLACE" /\ i = a + n + 4
               \/ r.upsert # "none" /\ i = f + 2
               \/ r.upsert = "update" /\ i = f + 8
      /\ a \in Nat /\ n \in Nat /\ f \in Nat
  BY <1>k1, <1>k2, <1>k3
<1>2. \A i : MatchAt(text, i, three) = s3(i)
  BY <1>0, MatchThree
<1>3. \A i : MatchAt(text, i, two) = s2(i)
  BY <1>0, MatchTwo
<1>4. \A i : s1(i) # 0 => text[i] = w
  BY <1>1, StepFound
<1>5. \A i : s2(i) # 0 => s1(i) # 0 /\ text[s1(i)] = "OR"
  BY <1>1, StepFromNowhere, StepFound
<1>6. \A i : s3(i) # 0 => s2(i) # 0
  BY StepFromNowhere
<1>7. w \in Keys /\ w # "REPLACE" /\ w # "ON" /\ "SET" # "OR"
  BY DEF Keys
<1>8. \A i \in top : s3(i) # 0 => i = a + 1
  <2> SUFFICES ASSUME NEW i \in top, s3(i) # 0 PROVE i = a + 1
    OBVIOUS
  <2>1. s2(i) # 0 /\ s1(i) # 0 /\ text[i] = w /\ text[s1(i)] = "OR"
    BY <1>4, <1>5, <1>6
  <2>2. \/ i = a + 1
        \/ r.clause = "REPLACE" /\ i = a + n + 4
        \/ r.upsert # "none" /\ i = f + 2
        \/ r.upsert = "update" /\ i = f + 8
    BY <1>1, <1>7, <2>1
  <2>3. CASE r.clause = "REPLACE" /\ i = a + n + 4
    <3>1. text[a + n + 4] = "REPLACE"
      BY <2>3, ClauseWord
    <3> QED
      BY <1>7, <2>1, <2>3, <3>1
  <2>4. CASE r.upsert # "none" /\ i = f + 2
    <3>1. text[f + 2] = "ON"
      BY <1>u1, <2>4
    <3> QED
      BY <1>7, <2>1, <2>4, <3>1
  <2>5. CASE r.upsert = "update" /\ i = f + 8
    <3>1. /\ text[f + 8] = "UPDATE" /\ text[f + 10] = "SET"
          /\ StepsTo(text, f + 8, "UPDATE", f + 10)
      BY <1>u2, <2>5
    <3>2. w = "UPDATE"
      BY <2>1, <2>5, <3>1
    <3>3. s1(i) = f + 10
      BY <2>5, <3>1, <3>2 DEF StepsTo
    <3> HIDE DEF s1
    <3> QED
      BY <1>7, <2>1, <3>1, <3>3
  <2> QED
    BY <2>2, <2>3, <2>4, <2>5
<1>9. text[a + 1] = r.verb
  BY VerbAt
<1>10. s3(a + 1) # 0 => here
  <2> SUFFICES ASSUME s3(a + 1) # 0 PROVE here
    OBVIOUS
  <2>1. s2(a + 1) # 0 /\ s1(a + 1) # 0 /\ text[a + 1] = w /\ text[s1(a + 1)] = "OR"
    BY <1>4, <1>5, <1>6
  <2>2. r.verb = w
    BY <1>9, <2>1
  <2>3. IsBlank(r.gap)
    <3> SUFFICES ASSUME ~IsBlank(r.gap) PROVE FALSE
      OBVIOUS
    <3>1. text[s1(a + 1)] \in {"-", "/"}
      BY <2>1, CommentAt
    <3> QED
      BY <2>1, <3>1
  <2>4. s1(a + 1) = a + n + 2
    BY <1>b1, <2>2, <2>3 DEF StepsTo
  <2>5. r.clause # "none"
    <3> SUFFICES ASSUME r.clause = "none" PROVE FALSE
      OBVIOUS
    <3>1. text[a + n + 2] \in {"t", "INTO"}
      BY <1>b4, <2>3
    <3> HIDE DEF s1
    <3> QED
      BY <2>1, <2>4, <3>1
  <2>6. s2(a + 1) = a + n + 4
    BY <1>b2, <2>3, <2>4, <2>5 DEF StepsTo
  <2>7. r.clause \in algs
    BY <1>b3, <2>3, <2>5, <2>6 DEF StepsTo
  <2> QED
    BY <2>2, <2>3, <2>7
<1>11. ASSUME here PROVE s2(a + 1) = a + n + 4 /\ s3(a + 1) = a + n + 6 /\ a + n + 6 # 0
  <2>1. r.clause # "none"
    BY <1>11 DEF Algorithms
  <2>2. s1(a + 1) = a + n + 2
    BY <1>11, <1>b1 DEF StepsTo
  <2>3. s2(a + 1) = a + n + 4
    BY <1>11, <1>b2, <2>1, <2>2 DEF StepsTo
  <2>4. s3(a + 1) = a + n + 6
    BY <1>11, <1>b3, <2>1, <2>3 DEF StepsTo
  <2> QED
    BY <1>1, <2>3, <2>4
<1> HIDE DEF s1, s2, s3
<1>12. Matches(text, three) = {i \in top : s3(i) # 0}
  BY <1>2 DEF Matches, top
<1>13. ASSUME here PROVE Matches(text, three) = {a + 1}
  BY <1>1, <1>8, <1>11, <1>12, <1>13
<1>14. ASSUME ~here PROVE Matches(text, three) = {}
  BY <1>8, <1>10, <1>12, <1>14
<1>15. ASSUME here PROVE /\ MatchAt(text, a + 1, three) = a + n + 6
                         /\ MatchAt(text, a + 1, two) = a + n + 4
  BY <1>2, <1>3, <1>11, <1>15
<1> HIDE DEF here
<1>16. /\ here => /\ Matches(text, three) = {a + 1} /\ MatchAt(text, a + 1, three) = a + n + 6
                  /\ MatchAt(text, a + 1, two) = a + n + 4
       /\ ~here => Matches(text, three) = {}
  BY <1>13, <1>14, <1>15
<1> QED
  BY <1>16, Zenon DEF three, two, here, OrFacts

-----------------------------------------------------------------------------
(* The edits, as changes of the statement.                                 *)
NoClause(r) == [r EXCEPT !.clause = "none", !.gap = <<"sp">>]
AsInsert(r) == [r EXCEPT !.verb = "INSERT"]

(* The first of one place is that place.                                   *)
LEMMA FirstOfOne ==
  ASSUME NEW x \in Int
  PROVE  First({x}) = x
BY DEF First

(* The fields an edit leaves alone.                                        *)
LEMMA EditedFields ==
  ASSUME NEW r, Shaped(r)
  PROVE  /\ NoClause(r) \in Records /\ NoClause(r).clause = "none" /\ NoClause(r).gap = <<"sp">>
         /\ NoClause(r).verb = r.verb /\ NoClause(r).columns = r.columns /\ NoClause(r).source = r.source
         /\ NoClause(r).rows = r.rows /\ NoClause(r).upsert = r.upsert /\ NoClause(r).set = r.set
         /\ NoClause(r).where = r.where /\ NoClause(r).with = r.with /\ NoClause(r).note = r.note
         /\ NoClause(r).semi = r.semi
         /\ AsInsert(r) \in Records /\ AsInsert(r).clause = r.clause /\ AsInsert(r).gap = r.gap
         /\ AsInsert(r).verb = "INSERT" /\ AsInsert(r).columns = r.columns /\ AsInsert(r).source = r.source
         /\ AsInsert(r).rows = r.rows /\ AsInsert(r).upsert = r.upsert /\ AsInsert(r).set = r.set
         /\ AsInsert(r).where = r.where /\ AsInsert(r).with = r.with /\ AsInsert(r).note = r.note
         /\ AsInsert(r).semi = r.semi
         /\ WithoutUpsert(r) \in Records /\ WithoutUpsert(r).clause = r.clause
         /\ WithoutUpsert(r).gap = r.gap /\ WithoutUpsert(r).verb = r.verb
         /\ WithoutUpsert(r).columns = r.columns /\ WithoutUpsert(r).source = r.source
         /\ WithoutUpsert(r).rows = r.rows /\ WithoutUpsert(r).upsert = "none"
         /\ WithoutUpsert(r).set = <<"1">> /\ WithoutUpsert(r).where = FALSE
         /\ WithoutUpsert(r).with = r.with /\ WithoutUpsert(r).note = r.note
         /\ WithoutUpsert(r).semi = r.semi
<1>1. r \in Records
  BY DEF Shaped
<1>2. <<"sp">> \in Text /\ <<"1">> \in Text
  BY OneMark, MarksAreElements DEF Marks, Blanks, Elements
<1>3. NoClause(r) \in Records /\ AsInsert(r) \in Records /\ WithoutUpsert(r) \in Records
  BY <1>1, <1>2 DEF Records, NoClause, AsInsert, WithoutUpsert
<1> QED
  BY <1>1, <1>3 DEF Records, NoClause, AsInsert, WithoutUpsert

(* One blank is a gap.                                                     *)
LEMMA BlankIsGap == Gap(<<"sp">>) /\ IsBlank(<<"sp">>)
BY DEF Gap, IsBlank, Blanks

(* The body depends on the columns, the source and the rows only.          *)
LEMMA SameBody ==
  ASSUME NEW r, NEW t, t.columns = r.columns, t.source = r.source, t.rows = r.rows
  PROVE  Body(t) = Body(r)
BY DEF Body

(* The UPSERT depends on its own fields only.                              *)
LEMMA SameUpsert ==
  ASSUME NEW r, NEW t, t.upsert = r.upsert, t.set = r.set, t.where = r.where
  PROVE  Upsert(t) = Upsert(r)
BY DEF Upsert

(* What stays when the clause goes.                                        *)
LEMMA NoClauseParts ==
  ASSUME NEW r, Shaped(r)
  PROVE  /\ Shaped(NoClause(r)) /\ WithPart(NoClause(r)) = WithPart(r) /\ Rest(NoClause(r)) = Rest(r)
         /\ OrPart(NoClause(r)) = <<>>
<1> DEFINE t == NoClause(r)
<1>1. /\ t \in Records /\ t.clause = "none" /\ t.gap = <<"sp">> /\ t.verb = r.verb
      /\ t.columns = r.columns /\ t.source = r.source /\ t.rows = r.rows /\ t.upsert = r.upsert
      /\ t.set = r.set /\ t.where = r.where /\ t.with = r.with /\ t.note = r.note /\ t.semi = r.semi
  BY EditedFields
<1> HIDE DEF t
<1>2. Shaped(t)
  BY <1>1, BlankIsGap DEF Shaped
<1>3. Body(t) = Body(r) /\ Upsert(t) = Upsert(r)
  BY <1>1, SameBody, SameUpsert
<1>4. IntoPart(t) = IntoPart(r) /\ NotePart(t) = NotePart(r) /\ Semi(t) = Semi(r) /\ WithPart(t) = WithPart(r)
  BY <1>1 DEF IntoPart, NotePart, Semi, WithPart
<1>5. Rest(t) = Rest(r)
  BY <1>3, <1>4 DEF Rest, AheadRest
<1>6. OrPart(t) = <<>>
  BY <1>1 DEF OrPart, Optional
<1> QED
  BY <1>2, <1>4, <1>5, <1>6 DEF t

(* REMOVE: taking an OR clause off is taking it off the statement.         *)
LEMMA RemoveOrIs ==
  ASSUME NEW r, Shaped(r), IsBlank(r.gap), NEW w \in {"INSERT", "UPDATE"},
         NEW algs, algs \subseteq Algorithms
  PROVE  /\ r.verb = w /\ r.clause \in algs => RemoveOrClause(Render(r), w, algs) = Render(NoClause(r))
         /\ ~(r.verb = w /\ r.clause \in algs) => RemoveOrClause(Render(r), w, algs) = Render(r)
<1> DEFINE text == Render(r)
           p == WithPart(r)
           q == Rest(r)
           a == Len(p)
           n == Len(r.gap)
           t == NoClause(r)
           three == OrClause(w, algs)
<1>0. OrFacts(r, text, a, n, w, algs)
  BY OrMatches
<1>1. ASSUME ~(r.verb = w /\ r.clause \in algs) PROVE RemoveOrClause(text, w, algs) = text
  <2>1. Matches(text, three) = {}
    BY <1>0, <1>1 DEF OrFacts
  <2> QED
    BY <2>1 DEF RemoveOrClause
<1>2. ASSUME r.verb = w, r.clause \in algs PROVE RemoveOrClause(text, w, algs) = Render(t)
  <2>1. /\ Matches(text, OrClause(w, algs)) = {a + 1}
        /\ MatchAt(text, a + 1, OrClause(w, algs)) = a + n + 6
    BY <1>0, <1>2 DEF OrFacts
  <2>2. text \in Text /\ a \in Nat /\ p \in Text /\ q \in Text
    BY PartTypes, RenderSplit, VerbAt
  <2>3. r.clause # "none"
    BY <1>2 DEF Algorithms
  <2>4. /\ n \in Nat /\ Placed(q, text, a + n + 5) /\ a + n + 5 \in 0..Len(text)
        /\ a + n + 5 + Len(q) = Len(text)
    <3>1. ClauseFacts(r, text, a, n)
      BY ClauseAt
    <3> QED
      BY <2>3, <3>1 DEF ClauseFacts
  <2>5. Placed(p, text, 0)
    BY RenderPlaces
  <2>6. First({a + 1}) = a + 1 /\ a + n + 5 + 1 = a + n + 6
    <3>1. a + 1 \in Int
      BY <2>2
    <3> QED
      BY <2>2, <2>4, <3>1, FirstOfOne
  <2>7. Shaped(t) /\ WithPart(t) = p /\ Rest(t) = q /\ OrPart(t) = <<>> /\ t.verb = w /\ t.gap = <<"sp">>
    BY <1>2, NoClauseParts, EditedFields
  <2>8. Render(t) = p \o (<<w>> \o (<<"sp">> \o (<<>> \o q)))
    BY <2>7, RenderSplit DEF WithRest
  <2> DEFINE u == <<w>>
             z == <<"sp">>
             zq == z \o q
  <2>9. u \in Text /\ z \in Text /\ <<w, "sp">> = u \o z /\ <<>> \o q = q
    <3>1. w \in Elements /\ "sp" \in Elements
      BY MarksAreElements DEF Words, Marks, Blanks
    <3> QED
      BY <2>2, <3>1, OneMark, ConcatEmptySeq DEF Text
  <2> HIDE DEF text, p, q, a, n, t
  <2>10. RemoveOrClause(text, w, algs) = (Before(text, a + 1) \o <<w, "sp">>) \o From(text, a + n + 6)
    BY <2>1, <2>6 DEF RemoveOrClause
  <2>11. Before(text, a + 1) = p
    BY <2>2, <2>5, CutBefore DEF a
  <2>12. From(text, a + n + 6) = q
    BY <2>2, <2>4, <2>6, CutFrom
  <2>13. RemoveOrClause(text, w, algs) = (p \o (u \o z)) \o q
    BY <2>9, <2>10, <2>11, <2>12
  <2>14. Render(t) = p \o (u \o (z \o q))
    BY <2>8, <2>9
  <2> HIDE DEF u, z
  <2>15. (p \o (u \o z)) \o q = p \o ((u \o z) \o q)
    <3> DEFINE uz == u \o z
    <3>1. uz \in Text
      BY <2>9, Concat
    <3> HIDE DEF uz
    <3>2. (p \o uz) \o q = p \o (uz \o q)
      OBVIOUS
    <3> QED
      BY <3>2 DEF uz
  <2>16. (u \o z) \o q = u \o (z \o q)
    OBVIOUS
  <2> QED
    BY <2>13, <2>14, <2>15, <2>16
<1> QED
  BY <1>1, <1>2

(* REPLACE INTO is found where it is the verb.                             *)
LEMMA IntoMatches ==
  ASSUME NEW r, Shaped(r), NEW text, text = Render(r), NEW a, a = Len(WithPart(r))
  PROVE  /\ r.verb = "REPLACE" /\ IsBlank(r.gap) => Matches(text, << {"REPLACE"}, {"INTO"} >>) = {a + 1}
         /\ r.verb # "REPLACE" /\ r.clause # "REPLACE" => Matches(text, << {"REPLACE"}, {"INTO"} >>) = {}
<1> DEFINE f == Len(Ahead(r))
           n == Len(r.gap)
           top == TopLevelKeywords(text)
           s1(i) == Step(text, i, {"REPLACE"})
           s2(i) == Step(text, s1(i), {"INTO"})
           two == << {"REPLACE"}, {"INTO"} >>
<1>a. Len(two) = 2 /\ two[1] = {"REPLACE"} /\ two[2] = {"INTO"}
  OBVIOUS
<1>b. f = Len(Ahead(r)) /\ n = Len(r.gap)
  OBVIOUS
<1> HIDE DEF f, n, two
<1>c. KeyFacts(r, text, a, n, f)
  BY <1>b, KeysAre
<1>d. ASSUME r.upsert # "none" PROVE UpsertFacts(r, text, f)
  BY <1>b, <1>d, UpsertAt
<1>e. ASSUME IsBlank(r.gap) PROVE ClauseFacts(r, text, a, n)
  BY <1>b, <1>e, ClauseAt
<1>1. /\ top \subseteq 1..Len(text) /\ Len(text) \in Nat /\ a + 1 \in top
      /\ \A i \in top : text[i] \in Keys =>
               \/ i = a + 1
               \/ r.clause = "REPLACE" /\ i = a + n + 4
               \/ r.upsert # "none" /\ i = f + 2
               \/ r.upsert = "update" /\ i = f + 8
      /\ a \in Nat /\ n \in Nat /\ f \in Nat
  BY <1>c DEF KeyFacts
<1>2. \A i : MatchAt(text, i, two) = s2(i)
  BY <1>a, MatchTwo
<1>3. \A i : s2(i) # 0 => text[i] = "REPLACE"
  <2>1. \A i : s1(i) # 0 => text[i] = "REPLACE"
    BY <1>1, StepFound
  <2>2. \A i : s2(i) # 0 => s1(i) # 0
    BY StepFromNowhere
  <2> HIDE DEF s1, s2
  <2> QED
    BY <2>1, <2>2
<1>4. text[a + 1] = r.verb
  BY VerbAt
<1>5. \A i \in top : s2(i) # 0 => (i = a + 1 /\ r.verb = "REPLACE") \/ r.clause = "REPLACE"
  <2> SUFFICES ASSUME NEW i \in top, s2(i) # 0 PROVE (i = a + 1 /\ r.verb = "REPLACE") \/ r.clause = "REPLACE"
    OBVIOUS
  <2>1. text[i] = "REPLACE" /\ "REPLACE" \in Keys
    BY <1>3 DEF Keys
  <2>2. \/ i = a + 1
        \/ r.clause = "REPLACE" /\ i = a + n + 4
        \/ r.upsert # "none" /\ i = f + 2
        \/ r.upsert = "update" /\ i = f + 8
    BY <1>1, <2>1
  <2>3. r.upsert # "none" => text[f + 2] = "ON"
    BY <1>d DEF UpsertFacts
  <2>4. r.upsert = "update" => text[f + 8] = "UPDATE"
    BY <1>d DEF UpsertFacts
  <2> HIDE DEF s2
  <2> QED
    BY <1>4, <2>1, <2>2, <2>3, <2>4
<1>6. ASSUME r.verb = "REPLACE", IsBlank(r.gap) PROVE s2(a + 1) # 0 /\ r.clause # "REPLACE"
  <2>1. r.clause = "none"
    BY <1>6 DEF Shaped
  <2>2. s1(a + 1) = a + n + 2 /\ Placed(Rest(r), text, a + n + 1) /\ a + n + 1 \in 0..Len(text)
    <3>1. /\ StepsTo(text, a + 1, r.verb, a + n + 2) /\ Placed(Rest(r), text, a + n + 1)
          /\ a + n + 1 \in 0..Len(text)
      BY <1>e, <1>6, <2>1 DEF ClauseFacts
    <3>2. s1(a + 1) = a + n + 2
      BY <1>6, <3>1 DEF StepsTo
    <3> QED
      BY <3>1, <3>2
  <2>3. PICK q \in Text : Rest(r) = <<"INTO">> \o (<<"sp">> \o q) /\ q # <<>> /\ q[1] = "t"
    BY <1>6, RestStarts
  <2> DEFINE b == a + n + 1
             g == <<"sp">>
  <2>4. /\ "INTO" \in Elements /\ g \in Text /\ g # <<>> /\ IsBlank(g) /\ q[1] \notin Blanks /\ Len(g) = 1
    BY <2>3, OneMark, MarksAreElements, BlankIsGap DEF Words, Marks, Blanks
  <2>5. Placed(<<"INTO">> \o (g \o q), text, b) /\ b \in 0..Len(text) /\ text \in Text
    BY <2>2, <2>3, VerbAt
  <2> HIDE DEF b, g
  <2>6. StepsTo(text, b + 1, "INTO", b + Len(g) + 2)
    BY <2>3, <2>4, <2>5, StepAt
  <2>7. b + 1 = a + n + 2 /\ b + 1 + 2 # 0
    BY <1>1 DEF b
  <2>8. s2(a + 1) = b + 1 + 2
    <3>1. b + Len(g) + 2 = b + 1 + 2 /\ s1(a + 1) = b + 1
      BY <2>2, <2>4, <2>7
    <3> QED
      BY <2>6, <3>1 DEF StepsTo
  <2> HIDE DEF s2
  <2> QED
    BY <2>1, <2>7, <2>8
<1> HIDE DEF s1, s2
<1>7. Matches(text, two) = {i \in top : s2(i) # 0}
  BY <1>2 DEF Matches
<1>8. ASSUME r.verb = "REPLACE", IsBlank(r.gap) PROVE Matches(text, two) = {a + 1}
  BY <1>1, <1>5, <1>6, <1>7, <1>8
<1>9. ASSUME r.verb # "REPLACE", r.clause # "REPLACE" PROVE Matches(text, two) = {}
  BY <1>5, <1>7, <1>9
<1> QED
  BY <1>8, <1>9 DEF two

(* What stays when the verb becomes INSERT.                                *)
LEMMA AsInsertParts ==
  ASSUME NEW r, Shaped(r), r.verb = "REPLACE"
  PROVE  /\ Shaped(AsInsert(r)) /\ WithPart(AsInsert(r)) = WithPart(r) /\ Rest(AsInsert(r)) = Rest(r)
         /\ OrPart(AsInsert(r)) = OrPart(r)
<1> DEFINE t == AsInsert(r)
<1>1. /\ t \in Records /\ t.clause = r.clause /\ t.gap = r.gap /\ t.verb = "INSERT"
      /\ t.columns = r.columns /\ t.source = r.source /\ t.rows = r.rows /\ t.upsert = r.upsert
      /\ t.set = r.set /\ t.where = r.where /\ t.with = r.with /\ t.note = r.note /\ t.semi = r.semi
  BY EditedFields
<1> HIDE DEF t
<1>2. Shaped(t)
  BY <1>1 DEF Shaped
<1>3. Body(t) = Body(r) /\ Upsert(t) = Upsert(r)
  BY <1>1, SameBody, SameUpsert
<1>4. NotePart(t) = NotePart(r) /\ Semi(t) = Semi(r) /\ WithPart(t) = WithPart(r) /\ OrPart(t) = OrPart(r)
  BY <1>1 DEF NotePart, Semi, WithPart, OrPart
<1>5. IntoPart(t) = IntoPart(r)
  <2>1. IntoPart(t) = <<"INTO", "sp">>
    BY <1>1 DEF IntoPart, Optional
  <2>2. IntoPart(r) = <<"INTO", "sp">>
    BY DEF IntoPart, Optional
  <2> QED
    BY <2>1, <2>2
<1>6. Rest(t) = Rest(r)
  BY <1>3, <1>4, <1>5 DEF Rest, AheadRest
<1> QED
  BY <1>2, <1>4, <1>6 DEF t

(* REWRITE: REPLACE INTO becomes INSERT INTO.                              *)
LEMMA RewriteIntoIs ==
  ASSUME NEW r, Shaped(r)
  PROVE  /\ r.verb = "REPLACE" /\ IsBlank(r.gap) =>
               RewriteReplaceInto(Render(r), <<"INSERT">>) = Render(AsInsert(r))
         /\ r.verb # "REPLACE" /\ r.clause # "REPLACE" =>
               \A by : RewriteReplaceInto(Render(r), by) = Render(r)
<1> DEFINE text == Render(r)
           p == WithPart(r)
           a == Len(p)
           y == r.gap \o (OrPart(r) \o Rest(r))
           v == <<r.verb>>
           u == <<"INSERT">>
<1>1. ASSUME r.verb # "REPLACE", r.clause # "REPLACE" PROVE \A by : RewriteReplaceInto(text, by) = text
  BY <1>1, IntoMatches DEF RewriteReplaceInto
<1>2. ASSUME r.verb = "REPLACE", IsBlank(r.gap) PROVE RewriteReplaceInto(text, u) = Render(AsInsert(r))
  <2>1. Matches(text, << {"REPLACE"}, {"INTO"} >>) = {a + 1}
    BY <1>2, IntoMatches
  <2>2. /\ text \in Text /\ Len(text) \in Nat /\ a \in Nat /\ Placed(y, text, a + 1) /\ a + 1 \in 0..Len(text)
    BY VerbAt
  <2>3. Placed(p, text, 0) /\ Len(text) = a + Len(v \o y)
    BY RenderPlaces
  <2>4. p \in Text /\ v \in Text /\ u \in Text /\ y \in Text /\ Len(v) = 1
    <3>1. p \in Text /\ v \in Text /\ r.gap \in Text /\ OrPart(r) \in Text /\ Rest(r) \in Text
      BY PartTypes, RenderSplit
    <3> DEFINE ors == OrPart(r) \o Rest(r)
    <3>2. ors \in Text
      BY <3>1, Concat
    <3> HIDE DEF ors
    <3>3. r.gap \o ors \in Text
      BY <3>1, <3>2, Concat
    <3>4. y \in Text
      BY <3>3 DEF ors
    <3> QED
      BY <3>1, <3>4, OneMark, MarksAreElements DEF Words
  <2>5. First({a + 1}) = a + 1
    <3>1. a + 1 \in Int
      BY <2>2
    <3> QED
      BY <3>1, FirstOfOne
  <2>6. /\ Shaped(AsInsert(r)) /\ WithPart(AsInsert(r)) = p /\ Rest(AsInsert(r)) = Rest(r)
        /\ OrPart(AsInsert(r)) = OrPart(r) /\ AsInsert(r).verb = "INSERT" /\ AsInsert(r).gap = r.gap
    BY <1>2, AsInsertParts, EditedFields
  <2>7. Render(AsInsert(r)) = p \o (u \o y)
    BY <2>6, RenderSplit DEF WithRest
  <2> HIDE DEF text, p, a, y, v, u
  <2>8. RewriteReplaceInto(text, u) = (Before(text, a + 1) \o u) \o From(text, (a + 1) + 1)
    BY <2>1, <2>5 DEF RewriteReplaceInto
  <2>9. Before(text, a + 1) = p
    BY <2>2, <2>3, <2>4, CutBefore DEF a
  <2>10. From(text, (a + 1) + 1) = y
    <3>1. Len(v \o y) = Len(v) + Len(y) /\ Len(y) \in Nat
      BY <2>4, Concat
    <3>2. (a + 1) + Len(y) = Len(text)
      BY <2>2, <2>3, <2>4, <3>1
    <3> QED
      BY <2>2, <2>4, <3>2, CutFrom
  <2>11. (p \o u) \o y = p \o (u \o y)
    OBVIOUS
  <2> QED
    BY <2>7, <2>8, <2>9, <2>10, <2>11
<1> QED
  BY <1>1, <1>2

(* Blanks at the end go.                                                   *)
LEMMA TrimmedIs ==
  ASSUME NEW p \in Text, Solid(p)
  PROVE  Trimmed(p \o <<"sp">>) = p
<1> DEFINE x == p \o <<"sp">>
           n == Len(p)
           kept == {i \in DOMAIN x : x[i] \notin Blanks}
<1>1. <<"sp">> \in Text /\ Len(<<"sp">>) = 1 /\ <<"sp">>[1] = "sp" /\ "sp" \in Blanks
  BY OneMark, MarksAreElements DEF Marks, Blanks
<1>2. x \in Text /\ Len(x) = n + 1 /\ n \in Nat
  BY <1>1, Concat
<1>3. n # 0 /\ p[n] \notin Blanks
  BY EmptySeq DEF Solid, Text
<1>4. (\A i \in 1..n : x[i] = p[i]) /\ x[n + 1] = "sp"
  <2>1. \A i \in 1..(n + 1) : x[i] = IF i <= n THEN p[i] ELSE <<"sp">>[i - n]
    <3>1. p \in Seq(Elements) /\ <<"sp">> \in Seq(Elements)
      BY <1>1 DEF Text
    <3> QED
      BY <1>1, <3>1, ConcatProperties
  <2>2. n + 1 \in 1..(n + 1) /\ ~(n + 1 <= n) /\ (n + 1) - n = 1
    BY <1>2
  <2>3. \A i \in 1..n : i \in 1..(n + 1) /\ i <= n
    BY <1>2
  <2> HIDE DEF x, n
  <2> QED
    BY <1>1, <2>1, <2>2, <2>3
<1>5. DOMAIN x = 1..(n + 1)
  BY <1>2, TextFacts
<1> HIDE DEF x
<1>6. n \in kept /\ \A j \in kept : j <= n
  <2>1. n \in 1..n /\ n \in 1..(n + 1)
    BY <1>2, <1>3
  <2>2. n + 1 \notin kept
    BY <1>1, <1>4
  <2>3. \A j \in kept : j \in 1..(n + 1)
    BY <1>5
  <2>4. n \in kept
    BY <1>3, <1>4, <1>5, <2>1
  <2> HIDE DEF kept
  <2> QED
    BY <1>2, <2>2, <2>3, <2>4
<1>7. kept \subseteq Int
  BY <1>2, <1>5
<1> DEFINE m == CHOOSE i \in kept : \A j \in kept : j <= i
<1>8. m = n
  <2> HIDE DEF kept
  <2>1. m \in kept /\ \A j \in kept : j <= m
    BY <1>6
  <2> HIDE DEF m
  <2>2. m <= n /\ n <= m /\ m \in Int
    BY <1>6, <1>7, <2>1
  <2> QED
    BY <1>2, <2>2
<1>9. Trimmed(x) = SubSeq(x, 1, n)
  <2>1. Trimmed(x) = SubSeq(x, 1, m)
    BY DEF Trimmed
  <2> QED
    BY <1>8, <2>1
<1>10. Placed(p, x, 0)
  <2>1. \A j \in 1..n : 0 + j = j
    BY <1>2
  <2> QED
    BY <1>2, <1>4, <2>1 DEF Placed
<1>11. Before(x, n + 1) = p
  BY <1>2, <1>10, CutBefore
<1>12. Before(x, n + 1) = SubSeq(x, 1, n)
  <2>1. (n + 1) - 1 = n
    BY <1>2
  <2> QED
    BY <2>1 DEF Before
<1> QED
  BY <1>9, <1>11, <1>12 DEF x

(* The first word of a statement.                                          *)
LEMMA FirstWord ==
  ASSUME NEW r, Shaped(r)
  PROVE  /\ r.with # <<>> => Render(r)[1] = "WITH"
         /\ r.with = <<>> => Render(r)[1] = r.verb
<1> DEFINE text == Render(r)
           w == WithPart(r)
<1>1. ASSUME r.with = <<>> PROVE text[1] = r.verb
  <2>1. w = <<>>
    BY <1>1 DEF WithPart, Optional
  <2>2. Len(w) = 0 /\ text[Len(w) + 1] = r.verb /\ 0 + 1 = 1
    BY <2>1, VerbAt
  <2> HIDE DEF text, w
  <2> QED
    BY <2>2
<1>2. ASSUME r.with # <<>> PROVE text[1] = "WITH"
  <2> DEFINE head == <<"WITH", "sp", "x", "sp", "AS", "(", "SELECT", "sp">>
             end == <<")", "sp">>
             x == r.with
  <2>1. w = (head \o x) \o end
    BY <1>2 DEF WithPart, Optional
  <2>2. head \in Text /\ end \in Text /\ x \in Text /\ head[1] = "WITH" /\ Len(head) = 8
    <3>1. /\ "WITH" \in Elements /\ "sp" \in Elements /\ "x" \in Elements /\ "AS" \in Elements
          /\ "(" \in Elements /\ ")" \in Elements /\ "SELECT" \in Elements
      BY MarksAreElements DEF Words, Marks, Blanks
    <3>2. head \in Seq(Elements) /\ end \in Seq(Elements)
      BY <3>1
    <3> QED
      BY <3>2, RecordFacts DEF Shaped, Text
  <2>3. text \in Text /\ Placed(w, text, 0) /\ 0 \in 0..Len(text)
    BY RenderPlaces, PlacedSelf
  <2> HIDE DEF text, w, head, end, x
  <2> DEFINE hx == head \o x
  <2>4. hx \in Text
    BY <2>2, Concat
  <2>5. Placed(hx, text, 0)
    <3>1. Placed(hx \o end, text, 0)
      BY <2>1, <2>3
    <3> HIDE DEF hx
    <3> QED
      BY <2>2, <2>3, <2>4, <3>1, PlacedConcat
  <2>6. Placed(head, text, 0)
    BY <2>2, <2>3, <2>5, PlacedConcat
  <2>7. 1 \in 1..Len(head) /\ 0 + 1 = 1
    BY <2>2
  <2>8. text[0 + 1] = head[1]
    BY <2>6, <2>7 DEF Placed
  <2> QED
    BY <2>2, <2>7, <2>8
<1> QED
  BY <1>1, <1>2

(* What stays when the UPSERT goes.                                        *)
LEMMA WithoutUpsertParts ==
  ASSUME NEW r, Shaped(r)
  PROVE  /\ Shaped(WithoutUpsert(r)) /\ Ahead(WithoutUpsert(r)) = Ahead(r)
         /\ Render(WithoutUpsert(r)) = Ahead(r) \o Semi(r)
<1> DEFINE t == WithoutUpsert(r)
<1>1. /\ t \in Records /\ t.clause = r.clause /\ t.gap = r.gap /\ t.verb = r.verb
      /\ t.columns = r.columns /\ t.source = r.source /\ t.rows = r.rows /\ t.upsert = "none"
      /\ t.set = <<"1">> /\ t.with = r.with /\ t.note = r.note /\ t.semi = r.semi
  BY EditedFields
<1>2. Cell(<<"1">>)
  BY DEF Cell, Written
<1> HIDE DEF t
<1>3. Shaped(t)
  BY <1>1, <1>2 DEF Shaped
<1>4. Body(t) = Body(r) /\ Upsert(t) = <<>>
  BY <1>1, SameBody DEF Upsert
<1>5. NotePart(t) = NotePart(r) /\ Semi(t) = Semi(r) /\ WithPart(t) = WithPart(r) /\ Verb(t) = Verb(r)
  BY <1>1 DEF NotePart, Semi, WithPart, Verb
<1>6. Ahead(t) = Ahead(r)
  BY <1>4, <1>5 DEF Ahead
<1>7. Ahead(r) \o <<>> = Ahead(r)
  BY FrontPiece, ConcatEmptySeq DEF Text
<1>8. Render(t) = Ahead(r) \o Semi(r)
  BY <1>4, <1>5, <1>6, <1>7, RenderFront
<1> QED
  BY <1>3, <1>6, <1>8 DEF t

(* STRIP: taking the UPSERT off is taking it off the statement.            *)
LEMMA StripIs ==
  ASSUME NEW r, Shaped(r), r.verb # "REPLACE"
  PROVE  StripUpsert(Render(r)) = Render(WithoutUpsert(r))
<1> DEFINE text == Render(r)
           a == Len(WithPart(r))
           n == Len(r.gap)
           front == Ahead(r)
           f == Len(front)
           u == Upsert(r)
           s == Semi(r)
           top == TopLevelKeywords(text)
           on == {i \in top : /\ text[i] = "ON"
                              /\ PastBlanks(text, i + 1) \in DOMAIN text
                              /\ text[PastBlanks(text, i + 1)] = "CONFLICT"}
<1>a. KeyFacts(r, text, a, n, f)
  BY KeysAre
<1>b. ASSUME r.upsert # "none" PROVE UpsertFacts(r, text, f)
  BY <1>b, UpsertAt
<1>1. /\ top \subseteq 1..Len(text) /\ Len(text) \in Nat
      /\ r.upsert # "none" => f + 2 \in top
      /\ \A i \in top : text[i] \in Keys =>
               \/ i = a + 1
               \/ r.clause = "REPLACE" /\ i = a + n + 4
               \/ r.upsert # "none" /\ i = f + 2
               \/ r.upsert = "update" /\ i = f + 8
      /\ f \in Nat
  <2> HIDE DEF text, a, n, f
  <2> QED
    BY <1>a DEF KeyFacts
<1>2. Render(WithoutUpsert(r)) = front \o s
  BY WithoutUpsertParts
<1>3. text[a + 1] = r.verb /\ r.verb # "ON" /\ text \in Text
  <2>1. text[a + 1] = r.verb /\ text \in Text
    BY VerbAt
  <2>2. r.verb # "ON"
    BY RecordFacts DEF Shaped
  <2> QED
    BY <2>1, <2>2
<1>4. r.clause = "REPLACE" => text[a + n + 4] = "REPLACE"
  BY ClauseWord
<1>5. r.upsert # "none" => text[f + 2] = "ON" /\ text[f + 3] = "sp" /\ text[f + 4] = "CONFLICT"
                       /\ PastBlanks(text, f + 3) = f + 4 /\ f + 4 <= Len(text)
  BY <1>b DEF UpsertFacts
<1>6. r.upsert = "update" => text[f + 8] = "UPDATE"
  BY <1>b DEF UpsertFacts
<1>7. \A i \in on : r.upsert # "none" /\ i = f + 2
  BY <1>1, <1>3, <1>4, <1>6 DEF Keys
<1>8. front \in Text /\ Solid(front) /\ u \in Text /\ s \in Text
  BY FrontPiece, PartTypes
<1>9. (r.semi => s = <<"semi">>) /\ (~r.semi => s = <<>>) /\ r.semi \in BOOLEAN
  BY RecordFacts DEF Semi, Optional, Shaped
<1>10. ASSUME r.upsert = "none" PROVE StripUpsert(text) = Render(WithoutUpsert(r))
  <2>1. on = {}
    BY <1>7, <1>10
  <2>2. StripUpsert(text) = text
    <3> HIDE DEF text
    <3> QED
      BY <2>1 DEF StripUpsert
  <2>3. u = <<>>
    BY <1>10 DEF Upsert
  <2>4. text = front \o s
    <3>1. text = (front \o u) \o s
      BY RenderFront
    <3> HIDE DEF front, u, s
    <3> QED
      BY <1>8, <2>3, <3>1, ConcatEmptySeq DEF Text
  <2> QED
    BY <1>2, <2>2, <2>4
<1>11. ASSUME r.upsert # "none" PROVE StripUpsert(text) = Render(WithoutUpsert(r))
  <2>1. f + 2 \in on
    <3>1. (f + 2) + 1 = f + 3 /\ f + 4 \in 1..Len(text) /\ DOMAIN text = 1..Len(text)
      BY <1>1, <1>3, <1>5, <1>11, TextFacts
    <3> HIDE DEF text, f
    <3> QED
      BY <1>1, <1>5, <1>11, <3>1
  <2>2. on = {f + 2}
    BY <1>7, <2>1
  <2>3. First({f + 2}) = f + 2
    <3>1. f + 2 \in Int
      BY <1>1
    <3> QED
      BY <3>1, FirstOfOne
  <2>4. InsertLike(text)
    <3>1. r.verb = "INSERT"
      BY <1>11, RecordFacts DEF Shaped
    <3> QED
      BY <3>1, FirstWord DEF InsertLike
  <2>5. StripUpsert(text) = Trimmed(Before(text, f + 2)) \o Optional(Last(text) = "semi", <<"semi">>)
    <3>1. StripUpsert(text) = Trimmed(Before(text, First(on))) \o Optional(Last(text) = "semi", <<"semi">>)
      <4> HIDE DEF text
      <4> QED
        BY <2>2, <2>4 DEF StripUpsert
    <3> HIDE DEF text, on, f
    <3> QED
      BY <2>2, <2>3, <3>1
  <2>6. u # <<>> /\ u[1] = "sp" /\ Solid(u)
    BY <1>11, UpsertPiece
  <2>7. Placed(front, text, 0) /\ Placed(u \o s, text, f) /\ Len(text) = f + Len(u \o s)
    BY RenderPlaces
  <2>8. Last(text) = "semi" <=> r.semi
    <3>1. Last(text) = text[Len(text)]
      BY DEF Last
    <3> HIDE DEF text, u, s, front
    <3>2. /\ Placed(u, text, f) /\ Placed(s, text, f + Len(u)) /\ Len(u \o s) = Len(u) + Len(s)
          /\ Len(u) \in Nat \ {0}
      <4>1. f \in 0..Len(text)
        BY <1>1, <2>7 DEF Placed
      <4> QED
        BY <1>3, <1>8, <2>6, <2>7, <4>1, PlacedConcat, TextFacts, EmptySeq DEF Text
    <3>3. CASE r.semi
      <4>1. Len(s) = 1 /\ s[1] = "semi"
        BY <1>9, <3>3
      <4>2. text[(f + Len(u)) + 1] = "semi"
        <5>1. 1 \in 1..Len(s)
          BY <4>1
        <5> QED
          BY <3>2, <4>1, <5>1 DEF Placed
      <4>3. (f + Len(u)) + 1 = Len(text)
        BY <1>1, <2>7, <3>2, <4>1
      <4> QED
        BY <3>1, <3>3, <4>2, <4>3
    <3>4. CASE ~r.semi
      <4>1. Len(s) = 0
        BY <1>9, <3>4
      <4>2. f + Len(u) = Len(text) /\ Len(u) \in 1..Len(u)
        BY <1>1, <2>7, <3>2, <4>1
      <4>3. text[f + Len(u)] = u[Len(u)]
        BY <3>2, <4>2 DEF Placed
      <4> QED
        BY <2>6, <3>1, <3>4, <4>2, <4>3 DEF Solid
    <3> QED
      BY <1>9, <3>3, <3>4
  <2>9. Before(text, f + 2) = front \o <<"sp">>
    <3> DEFINE p == front \o <<"sp">>
    <3>1. <<"sp">> \in Text /\ Len(<<"sp">>) = 1 /\ <<"sp">>[1] = "sp"
      BY OneMark, MarksAreElements DEF Marks, Blanks
    <3>2. p \in Text /\ Len(p) = f + 1
      BY <1>8, <3>1, Concat
    <3>3. \A j \in 1..(f + 1) : p[j] = IF j <= f THEN front[j] ELSE <<"sp">>[j - f]
      <4>1. front \in Seq(Elements) /\ <<"sp">> \in Seq(Elements)
        BY <1>8, <3>1 DEF Text
      <4> QED
        BY <3>1, <4>1, ConcatProperties
    <3>4. text[f + 1] = "sp"
      <4> HIDE DEF text, u, s, front
      <4>1. f \in 0..Len(text)
        BY <1>1, <2>7 DEF Placed
      <4>2. Placed(u, text, f)
        BY <1>3, <1>8, <2>7, <4>1, PlacedConcat
      <4>3. 1 \in 1..Len(u)
        <5>1. Len(u) \in Nat \ {0}
          BY <1>8, <2>6, TextFacts, EmptySeq DEF Text
        <5> QED
          BY <5>1
      <4> QED
        BY <2>6, <4>2, <4>3 DEF Placed
    <3>5. \A j \in 1..f : text[0 + j] = front[j]
      BY <2>7 DEF Placed
    <3> HIDE DEF text, front, p
    <3>6. Placed(p, text, 0)
      <4>1. 0 + Len(p) <= Len(text)
        BY <1>1, <1>5, <1>11, <3>2
      <4>2. ASSUME NEW j \in 1..Len(p) PROVE text[0 + j] = p[j]
        <5>1. CASE j <= f
          <6>1. j \in 1..f /\ j \in 1..(f + 1)
            BY <1>1, <3>2, <4>2, <5>1
          <6> QED
            BY <3>3, <3>5, <5>1, <6>1
        <5>2. CASE ~(j <= f)
          <6>1. j = f + 1 /\ j \in 1..(f + 1) /\ j - f = 1 /\ 0 + j = f + 1
            BY <1>1, <3>2, <4>2, <5>2
          <6> QED
            BY <3>1, <3>3, <3>4, <5>2, <6>1
        <5> QED
          BY <5>1, <5>2
      <4> QED
        BY <4>1, <4>2 DEF Placed
    <3>7. Before(text, Len(p) + 1) = p
      BY <1>3, <3>2, <3>6, CutBefore
    <3>8. (f + 1) + 1 = f + 2
      BY <1>1
    <3> QED
      BY <3>2, <3>7, <3>8 DEF p
  <2>10. Trimmed(front \o <<"sp">>) = front
    BY <1>8, TrimmedIs
  <2> HIDE DEF text, front, s, f
  <2>11. CASE r.semi
    <3>1. Optional(Last(text) = "semi", <<"semi">>) = <<"semi">>
      BY <2>8, <2>11 DEF Optional
    <3> QED
      BY <1>2, <1>9, <2>5, <2>9, <2>10, <2>11, <3>1
  <2>12. CASE ~r.semi
    <3>1. Optional(Last(text) = "semi", <<"semi">>) = <<>>
      BY <2>8, <2>12 DEF Optional
    <3> QED
      BY <1>2, <1>9, <2>5, <2>9, <2>10, <2>12, <3>1
  <2> QED
    BY <1>9, <2>11, <2>12
<1> QED
  BY <1>10, <1>11

-----------------------------------------------------------------------------
(* What the loader and the strict check make of a statement.               *)
Bare(r, algs) == IF r.clause \in algs THEN NoClause(r) ELSE r
Strict(r) == WithoutUpsert(IF r.verb = "REPLACE" THEN AsInsert(Bare(r, Reviewable)) ELSE Bare(r, Reviewable))

(* Taking the clause off leaves a statement.                               *)
LEMMA BareFacts ==
  ASSUME NEW r, Shaped(r), IsBlank(r.gap), NEW algs, algs \subseteq Algorithms
  PROVE  /\ Shaped(Bare(r, algs)) /\ IsBlank(Bare(r, algs).gap) /\ Bare(r, algs).verb = r.verb
         /\ Bare(r, algs).clause \notin algs
<1>1. "none" \notin algs
  BY DEF Algorithms
<1>2. CASE r.clause \in algs
  <2>1. Shaped(NoClause(r))
    BY NoClauseParts
  <2>2. NoClause(r).gap = <<"sp">> /\ NoClause(r).verb = r.verb /\ NoClause(r).clause = "none"
    BY EditedFields
  <2>3. Bare(r, algs) = NoClause(r)
    BY <1>2 DEF Bare
  <2> QED
    BY <1>1, <2>1, <2>2, <2>3, BlankIsGap
<1>3. CASE r.clause \notin algs
  BY <1>3 DEF Bare
<1> QED
  BY <1>2, <1>3

(* Both kinds of statement lose the clause.                                *)
LEMMA BothRemoved ==
  ASSUME NEW r, Shaped(r), IsBlank(r.gap), NEW algs, algs \subseteq Algorithms
  PROVE  RemoveOrClause(RemoveOrClause(Render(r), "INSERT", algs), "UPDATE", algs) = Render(Bare(r, algs))
<1> DEFINE t == NoClause(r)
<1>1. Shaped(t) /\ IsBlank(t.gap) /\ t.clause = "none" /\ "none" \notin algs /\ t.verb = r.verb
  BY NoClauseParts, EditedFields, BlankIsGap DEF Algorithms
<1> HIDE DEF t
<1>2. CASE r.clause \notin algs
  <2>1. RemoveOrClause(Render(r), "INSERT", algs) = Render(r)
    BY <1>2, RemoveOrIs
  <2>2. RemoveOrClause(Render(r), "UPDATE", algs) = Render(r)
    BY <1>2, RemoveOrIs
  <2>3. Bare(r, algs) = r
    BY <1>2 DEF Bare
  <2> QED
    BY <2>1, <2>2, <2>3
<1>3. CASE r.clause \in algs
  <2>1. r.clause # "none" /\ r.verb \in {"INSERT", "UPDATE"} /\ Bare(r, algs) = t
    BY <1>1, <1>3, RecordFacts DEF Shaped, Bare, t
  <2>2. CASE r.verb = "INSERT"
    <3>1. RemoveOrClause(Render(r), "INSERT", algs) = Render(t)
      BY <1>3, <2>2, RemoveOrIs DEF t
    <3>2. RemoveOrClause(Render(t), "UPDATE", algs) = Render(t)
      BY <1>1, RemoveOrIs
    <3> QED
      BY <2>1, <3>1, <3>2
  <2>3. CASE r.verb = "UPDATE"
    <3>1. RemoveOrClause(Render(r), "INSERT", algs) = Render(r)
      BY <2>3, RemoveOrIs
    <3>2. RemoveOrClause(Render(r), "UPDATE", algs) = Render(t)
      BY <1>3, <2>3, RemoveOrIs DEF t
    <3> QED
      BY <2>1, <3>1, <3>2
  <2> QED
    BY <2>1, <2>2, <2>3
<1> QED
  BY <1>2, <1>3

(* The loader takes OR ROLLBACK off.                                       *)
LEMMA NeutralizedIs ==
  ASSUME NEW r, Shaped(r), IsBlank(r.gap)
  PROVE  Neutralized(Render(r)) = Render(Bare(r, {"ROLLBACK"}))
<1>1. {"ROLLBACK"} \subseteq Algorithms
  BY DEF Algorithms
<1> QED
  BY <1>1, BothRemoved DEF Neutralized

(* The strict check takes OR IGNORE, OR REPLACE, REPLACE and UPSERT off.   *)
LEMMA StrictIs ==
  ASSUME NEW r, Shaped(r), IsBlank(r.gap)
  PROVE  StrictRewrite(Render(r)) = Render(Strict(r))
<1> DEFINE b == Bare(r, Reviewable)
           c == IF r.verb = "REPLACE" THEN AsInsert(b) ELSE b
<1>1. Reviewable \subseteq Algorithms /\ "REPLACE" \in Reviewable
  BY DEF Algorithms, Reviewable
<1>2. Shaped(b) /\ IsBlank(b.gap) /\ b.verb = r.verb /\ b.clause \notin Reviewable
  BY <1>1, BareFacts
<1>3. RemoveOrClause(RemoveOrClause(Render(r), "INSERT", Reviewable), "UPDATE", Reviewable) = Render(b)
  BY <1>1, BothRemoved
<1> HIDE DEF b
<1>4. RewriteReplaceInto(Render(b), <<"INSERT">>) = Render(c) /\ Shaped(c) /\ c.verb # "REPLACE"
  <2>1. CASE r.verb = "REPLACE"
    <3>1. c = AsInsert(b)
      BY <2>1
    <3> HIDE DEF c
    <3> QED
      BY <1>2, <2>1, <3>1, RewriteIntoIs, AsInsertParts, EditedFields
  <2>2. CASE r.verb # "REPLACE"
    <3>1. c = b
      BY <2>2
    <3> HIDE DEF c
    <3> QED
      BY <1>1, <1>2, <2>2, <3>1, RewriteIntoIs
  <2> QED
    BY <2>1, <2>2
<1>5. Strict(r) = WithoutUpsert(c)
  BY DEF Strict, b
<1> HIDE DEF c
<1> QED
  BY <1>3, <1>4, <1>5, StripIs DEF StrictRewrite

-----------------------------------------------------------------------------
(* The clause of an UPDATE, noted before the text is rewritten and put     *)
(* back after.                                                             *)
LEMMA ResolutionIs ==
  ASSUME NEW r, Shaped(r), Normalized(Render(r)).resolution.kind = "UPDATE"
  PROVE  /\ r.verb = "UPDATE" /\ r.clause \in Algorithms
         /\ Normalized(Render(r)).resolution.algorithm = r.clause
<1> DEFINE text == Render(r)
           a == Len(WithPart(r))
           n == Len(r.gap)
           update == OrResolution(text, "UPDATE", Algorithms)
           insert == OrResolution(text, "INSERT", Algorithms)
           found == IF update # NoResolution THEN update ELSE insert
           resolution == Normalized(text).resolution
           sets == OrClause("UPDATE", Algorithms)
<1>1. resolution = found \/ resolution = [kind |-> "INSERT", algorithm |-> "REPLACE"]
  BY Zenon DEF Normalized
<1>2. insert.kind # "UPDATE"
  <2>1. insert = NoResolution \/ \E x : insert = [kind |-> "INSERT", algorithm |-> x]
    BY DEF OrResolution
  <2> HIDE DEF insert
  <2> QED
    BY <2>1 DEF NoResolution
<1>3. resolution = update /\ update # NoResolution
  <2> HIDE DEF resolution, update, insert
  <2>1. resolution.kind = "UPDATE"
    BY DEF resolution
  <2>2. resolution = found
    BY <1>1, <2>1
  <2> QED
    BY <1>2, <2>1, <2>2
<1>4. Matches(text, sets) # {}
  <2> SUFFICES ASSUME Matches(text, sets) = {} PROVE FALSE
    OBVIOUS
  <2>1. update = NoResolution
    BY DEF OrResolution
  <2> QED
    BY <1>3, <2>1
<1>a. OrFacts(r, text, a, n, "UPDATE", Algorithms)
  BY OrMatches
<1>5. r.verb = "UPDATE" /\ r.clause \in Algorithms /\ IsBlank(r.gap)
  <2> HIDE DEF text, a, n
  <2> QED
    BY <1>4, <1>a DEF OrFacts
<1>6. /\ Matches(text, sets) = {a + 1} /\ MatchAt(text, a + 1, << {"UPDATE"}, {"OR"} >>) = a + n + 4
  <2> HIDE DEF text, a, n
  <2> QED
    BY <1>5, <1>a DEF OrFacts
<1>7. r.clause # "none"
  BY <1>5 DEF Algorithms
<1>8. text[a + n + 4] = r.clause
  BY <1>7, ClauseWord
<1>9. First({a + 1}) = a + 1
  <2>1. a + 1 \in Int
    BY VerbAt
  <2> QED
    BY <2>1, FirstOfOne
<1>10. update = [kind |-> "UPDATE", algorithm |-> r.clause]
  <2> HIDE DEF text, a, n
  <2> QED
    BY <1>6, <1>8, <1>9 DEF OrResolution
<1>11. update.algorithm = r.clause
  <2> HIDE DEF update
  <2> QED
    BY <1>10
<1> QED
  BY <1>3, <1>5, <1>11

(* RESTORE: putting the clause back is putting it into the statement.      *)
LEMMA RestoreIs ==
  ASSUME NEW r, Shaped(r), r.clause = "none", r.gap = <<"sp">>, r.upsert = "none",
         NEW resolution, resolution.kind = "UPDATE" => resolution.algorithm \in Algorithms
  PROVE  /\ r.verb = "UPDATE" /\ resolution.kind = "UPDATE" =>
              /\ Shaped([r EXCEPT !.clause = resolution.algorithm])
              /\ RestoreUpdate(Render(r), resolution) = Render([r EXCEPT !.clause = resolution.algorithm])
         /\ ~(r.verb = "UPDATE" /\ resolution.kind = "UPDATE") =>
              RestoreUpdate(Render(r), resolution) = Render(r)
<1> DEFINE text == Render(r)
           p == WithPart(r)
           q == Rest(r)
           a == Len(p)
           n == Len(r.gap)
           f == Len(Ahead(r))
           top == TopLevelKeywords(text)
           c == resolution.algorithm
           t == [r EXCEPT !.clause = c]
           one == << {"UPDATE"} >>
<1>a. KeyFacts(r, text, a, n, f)
  BY KeysAre
<1>b. Len(one) = 1 /\ one[1] = {"UPDATE"}
  OBVIOUS
<1>1. /\ top \subseteq 1..Len(text) /\ Len(text) \in Nat /\ a + 1 \in top
      /\ \A i \in top : text[i] \in Keys => i = a + 1
      /\ a \in Nat
  <2> HIDE DEF text, a, n, f
  <2> QED
    BY <1>a DEF KeyFacts
<1>2. n = 1 /\ IsBlank(r.gap) /\ text[a + 1] = r.verb /\ text \in Text
  BY BlankIsGap, VerbAt
<1>d. ClauseFacts(r, text, a, n)
  BY <1>2, ClauseAt
<1>c. \A i : MatchAt(text, i, one) = Step(text, i, {"UPDATE"})
  <2> HIDE DEF one
  <2> QED
    BY <1>b, MatchOne
<1>3. Matches(text, one) = {i \in top : Step(text, i, {"UPDATE"}) # 0}
  <2> HIDE DEF one, text
  <2> QED
    BY <1>c DEF Matches
<1>4. \A i \in top : Step(text, i, {"UPDATE"}) # 0 => i = a + 1 /\ r.verb = "UPDATE"
  BY <1>1, <1>2, StepFound DEF Keys
<1>5. ASSUME r.verb # "UPDATE" PROVE RestoreUpdate(text, resolution) = text
  <2>1. Matches(text, one) = {}
    BY <1>3, <1>4, <1>5
  <2> HIDE DEF text
  <2> QED
    BY <2>1 DEF RestoreUpdate
<1>6. ASSUME resolution.kind # "UPDATE" PROVE RestoreUpdate(text, resolution) = text
  BY <1>6 DEF RestoreUpdate
<1>7. ASSUME r.verb = "UPDATE", resolution.kind = "UPDATE"
      PROVE  Shaped(t) /\ RestoreUpdate(text, resolution) = Render(t)
  <2>0. c \in Algorithms
    BY <1>7
  <2>1. Step(text, a + 1, {"UPDATE"}) = a + n + 2 /\ a + n + 2 # 0
    <3>1. StepsTo(text, a + 1, r.verb, a + n + 2)
      <4> HIDE DEF text, a, n
      <4> QED
        BY <1>d DEF ClauseFacts
    <3> HIDE DEF text, a, n
    <3> QED
      BY <1>1, <1>2, <1>7, <3>1 DEF StepsTo
  <2>2. Matches(text, one) = {a + 1} /\ MatchAt(text, a + 1, one) = a + n + 2
    <3> HIDE DEF one, text, a, n
    <3> QED
      BY <1>1, <1>3, <1>4, <1>c, <2>1
  <2>3. First({a + 1}) = a + 1
    <3>1. a + 1 \in Int
      BY <1>1
    <3> QED
      BY <3>1, FirstOfOne
  <2>4. /\ Placed(q, text, a + n + 1) /\ a + n + 1 \in 0..Len(text) /\ a + n + 1 + Len(q) = Len(text)
        /\ (a + n + 1) + 1 = a + n + 2
    <3> HIDE DEF text, a, n, q
    <3>1. /\ Placed(Rest(r), text, a + n + 1) /\ a + n + 1 \in 0..Len(text)
          /\ a + n + 1 + Len(Rest(r)) = Len(text)
      BY <1>d DEF ClauseFacts
    <3>2. (a + n + 1) + 1 = a + n + 2
      BY <1>1, <1>2
    <3> QED
      BY <3>1, <3>2 DEF q
  <2>5. Placed(p, text, 0) /\ p \in Text /\ q \in Text
    BY RenderPlaces, PartTypes, RenderSplit
  <2>6. /\ t \in Records /\ t.clause = c /\ t.gap = <<"sp">> /\ t.verb = "UPDATE"
        /\ t.columns = r.columns /\ t.source = r.source /\ t.rows = r.rows /\ t.upsert = "none"
        /\ t.set = r.set /\ t.where = r.where /\ t.with = r.with /\ t.note = r.note /\ t.semi = r.semi
    <3>1. r \in Records
      BY DEF Shaped
    <3>2. t \in Records
      BY <2>0, <3>1 DEF Records
    <3> QED
      BY <1>7, <3>1, <3>2 DEF Records
  <2> HIDE DEF t
  <2>7. Shaped(t)
    BY <1>7, <2>6 DEF Shaped
  <2>8. Body(t) = Body(r) /\ Upsert(t) = Upsert(r)
    BY <2>6, SameBody, SameUpsert
  <2>9. IntoPart(t) = IntoPart(r) /\ NotePart(t) = NotePart(r) /\ Semi(t) = Semi(r) /\ WithPart(t) = p
    BY <1>7, <2>6 DEF IntoPart, NotePart, Semi, WithPart
  <2>10. Rest(t) = q
    BY <2>8, <2>9 DEF Rest, AheadRest
  <2>11. OrPart(t) = <<"OR", "sp", c, "sp">>
    <3>1. c # "none"
      BY <2>0 DEF Algorithms
    <3> QED
      BY <2>6, <3>1 DEF OrPart, Optional
  <2>12. Render(t) = p \o (<<"UPDATE">> \o (<<"sp">> \o (<<"OR", "sp", c, "sp">> \o q)))
    BY <2>6, <2>7, <2>9, <2>10, <2>11, RenderSplit DEF WithRest
  <2> DEFINE x == <<"UPDATE">>
             y == <<"sp">>
             z == <<"OR", "sp", c, "sp">>
             yz == y \o z
             xyz == x \o yz
  <2>13. x \in Text /\ y \in Text /\ z \in Text
    <3>1. "UPDATE" \in Elements /\ "sp" \in Elements /\ "OR" \in Elements /\ c \in Elements
      BY <2>0, MarksAreElements DEF Words, Marks, Blanks
    <3>2. z \in Seq(Elements) /\ x \in Seq(Elements) /\ y \in Seq(Elements)
      BY <3>1
    <3> QED
      BY <3>2 DEF Text
  <2>14. RestoredClause(resolution) = xyz
    BY DEF RestoredClause
  <2> HIDE DEF text, p, q, a, n, x, y, z
  <2>15. yz \in Text
    BY <2>13, Concat
  <2>16. xyz \in Text
    <3> HIDE DEF yz
    <3> QED
      BY <2>13, <2>15, Concat
  <2>17. RestoreUpdate(text, resolution) = (Before(text, a + 1) \o RestoredClause(resolution)) \o From(text, a + n + 2)
    BY <1>7, <2>2, <2>3 DEF RestoreUpdate
  <2>18. Before(text, a + 1) = p
    BY <1>2, <2>5, CutBefore DEF a
  <2>19. From(text, a + n + 2) = q
    BY <1>2, <2>4, <2>5, CutFrom
  <2>20. RestoreUpdate(text, resolution) = (p \o xyz) \o q
    BY <2>14, <2>17, <2>18, <2>19
  <2>21. (p \o xyz) \o q = p \o (xyz \o q)
    <3> HIDE DEF xyz
    <3> QED
      OBVIOUS
  <2>22. xyz \o q = x \o (yz \o q)
    <3> HIDE DEF yz
    <3> QED
      OBVIOUS
  <2>23. yz \o q = y \o (z \o q)
    OBVIOUS
  <2>24. Render(t) = p \o (x \o (y \o (z \o q)))
    BY <2>12 DEF x, y, z
  <2> HIDE DEF xyz, yz
  <2> QED
    BY <2>7, <2>20, <2>21, <2>22, <2>23, <2>24
<1> QED
  BY <1>5, <1>6, <1>7

-----------------------------------------------------------------------------
(* The statements the rewriting works on.                                  *)
Alike(r, m) ==
  /\ r \in Records
  /\ r.columns = m.columns /\ r.source = m.source /\ r.rows = m.rows
  /\ r.with = m.with /\ r.note = m.note /\ r.semi = m.semi
  /\ r.verb \in {m.verb, "INSERT"} /\ r.clause \in {m.clause, "none", "REPLACE"}
  /\ r.gap \in {m.gap, <<"sp">>}
  /\ \/ r.upsert = m.upsert /\ r.set = m.set /\ r.where = m.where
     \/ r.upsert = "none" /\ r.set = <<"1">> /\ r.where = FALSE

(* Statements with the same fields are the same.                           *)
LEMMA RecordEqual ==
  ASSUME NEW r \in Records, NEW t \in Records,
         r.verb = t.verb, r.clause = t.clause, r.gap = t.gap, r.columns = t.columns,
         r.source = t.source, r.rows = t.rows, r.upsert = t.upsert, r.set = t.set,
         r.where = t.where, r.with = t.with, r.note = t.note, r.semi = t.semi
  PROVE  r = t
BY DEF Records

Changed(x, v, c, g) == [x EXCEPT !.verb = v, !.clause = c, !.gap = g]
ChangedFacts(t, x, v, c, g, m) ==
  /\ t \in Records /\ Alike(t, m) /\ t.verb = v /\ t.clause = c /\ t.gap = g
  /\ t.upsert = x.upsert /\ t.set = x.set /\ t.where = x.where

(* Every reading is like the statement it is a reading of, and the other   *)
(* way round.                                                              *)
LEMMA VariantsAre ==
  ASSUME NEW m \in Records, NEW r
  PROVE  r \in Variants(m) <=> Alike(r, m)
<1>0. "REPLACE" \in Algorithms /\ <<"sp">> \in Text /\ <<"1">> \in Text
  BY OneMark, MarksAreElements DEF Marks, Blanks, Elements, Algorithms
<1>1. /\ WithoutUpsert(m) \in Records /\ WithoutUpsert(m).columns = m.columns
      /\ WithoutUpsert(m).source = m.source /\ WithoutUpsert(m).rows = m.rows
      /\ WithoutUpsert(m).with = m.with /\ WithoutUpsert(m).note = m.note
      /\ WithoutUpsert(m).semi = m.semi /\ WithoutUpsert(m).upsert = "none"
      /\ WithoutUpsert(m).set = <<"1">> /\ WithoutUpsert(m).where = FALSE
  <2>1. WithoutUpsert(m) \in Records
    BY <1>0 DEF Records, WithoutUpsert
  <2> QED
    BY <2>1 DEF Records, WithoutUpsert
<1> DEFINE bases == {m, WithoutUpsert(m)}
           verbs == {m.verb, "INSERT"}
           clauses == {m.clause, "none", "REPLACE"}
           gaps == {m.gap, <<"sp">>}
<1> HIDE DEF bases, verbs, clauses, gaps
<1>2. ASSUME NEW x \in bases, NEW v \in verbs, NEW c \in clauses, NEW g \in gaps
      PROVE  ChangedFacts(Changed(x, v, c, g), x, v, c, g, m)
  <2> DEFINE t == Changed(x, v, c, g)
  <2>1. x \in Records
    BY <1>1 DEF bases
  <2>2. v \in {"INSERT", "REPLACE", "UPDATE"} /\ c \in Algorithms \cup {"none"} /\ g \in Text
    BY <1>0, RecordFacts DEF verbs, clauses, gaps
  <2>3. t \in Records
    BY <2>1, <2>2 DEF Records, Changed
  <2>4. /\ t.columns = x.columns /\ t.source = x.source /\ t.rows = x.rows /\ t.with = x.with
        /\ t.note = x.note /\ t.semi = x.semi /\ t.verb = v /\ t.clause = c /\ t.gap = g
        /\ t.upsert = x.upsert /\ t.set = x.set /\ t.where = x.where
    BY <2>1, <2>2 DEF Records, Changed
  <2> HIDE DEF t
  <2>5. Alike(t, m)
    <3>1. CASE x = m
      BY <2>3, <2>4, <3>1 DEF Alike, verbs, clauses, gaps
    <3>2. CASE x = WithoutUpsert(m)
      <4> HIDE DEF WithoutUpsert
      <4> QED
        BY <1>1, <2>3, <2>4, <3>2 DEF Alike, verbs, clauses, gaps
    <3> QED
      BY <3>1, <3>2 DEF bases
  <2> QED
    BY <2>3, <2>4, <2>5 DEF t, ChangedFacts
<1>3. \A y : y \in Variants(m) <=>
            \E x \in bases, v \in verbs, c \in clauses, g \in gaps : y = Changed(x, v, c, g)
  BY DEF Variants, Changed, bases, verbs, clauses, gaps
<1>4. ASSUME r \in Variants(m) PROVE Alike(r, m)
  <2>1. PICK x \in bases, v \in verbs, c \in clauses, g \in gaps : r = Changed(x, v, c, g)
    BY <1>3, <1>4
  <2>2. ChangedFacts(r, x, v, c, g, m)
    BY <1>2, <2>1
  <2> QED
    BY <2>2 DEF ChangedFacts
<1>5. ASSUME Alike(r, m) PROVE r \in Variants(m)
  <2>1. PICK x \in bases : r.upsert = x.upsert /\ r.set = x.set /\ r.where = x.where
    <3>1. m \in bases /\ WithoutUpsert(m) \in bases
      BY DEF bases
    <3> QED
      BY <1>1, <1>5, <3>1 DEF Alike
  <2> DEFINE v == r.verb
             c == r.clause
             g == r.gap
             t == Changed(x, v, c, g)
  <2>2. v \in verbs /\ c \in clauses /\ g \in gaps
    BY <1>5 DEF Alike, verbs, clauses, gaps
  <2>3. t \in Variants(m)
    <3> HIDE DEF v, c, g
    <3> QED
      BY <1>3, <2>2
  <2>4. ChangedFacts(t, x, v, c, g, m)
    <3> HIDE DEF v, c, g
    <3> QED
      BY <1>2, <2>2
  <2> HIDE DEF t
  <2>5. t = r
    <3>1. /\ t.verb = r.verb /\ t.clause = r.clause /\ t.gap = r.gap /\ t \in Records /\ Alike(t, m)
          /\ t.upsert = x.upsert /\ t.set = x.set /\ t.where = x.where
      BY <2>4 DEF ChangedFacts
    <3>2. /\ t.columns = r.columns /\ t.source = r.source /\ t.rows = r.rows /\ t.with = r.with
          /\ t.note = r.note /\ t.semi = r.semi /\ r \in Records
      BY <1>5, <3>1 DEF Alike
    <3> QED
      BY <2>1, <3>1, <3>2, RecordEqual
  <2> QED
    BY <2>3, <2>5
<1> QED
  BY <1>4, <1>5

(* What is known of a statement the application may execute.               *)
LEMMA StatementFacts ==
  ASSUME NEW s \in Statements
  PROVE  /\ s \in Records /\ Shaped(s)
         /\ Len(s.rows) \in Nat /\ 2 * Len(s.rows) + 1 <= Len(Fresh) /\ Len(Fresh) \in Nat
         /\ \A i \in 1..Len(s.rows) : /\ s.rows[i] \in Seq(Text) /\ Len(s.rows[i]) \in 1..2
                                      /\ s.source # "update" => Len(s.rows[i]) = Len(Columns(s))
                                      /\ \A j \in 1..Len(s.rows[i]) : s.rows[i][j] \in Text /\ Written(s.rows[i][j])
         /\ Written(s.set) /\ (s.upsert # "update" => s.set = <<"1">> /\ s.where = FALSE)
         /\ (s.verb = "UPDATE" <=> s.source = "update")
         /\ (s.source = "default" => s.columns = <<>> /\ s.rows = <<>> /\ s.upsert = "none")
         /\ (s.source = "update" => /\ s.columns = <<>> /\ s.upsert = "none"
                                    /\ Len(s.rows) = 1 /\ Len(s.rows[1]) = 1)
         /\ (s.source = "values" => Len(s.rows) >= 1) /\ (s.source = "select" => Len(s.rows) = 1)
<1>1. Grammatical(s)
  BY StatementsAssumption
<1>2. s \in Records /\ s.where \in BOOLEAN
  BY <1>1 DEF Grammatical, Records
<1>3. s.rows \in Seq(Seq(Text)) /\ s.source \in {"values", "select", "default", "update"}
      /\ s.columns \in {<<>>, <<"c">>, <<"d">>, <<"c", "d">>, <<"d", "c">>}
  BY <1>2, RecordFacts
<1>4. Len(s.rows) \in Nat /\ DOMAIN s.rows = 1..Len(s.rows) /\ \A i \in 1..Len(s.rows) : s.rows[i] \in Seq(Text)
  BY <1>3, LenProperties, ElementOfSeq
<1>5. Len(Columns(s)) \in 1..2
  BY <1>3 DEF Columns
<1>6. /\ Written(s.set) /\ (s.upsert # "update" => s.set = <<"1">> /\ ~s.where)
      /\ (s.verb = "UPDATE" <=> s.source = "update")
      /\ s.verb = "REPLACE" => s.clause = "none"
      /\ Gap(s.gap) /\ (s.note = <<>> \/ Comment(s.note)) /\ (s.with = <<>> \/ Written(s.with))
      /\ \A i \in DOMAIN s.rows : \A j \in DOMAIN s.rows[i] : Written(s.rows[i][j])
  BY <1>1 DEF Grammatical
<1>7. /\ s.source = "default" => s.columns = <<>> /\ s.rows = <<>> /\ s.upsert = "none"
      /\ s.source = "update" => s.columns = <<>> /\ s.upsert = "none" /\ Len(s.rows) = 1 /\ Len(s.rows[1]) = 1
      /\ s.source = "select" => Len(s.rows) = 1
      /\ s.source = "values" => s.rows # <<>>
      /\ s.source \in {"values", "select"} => \A i \in DOMAIN s.rows : Len(s.rows[i]) = Len(Columns(s))
  BY <1>1, <1>3 DEF Grammatical
<1>8. \A i \in 1..Len(s.rows) : /\ Len(s.rows[i]) \in 1..2
                                /\ s.source # "update" => Len(s.rows[i]) = Len(Columns(s))
  <2> SUFFICES ASSUME NEW i \in 1..Len(s.rows)
               PROVE  Len(s.rows[i]) \in 1..2 /\ (s.source # "update" => Len(s.rows[i]) = Len(Columns(s)))
    OBVIOUS
  <2>1. CASE s.source = "default"
    <3>1. Len(s.rows) = 0
      BY <1>7, <2>1
    <3> QED
      BY <3>1
  <2>2. CASE s.source = "update"
    <3>1. i = 1
      <4>1. Len(s.rows) = 1
        BY <1>7, <2>2
      <4> QED
        BY <4>1
    <3> QED
      BY <1>7, <2>2, <3>1
  <2>3. CASE s.source \in {"values", "select"}
    BY <1>4, <1>5, <1>7, <2>3
  <2> QED
    BY <1>3, <2>1, <2>2, <2>3
<1>9. \A i \in 1..Len(s.rows) : \A j \in 1..Len(s.rows[i]) : s.rows[i][j] \in Text /\ Written(s.rows[i][j])
  <2> SUFFICES ASSUME NEW i \in 1..Len(s.rows), NEW j \in 1..Len(s.rows[i])
               PROVE  s.rows[i][j] \in Text /\ Written(s.rows[i][j])
    OBVIOUS
  <2>1. s.rows[i] \in Seq(Text)
    BY <1>4
  <2>2. j \in DOMAIN s.rows[i] /\ s.rows[i][j] \in Text
    BY <2>1, LenProperties, ElementOfSeq
  <2> QED
    BY <1>4, <1>6, <2>2
<1>10. /\ s.source # "default" => s.rows # <<>>
       /\ s.source \in {"select", "update"} => s.rows[1] # <<>>
  <2>1. s.source \in {"select", "update"} => 1 \in 1..Len(s.rows)
    BY <1>7
  <2>2. s.source \in {"select", "update"} => Len(s.rows[1]) \in 1..2
    BY <1>8, <2>1
  <2>3. Len(<<>>) = 0 /\ ~(0 \in 1..2)
    OBVIOUS
  <2>4. s.source # "default" => s.rows # <<>>
    <3>1. s.source \in {"select", "update"} => s.rows # <<>>
      BY <1>7
    <3> QED
      BY <1>3, <1>7, <3>1
  <2>5. s.source \in {"select", "update"} => s.rows[1] # <<>>
    BY <2>2, <2>3
  <2> QED
    BY <2>4, <2>5
<1>11. Shaped(s)
  BY <1>2, <1>6, <1>7, <1>10 DEF Shaped, Cell
<1>12. 2 * Len(s.rows) + 1 <= Len(Fresh) /\ Len(Fresh) \in Nat
  BY FreshAssumption, FreshFacts
<1>13. s.source = "values" => Len(s.rows) >= 1
  BY <1>3, <1>4, <1>7, EmptySeq
<1> QED
  BY <1>2, <1>4, <1>6, <1>7, <1>8, <1>9, <1>11, <1>12, <1>13

(* What a call leaves in the text, evaluated.                              *)
LEMMA EvaluatedFacts ==
  ASSUME NEW c \in Text, Written(c), NEW n \in 1..Len(Fresh)
  PROVE  /\ Evaluated(c, n) \in Text /\ Cell(Evaluated(c, n))
         /\ c = Now => Evaluated(c, n) = <<"then">>
         /\ c = Random => Evaluated(c, n) = <<Fresh[n]>>
         /\ c # Now /\ c # Random => Evaluated(c, n) = c
<1>1. Now # Random
  BY DEF Now, Random
<1>2. /\ c = Now => Evaluated(c, n) = <<"then">>
      /\ c = Random => Evaluated(c, n) = <<Fresh[n]>>
      /\ c # Now /\ c # Random => Evaluated(c, n) = c
  BY <1>1 DEF Evaluated
<1>3. n \in DOMAIN Fresh /\ Fresh[n] \in Elements /\ "then" \in Elements
  BY FreshFacts DEF Elements
<1>4. <<"then">> \in Text /\ <<Fresh[n]>> \in Text /\ Cell(<<"then">>) /\ Cell(<<Fresh[n]>>)
  BY <1>3, OneMark DEF Cell
<1>5. Cell(c)
  BY DEF Cell
<1> QED
  BY <1>2, <1>4, <1>5

(* The literals replace the calls, and nothing else changes.               *)
LEMMA ReplacedFacts ==
  ASSUME NEW s \in Statements, NEW t \in Records, t.rows = s.rows, Written(t.set)
  PROVE  /\ ReplaceCalls(t) \in Records
         /\ ReplaceCalls(t).verb = t.verb /\ ReplaceCalls(t).clause = t.clause
         /\ ReplaceCalls(t).gap = t.gap /\ ReplaceCalls(t).columns = t.columns
         /\ ReplaceCalls(t).source = t.source /\ ReplaceCalls(t).upsert = t.upsert
         /\ ReplaceCalls(t).where = t.where /\ ReplaceCalls(t).with = t.with
         /\ ReplaceCalls(t).note = t.note /\ ReplaceCalls(t).semi = t.semi
         /\ ReplaceCalls(t).set = Evaluated(t.set, 2 * Len(s.rows) + 1)
         /\ Cell(ReplaceCalls(t).set)
         /\ Len(ReplaceCalls(t).rows) = Len(s.rows)
         /\ \A i \in 1..Len(s.rows) :
               /\ ReplaceCalls(t).rows[i] \in Seq(Text)
               /\ Len(ReplaceCalls(t).rows[i]) = Len(s.rows[i])
               /\ \A j \in 1..Len(s.rows[i]) :
                     /\ ReplaceCalls(t).rows[i][j] = Evaluated(s.rows[i][j], (i - 1) * 2 + j)
                     /\ (i - 1) * 2 + j \in 1..Len(Fresh) /\ Cell(ReplaceCalls(t).rows[i][j])
<1> DEFINE n == Len(s.rows)
           row(i) == [j \in 1..Len(s.rows[i]) |-> Evaluated(s.rows[i][j], (i - 1) * 2 + j)]
           rows == [i \in 1..n |-> row(i)]
           set == Evaluated(t.set, 2 * n + 1)
           u == ReplaceCalls(t)
<1>1. /\ n \in Nat /\ 2 * n + 1 <= Len(Fresh) /\ Len(Fresh) \in Nat
      /\ \A i \in 1..n : /\ s.rows[i] \in Seq(Text) /\ Len(s.rows[i]) \in 1..2
                         /\ \A j \in 1..Len(s.rows[i]) : s.rows[i][j] \in Text /\ Written(s.rows[i][j])
  BY StatementFacts
<1>2. s.rows \in Seq(Seq(Text)) /\ DOMAIN s.rows = 1..n /\ \A i \in 1..n : DOMAIN s.rows[i] = 1..Len(s.rows[i])
  <2>1. s.rows \in Seq(Seq(Text))
    BY StatementFacts, RecordFacts
  <2> QED
    BY <1>1, <2>1, LenProperties
<1>3. u = [t EXCEPT !.rows = rows, !.set = set]
  <2>1. rows = [i \in DOMAIN t.rows |-> [j \in DOMAIN t.rows[i] |-> Evaluated(t.rows[i][j], (i - 1) * 2 + j)]]
    BY <1>2
  <2>2. t = [verb |-> t.verb, clause |-> t.clause, gap |-> t.gap, columns |-> t.columns,
             source |-> t.source, rows |-> t.rows, upsert |-> t.upsert, set |-> t.set,
             where |-> t.where, with |-> t.with, note |-> t.note, semi |-> t.semi]
    BY DEF Records
  <2> HIDE DEF rows
  <2> QED
    BY <2>1, <2>2 DEF ReplaceCalls
<1>4. \A i \in 1..n : \A j \in 1..Len(s.rows[i]) : (i - 1) * 2 + j \in 1..Len(Fresh)
  <2> SUFFICES ASSUME NEW i \in 1..n, NEW j \in 1..Len(s.rows[i]) PROVE (i - 1) * 2 + j \in 1..Len(Fresh)
    OBVIOUS
  <2>1. Len(s.rows[i]) \in 1..2
    BY <1>1
  <2> DEFINE k == Len(s.rows[i])
             l == Len(Fresh)
  <2>2. n \in Nat /\ i \in 1..n /\ k \in 1..2 /\ j \in 1..k /\ l \in Nat /\ 2 * n + 1 <= l
    BY <1>1, <2>1
  <2> HIDE DEF n, k, l
  <2>3. j \in 1..2 /\ i \in Nat /\ 1 <= i /\ i <= n
    BY ONLY <2>2
  <2>4. (i - 1) * 2 + j \in 1..l
    BY ONLY <2>2, <2>3
  <2> QED
    BY <2>4 DEF l
<1>5. \A i \in 1..n : \A j \in 1..Len(s.rows[i]) :
         /\ Evaluated(s.rows[i][j], (i - 1) * 2 + j) \in Text
         /\ Cell(Evaluated(s.rows[i][j], (i - 1) * 2 + j))
  BY <1>1, <1>4, EvaluatedFacts
<1>6. \A i \in 1..n : row(i) \in Seq(Text) /\ Len(row(i)) = Len(s.rows[i])
  <2> SUFFICES ASSUME NEW i \in 1..n PROVE row(i) \in Seq(Text) /\ Len(row(i)) = Len(s.rows[i])
    OBVIOUS
  <2>1. row(i) \in [1..Len(s.rows[i]) -> Text]
    BY <1>5
  <2>2. Len(s.rows[i]) \in Nat
    <3>1. Len(s.rows[i]) \in 1..2
      BY <1>1
    <3> QED
      BY ONLY <3>1
  <2> HIDE DEF row
  <2> QED
    BY ONLY <2>1, <2>2, SeqOfFunction
<1>7. rows \in Seq(Seq(Text)) /\ Len(rows) = n
  <2>1. rows \in [1..n -> Seq(Text)]
    BY <1>6
  <2>2. n \in Nat
    BY <1>1
  <2> HIDE DEF rows, n
  <2> QED
    BY <2>1, <2>2, SeqOfFunction
<1>8. set \in Text /\ Cell(set)
  <2>1. 2 * n + 1 \in 1..Len(Fresh)
    BY <1>1
  <2> QED
    BY <2>1, RecordFacts, EvaluatedFacts
<1>9. \A i \in 1..n : rows[i] = row(i) /\ \A j \in 1..Len(s.rows[i]) : rows[i][j] = Evaluated(s.rows[i][j], (i - 1) * 2 + j)
  OBVIOUS
<1> DEFINE x == [t EXCEPT !.rows = rows, !.set = set]
<1> HIDE DEF n, rows, set
<1>10. /\ x \in Records /\ x.verb = t.verb /\ x.clause = t.clause /\ x.gap = t.gap
       /\ x.columns = t.columns /\ x.source = t.source /\ x.upsert = t.upsert /\ x.where = t.where
       /\ x.with = t.with /\ x.note = t.note /\ x.semi = t.semi /\ x.rows = rows /\ x.set = set
  <2>1. x \in Records
    BY <1>7, <1>8 DEF Records
  <2> QED
    BY <2>1 DEF Records
<1>11. u = x
  BY <1>3
<1> HIDE DEF u, x
<1>12. /\ u \in Records /\ u.verb = t.verb /\ u.clause = t.clause /\ u.gap = t.gap
       /\ u.columns = t.columns /\ u.source = t.source /\ u.upsert = t.upsert /\ u.where = t.where
       /\ u.with = t.with /\ u.note = t.note /\ u.semi = t.semi
       /\ u.set = set /\ Cell(u.set) /\ Len(u.rows) = n
  BY <1>7, <1>8, <1>10, <1>11
<1>13. \A i \in 1..n : /\ u.rows[i] \in Seq(Text) /\ Len(u.rows[i]) = Len(s.rows[i])
                       /\ \A j \in 1..Len(s.rows[i]) :
                            /\ u.rows[i][j] = Evaluated(s.rows[i][j], (i - 1) * 2 + j)
                            /\ (i - 1) * 2 + j \in 1..Len(Fresh) /\ Cell(u.rows[i][j])
  <2> SUFFICES ASSUME NEW i \in 1..n
               PROVE  /\ u.rows[i] \in Seq(Text) /\ Len(u.rows[i]) = Len(s.rows[i])
                      /\ \A j \in 1..Len(s.rows[i]) :
                            /\ u.rows[i][j] = Evaluated(s.rows[i][j], (i - 1) * 2 + j)
                            /\ (i - 1) * 2 + j \in 1..Len(Fresh) /\ Cell(u.rows[i][j])
    OBVIOUS
  <2>1. u.rows[i] = row(i)
    BY <1>9, <1>10, <1>11
  <2>2. \A j \in 1..Len(s.rows[i]) : u.rows[i][j] = Evaluated(s.rows[i][j], (i - 1) * 2 + j)
    BY <1>9, <1>10, <1>11
  <2> HIDE DEF row
  <2> QED
    BY <1>4, <1>5, <1>6, <2>1, <2>2
<1> QED
  BY <1>12, <1>13 DEF u, n, set

(* A list of one and one more.                                             *)
LEMMA AppendOne ==
  ASSUME NEW S, NEW p \in Seq(S), NEW e \in S, Len(p) = 1
  PROVE  /\ Append(p, e) \in Seq(S) /\ Len(Append(p, e)) = 2
         /\ Append(p, e)[1] = p[1] /\ Append(p, e)[2] = e
<1>1. Append(p, e) \in Seq(S) /\ Len(Append(p, e)) = 2
  <2>1. Append(p, e) \in Seq(S)
    BY AppendProperties
  <2>2. Len(Append(p, e)) = Len(p) + 1
    BY AppendProperties
  <2> QED
    BY <2>1, <2>2
<1>2. Append(p, e)[2] = e
  BY AppendProperties
<1>3. Append(p, e)[1] = p[1]
  <2>1. 1 \in 1..Len(p)
    OBVIOUS
  <2> QED
    BY <2>1, AppendProperties
<1> QED
  BY <1>1, <1>2, <1>3

(* The column of the DEFAULT behind the columns of the statement.           *)
LEMMA AppendColumn == Append(<<>>, "d") = <<"d">> /\ Append(<<"c">>, "d") = <<"c", "d">>
<1>1. ASSUME NEW S, NEW x \in S, NEW e \in S PROVE Append(<<x>>, e) = <<x, e>>
  <2> DEFINE one == <<x>>
             two == <<x, e>>
             more == Append(one, e)
  <2>1. one \in Seq(S) /\ Len(one) = 1 /\ one[1] = x
    OBVIOUS
  <2>2. two \in Seq(S) /\ Len(two) = 2 /\ two[1] = x /\ two[2] = e
    OBVIOUS
  <2> HIDE DEF one, two
  <2>3. more \in Seq(S) /\ Len(more) = 2 /\ more[1] = one[1] /\ more[2] = e
    BY <2>1, AppendOne
  <2> HIDE DEF more
  <2>4. \A i \in 1..2 : more[i] = two[i]
    BY <2>1, <2>2, <2>3
  <2>5. more = two
    BY <2>2, <2>3, <2>4, SeqEqual
  <2> QED
    BY <2>5 DEF one, two, more
<1>2. Append(<<>>, "d") = <<"d">>
  OBVIOUS
<1>3. Append(<<"c">>, "d") = <<"c", "d">>
  <2>1. "c" \in {"c", "d"} /\ "d" \in {"c", "d"}
    OBVIOUS
  <2> QED
    BY <1>1, <2>1
<1> QED
  BY <1>2, <1>3

(* The DEFAULT is added to every row, and its column to the list.          *)
LEMMA AppendedFacts ==
  ASSUME NEW u \in Records, u.columns \in {<<>>, <<"c">>}, NEW d \in Text, d = default, Written(d),
         2 * Len(u.rows) <= Len(Fresh)
  PROVE  /\ AppendDefaults(u) \in Records
         /\ AppendDefaults(u).verb = u.verb /\ AppendDefaults(u).clause = u.clause
         /\ AppendDefaults(u).gap = u.gap /\ AppendDefaults(u).columns = Append(u.columns, "d")
         /\ AppendDefaults(u).source = u.source /\ AppendDefaults(u).upsert = u.upsert
         /\ AppendDefaults(u).where = u.where /\ AppendDefaults(u).with = u.with
         /\ AppendDefaults(u).note = u.note /\ AppendDefaults(u).semi = u.semi
         /\ AppendDefaults(u).set = u.set
         /\ Len(AppendDefaults(u).rows) = Len(u.rows)
         /\ \A i \in 1..Len(u.rows) :
               /\ AppendDefaults(u).rows[i] \in Seq(Text)
               /\ AppendDefaults(u).rows[i] = Append(u.rows[i], Evaluated(d, i * 2))
               /\ i * 2 \in 1..Len(Fresh)
<1> DEFINE n == Len(u.rows)
           rows == [i \in 1..n |-> Append(u.rows[i], Evaluated(d, i * 2))]
           columns == Append(u.columns, "d")
           w == AppendDefaults(u)
           x == [u EXCEPT !.columns = columns, !.rows = rows]
<1>1. u.rows \in Seq(Seq(Text))
  BY RecordFacts
<1>2. n \in Nat /\ DOMAIN u.rows = 1..n /\ \A i \in 1..n : u.rows[i] \in Seq(Text)
  BY <1>1, LenProperties, ElementOfSeq
<1>3. w = x
  <2>1. rows = [i \in DOMAIN u.rows |-> Append(u.rows[i], Evaluated(default, DefaultSite(i)))]
    BY <1>2 DEF DefaultSite
  <2>2. u = [verb |-> u.verb, clause |-> u.clause, gap |-> u.gap, columns |-> u.columns,
             source |-> u.source, rows |-> u.rows, upsert |-> u.upsert, set |-> u.set,
             where |-> u.where, with |-> u.with, note |-> u.note, semi |-> u.semi]
    BY DEF Records
  <2> HIDE DEF rows
  <2> QED
    BY <2>1, <2>2 DEF AppendDefaults
<1>4. \A i \in 1..n : i * 2 \in 1..Len(Fresh)
  BY <1>2, FreshFacts
<1>5. \A i \in 1..n : Evaluated(d, i * 2) \in Text
  BY <1>4, EvaluatedFacts
<1>6. \A i \in 1..n : Append(u.rows[i], Evaluated(d, i * 2)) \in Seq(Text)
  <2> SUFFICES ASSUME NEW i \in 1..n PROVE Append(u.rows[i], Evaluated(d, i * 2)) \in Seq(Text)
    OBVIOUS
  <2>1. u.rows[i] \in Seq(Text) /\ Evaluated(d, i * 2) \in Text
    BY <1>2, <1>5
  <2> QED
    BY <2>1, AppendProperties
<1>7. rows \in Seq(Seq(Text)) /\ Len(rows) = n
  <2>1. rows \in [1..n -> Seq(Text)]
    BY <1>6
  <2>2. n \in Nat
    BY <1>2
  <2> HIDE DEF rows, n
  <2> QED
    BY <2>1, <2>2, SeqOfFunction
<1>8. columns \in {<<"d">>, <<"c", "d">>}
  BY AppendColumn
<1>9. \A i \in 1..n : rows[i] = Append(u.rows[i], Evaluated(d, i * 2))
  OBVIOUS
<1> HIDE DEF n, rows, columns
<1>10. /\ x \in Records /\ x.verb = u.verb /\ x.clause = u.clause /\ x.gap = u.gap
       /\ x.columns = columns /\ x.source = u.source /\ x.upsert = u.upsert /\ x.where = u.where
       /\ x.with = u.with /\ x.note = u.note /\ x.semi = u.semi /\ x.rows = rows /\ x.set = u.set
  <2>1. x \in Records
    BY <1>7, <1>8 DEF Records
  <2> QED
    BY <2>1 DEF Records
<1> HIDE DEF w, x
<1> QED
  BY <1>3, <1>4, <1>6, <1>7, <1>9, <1>10 DEF w, n, columns

-----------------------------------------------------------------------------
(* What prepare_logged_sql can leave.                                      *)
Omitted(tree) == NeedsDefault(tree, ToSet(Columns(tree)))
Final(tree) == IF Omitted(tree) THEN AppendDefaults(ReplaceCalls(tree)) ELSE ReplaceCalls(tree)
Origin(s, tree, compatible) ==
  \/ tree \in Trees(Render(s), s) /\ compatible = Untouched(Render(s))
  \/ /\ Trees(Render(s), s) = {} /\ compatible = Normalized(Render(s))
     /\ compatible.sql # Render(s) /\ tree \in Trees(compatible.sql, s)
FromTree(s, e) == \E tree, compatible : Origin(s, tree, compatible) /\ e = EntryOf(Render(s), tree, compatible)
FromDefault(s, e) ==
  /\ Trees(Render(s), s) = {} /\ Parses(EmptyInsert(s))
  /\ e = DefaultValuesEntry(Render(s), EmptyInsert(s))

(* An entry comes from a tree, from DEFAULT VALUES, or blocks.             *)
LEMMA PreparedIs ==
  ASSUME NEW s, NEW e \in PreparedEntries(s)
  PROVE  FromTree(s, e) \/ FromDefault(s, e) \/ e = Blocked(Render(s))
<1> DEFINE text == Render(s)
           compatible == Normalized(text)
           empty == EmptyInsert(s)
<1>1. CASE Trees(text, s) # {}
  <2>1. PICK tree \in Trees(text, s) : e = EntryOf(text, tree, Untouched(text))
    BY <1>1 DEF PreparedEntries
  <2>2. Origin(s, tree, Untouched(text))
    BY <2>1 DEF Origin
  <2> QED
    BY <2>1, <2>2 DEF FromTree
<1>2. CASE Trees(text, s) = {} /\ DefaultValuesTrees(text, s) # {}
  <2>1. PICK tree \in DefaultValuesTrees(text, s) : e = DefaultValuesEntry(text, tree)
    BY <1>2 DEF PreparedEntries
  <2>2. tree = empty /\ Parses(tree)
    BY <2>1 DEF DefaultValuesTrees
  <2> QED
    BY <1>2, <2>1, <2>2 DEF FromDefault
<1>3. CASE Trees(text, s) = {} /\ DefaultValuesTrees(text, s) = {}
  <2>1. \/ e = Blocked(text)
        \/ /\ compatible.sql # text
           /\ \E tree \in Trees(compatible.sql, s) : e = EntryOf(text, tree, compatible)
    BY <1>3 DEF PreparedEntries
  <2>2. ASSUME compatible.sql # text, NEW tree \in Trees(compatible.sql, s), e = EntryOf(text, tree, compatible)
        PROVE  FromTree(s, e)
    <3>1. Origin(s, tree, compatible)
      BY <1>3, <2>2 DEF Origin
    <3> QED
      BY <2>2, <3>1 DEF FromTree
  <2> QED
    BY <2>1, <2>2
<1> QED
  BY <1>1, <1>2, <1>3

Rewritten(tree, compatible) == RestoreUpdate(Rendered(Final(tree)), compatible.resolution)
Kept(tree) == UnsafeCalls(tree) = {} /\ Final(tree) = tree
Changes(tree, compatible) ==
  /\ UnsafeCalls(tree) = {} /\ Final(tree) # tree
  /\ Omitted(tree) => tree.source = "values"
  /\ ~compatible.strippedUpsert

(* What becomes of a tree.                                                 *)
LEMMA EntryOfIs ==
  ASSUME NEW text, NEW tree, NEW compatible
  PROVE  \/ EntryOf(text, tree, compatible) = Blocked(text)
         \/ EntryOf(text, tree, compatible) = Verbatim(text) /\ Kept(tree)
         \/ /\ EntryOf(text, tree, compatible) = Verbatim(Rewritten(tree, compatible))
            /\ Changes(tree, compatible)
BY DEF EntryOf, Final, Omitted, Rewritten, Kept, Changes

(* A statement is like itself.                                             *)
LEMMA AlikeItself ==
  ASSUME NEW s \in Records
  PROVE  Alike(s, s) /\ s \in Variants(s)
<1>1. Alike(s, s)
  BY DEF Alike
<1> QED
  BY <1>1, VariantsAre

(* A tree of a statement.                                                  *)
LEMMA TreeFacts ==
  ASSUME NEW s \in Statements, NEW text, NEW tree \in Trees(text, s)
  PROVE  /\ tree \in Records /\ Alike(tree, s) /\ Shaped(tree) /\ Parses(tree) /\ Render(tree) = text
         /\ tree.rows = s.rows /\ Written(tree.set)
         /\ tree.upsert # "update" => tree.set = <<"1">> /\ tree.where = FALSE
         /\ tree.verb = "UPDATE" => s.verb = "UPDATE"
<1>1. tree \in Variants(s) /\ Parses(tree) /\ Render(tree) = text
  BY DEF Trees, Readings
<1>2. s \in Records /\ Shaped(s) /\ Written(s.set) /\ (s.upsert # "update" => s.set = <<"1">> /\ s.where = FALSE)
      /\ (s.verb = "UPDATE" => s.upsert = "none")
  BY StatementFacts DEF Shaped
<1>3. Alike(tree, s)
  BY <1>1, <1>2, VariantsAre
<1>4. Written(<<"1">>) /\ Cell(<<"1">>) /\ Gap(<<"sp">>)
  BY BlankIsGap DEF Written, Cell
<1>5. tree.verb # "REPLACE"
  BY <1>1 DEF Parses
<1>6. tree \in Records /\ tree.rows = s.rows /\ tree.verb \in {s.verb, "INSERT"}
  BY <1>3 DEF Alike
<1>7. Written(tree.set) /\ (tree.upsert # "update" => tree.set = <<"1">> /\ tree.where = FALSE)
  BY <1>2, <1>3, <1>4 DEF Alike
<1>8. Cell(tree.set)
  BY <1>7 DEF Cell
<1>9. /\ Gap(tree.gap) /\ (tree.note = <<>> \/ Comment(tree.note)) /\ (tree.with = <<>> \/ Written(tree.with))
      /\ tree.verb = "UPDATE" => tree.upsert = "none"
      /\ tree.source # "default" => tree.rows # <<>>
      /\ tree.source \in {"select", "update"} => tree.rows[1] # <<>>
      /\ \A i \in DOMAIN tree.rows : \A j \in DOMAIN tree.rows[i] : Cell(tree.rows[i][j])
  BY <1>2, <1>3, <1>4 DEF Alike, Shaped
<1>10. Shaped(tree)
  BY <1>5, <1>6, <1>8, <1>9 DEF Shaped
<1> QED
  BY <1>1, <1>3, <1>6, <1>7, <1>10

(* The tree of an entry, and the resolution that is put back.              *)
LEMMA OriginFacts ==
  ASSUME NEW s \in Statements, NEW tree, NEW compatible, Origin(s, tree, compatible)
  PROVE  /\ \E text : tree \in Trees(text, s)
         /\ compatible.resolution.kind = "UPDATE" =>
              s.verb = "UPDATE" /\ s.clause \in Algorithms /\ compatible.resolution.algorithm = s.clause
<1>1. CASE tree \in Trees(Render(s), s) /\ compatible = Untouched(Render(s))
  <2>1. compatible.resolution.kind = "none"
    BY <1>1 DEF Untouched, NoResolution
  <2> QED
    BY <1>1, <2>1
<1>2. CASE compatible = Normalized(Render(s)) /\ tree \in Trees(compatible.sql, s)
  <2>1. Shaped(s)
    BY StatementFacts
  <2> QED
    BY <1>2, <2>1, ResolutionIs
<1> QED
  BY <1>1, <1>2 DEF Origin


(* What is known of a default the column may have.                         *)
LEMMA DefaultFacts ==
  ASSUME default \in Defaults
  PROVE  default \in Text /\ Written(default) /\ default # SubRandom
BY DefaultsAssumption

(* A column list that leaves d out.                                        *)
LEMMA OmittedFacts ==
  ASSUME NEW tree \in Records, Omitted(tree)
  PROVE  tree.columns = <<"c">> /\ Columns(tree) = <<"c">> /\ tree.verb # "UPDATE" /\ Nondeterministic(default)
<1>1. tree.verb # "UPDATE" /\ "d" \notin ToSet(Columns(tree)) /\ Nondeterministic(default)
  BY DEF Omitted, NeedsDefault
<1>2. "d" \in ToSet(<<"d">>) /\ "d" \in ToSet(<<"c", "d">>) /\ "d" \in ToSet(<<"d", "c">>)
  <2>1. <<"d">>[1] = "d" /\ 1 \in DOMAIN <<"d">>
    OBVIOUS
  <2>2. <<"c", "d">>[2] = "d" /\ 2 \in DOMAIN <<"c", "d">>
    OBVIOUS
  <2>3. <<"d", "c">>[1] = "d" /\ 1 \in DOMAIN <<"d", "c">>
    OBVIOUS
  <2> QED
    BY <2>1, <2>2, <2>3 DEF ToSet
<1>3. tree.columns \in {<<>>, <<"c">>, <<"d">>, <<"c", "d">>, <<"d", "c">>}
  BY RecordFacts
<1>4. tree.columns # <<>>
  BY <1>1, <1>2 DEF Columns
<1>5. Columns(tree) = tree.columns
  BY <1>4 DEF Columns
<1> QED
  BY <1>1, <1>2, <1>3, <1>4, <1>5

FinalFields(s, tree, f) ==
  /\ f \in Records /\ f.verb = tree.verb /\ f.clause = tree.clause /\ f.gap = tree.gap
  /\ f.source = tree.source /\ f.upsert = tree.upsert /\ f.where = tree.where /\ f.with = tree.with
  /\ f.note = tree.note /\ f.semi = tree.semi
  /\ f.set = Evaluated(tree.set, 2 * Len(s.rows) + 1) /\ Cell(f.set)
  /\ Omitted(tree) => tree.columns = <<"c">> /\ f.columns = <<"c", "d">>
  /\ ~Omitted(tree) => f.columns = tree.columns
  /\ Len(f.rows) = Len(s.rows) /\ Len(s.rows) \in Nat
FinalRow(s, tree, f, i) ==
  /\ Len(s.rows[i]) \in 1..2
  /\ \A j \in 1..Len(s.rows[i]) : /\ f.rows[i][j] = Evaluated(s.rows[i][j], (i - 1) * 2 + j)
                                  /\ (i - 1) * 2 + j \in 1..Len(Fresh)
                                  /\ s.rows[i][j] \in Text /\ Written(s.rows[i][j])
  /\ ~Omitted(tree) => Len(f.rows[i]) = Len(s.rows[i])
  /\ Omitted(tree) => /\ Len(s.rows[i]) = 1 /\ Len(f.rows[i]) = 2
                      /\ f.rows[i][2] = Evaluated(default, i * 2) /\ i * 2 \in 1..Len(Fresh)

(* The literals and the default, in the statement written down.            *)
LEMMA FinalFacts ==
  ASSUME NEW s \in Statements, default \in Defaults, NEW text, NEW tree \in Trees(text, s),
         Omitted(tree) => tree.source = "values"
  PROVE  /\ FinalFields(s, tree, Final(tree))
         /\ \A i \in 1..Len(s.rows) : FinalRow(s, tree, Final(tree), i)
<1> DEFINE n == Len(s.rows)
           u == ReplaceCalls(tree)
           w == AppendDefaults(u)
<1>1. /\ tree \in Records /\ tree.rows = s.rows /\ Written(tree.set) /\ Alike(tree, s)
  BY TreeFacts
<1>2. /\ n \in Nat /\ 2 * n + 1 <= Len(Fresh) /\ Len(Fresh) \in Nat
      /\ \A i \in 1..n : /\ s.rows[i] \in Seq(Text) /\ Len(s.rows[i]) \in 1..2
                         /\ s.source # "update" => Len(s.rows[i]) = Len(Columns(s))
                         /\ \A j \in 1..Len(s.rows[i]) : s.rows[i][j] \in Text /\ Written(s.rows[i][j])
  BY StatementFacts
<1>3. /\ u \in Records /\ u.verb = tree.verb /\ u.clause = tree.clause /\ u.gap = tree.gap
      /\ u.columns = tree.columns /\ u.source = tree.source /\ u.upsert = tree.upsert
      /\ u.where = tree.where /\ u.with = tree.with /\ u.note = tree.note /\ u.semi = tree.semi
      /\ u.set = Evaluated(tree.set, 2 * n + 1) /\ Cell(u.set) /\ Len(u.rows) = n
  BY <1>1, ReplacedFacts
<1>4. \A i \in 1..n : /\ u.rows[i] \in Seq(Text) /\ Len(u.rows[i]) = Len(s.rows[i])
                      /\ \A j \in 1..Len(s.rows[i]) :
                            /\ u.rows[i][j] = Evaluated(s.rows[i][j], (i - 1) * 2 + j)
                            /\ (i - 1) * 2 + j \in 1..Len(Fresh)
  BY <1>1, ReplacedFacts
<1> HIDE DEF u
<1>5. CASE ~Omitted(tree)
  <2>1. Final(tree) = u
    BY <1>5 DEF Final, u
  <2>2. FinalFields(s, tree, u)
    BY <1>2, <1>3, <1>5 DEF FinalFields
  <2>3. ASSUME NEW i \in 1..n PROVE FinalRow(s, tree, u, i)
    BY <1>2, <1>4, <1>5, <2>3 DEF FinalRow
  <2> QED
    BY <2>1, <2>2, <2>3
<1>6. CASE Omitted(tree)
  <2>1. Final(tree) = w
    BY <1>6 DEF Final, u
  <2>2. tree.columns = <<"c">> /\ Columns(tree) = <<"c">>
    BY <1>1, <1>6, OmittedFacts
  <2>3. default \in Text /\ Written(default) /\ 2 * Len(u.rows) <= Len(Fresh)
    BY <1>2, <1>3, DefaultFacts
  <2>4. /\ w \in Records /\ w.verb = u.verb /\ w.clause = u.clause /\ w.gap = u.gap
        /\ w.columns = Append(u.columns, "d") /\ w.source = u.source /\ w.upsert = u.upsert
        /\ w.where = u.where /\ w.with = u.with /\ w.note = u.note /\ w.semi = u.semi
        /\ w.set = u.set /\ Len(w.rows) = Len(u.rows)
    BY <1>3, <2>2, <2>3, AppendedFacts
  <2>5. \A i \in 1..Len(u.rows) : /\ w.rows[i] = Append(u.rows[i], Evaluated(default, i * 2))
                                  /\ i * 2 \in 1..Len(Fresh)
    BY <1>3, <2>2, <2>3, AppendedFacts
  <2> HIDE DEF w
  <2>6. w.columns = <<"c", "d">>
    BY <1>3, <2>2, <2>4, AppendColumn
  <2>7. FinalFields(s, tree, w)
    BY <1>2, <1>3, <1>6, <2>2, <2>4, <2>6 DEF FinalFields
  <2>8. \A i \in 1..n : Len(s.rows[i]) = 1
    <3>1. Columns(s) = Columns(tree) /\ s.source # "update"
      BY <1>1, <1>6 DEF Alike, Columns
    <3>2. Len(<<"c">>) = 1
      OBVIOUS
    <3> QED
      BY <1>2, <2>2, <3>1, <3>2
  <2>9. ASSUME NEW i \in 1..n PROVE FinalRow(s, tree, w, i)
    <3> DEFINE e == Evaluated(default, i * 2)
               p == u.rows[i]
    <3>1. p \in Seq(Text) /\ Len(p) = 1 /\ i \in 1..Len(u.rows) /\ i * 2 \in 1..Len(Fresh)
      BY <1>3, <1>4, <2>5, <2>8
    <3>2. e \in Text
      BY <2>3, <3>1, EvaluatedFacts
    <3>3. w.rows[i] = Append(p, e)
      BY <2>5, <3>1
    <3> HIDE DEF e, p
    <3>4. Len(w.rows[i]) = 2 /\ w.rows[i][1] = p[1] /\ w.rows[i][2] = e
      BY <3>1, <3>2, <3>3, AppendOne
    <3>5. Len(s.rows[i]) = 1
      BY <2>8
    <3>6. \A j \in 1..Len(s.rows[i]) : j = 1
      BY <3>5
    <3>7. \A j \in 1..Len(s.rows[i]) : /\ p[j] = Evaluated(s.rows[i][j], (i - 1) * 2 + j)
                                       /\ (i - 1) * 2 + j \in 1..Len(Fresh)
                                       /\ s.rows[i][j] \in Text /\ Written(s.rows[i][j])
      BY <1>2, <1>4 DEF p
    <3>8. \A j \in 1..Len(s.rows[i]) : w.rows[i][j] = Evaluated(s.rows[i][j], (i - 1) * 2 + j)
      BY <3>4, <3>6, <3>7
    <3> QED
      BY <1>6, <3>1, <3>4, <3>5, <3>7, <3>8 DEF FinalRow, e
  <2> QED
    BY <2>1, <2>7, <2>9
<1> QED
  BY <1>5, <1>6


(* RESTORE leaves everything but an UPDATE alone.                          *)
LEMMA RestoreNot ==
  ASSUME NEW r, Shaped(r), r.verb # "UPDATE", r.upsert = "none", NEW resolution
  PROVE  RestoreUpdate(Render(r), resolution) = Render(r)
<1> DEFINE text == Render(r)
           a == Len(WithPart(r))
           n == Len(r.gap)
           f == Len(Ahead(r))
           top == TopLevelKeywords(text)
           one == << {"UPDATE"} >>
<1>1. KeyFacts(r, text, a, n, f)
  BY KeysAre
<1>2. text[a + 1] = r.verb
  BY VerbAt
<1>3. r.clause = "REPLACE" => text[a + n + 4] = "REPLACE"
  BY ClauseWord
<1>4. Len(one) = 1 /\ one[1] = {"UPDATE"}
  OBVIOUS
<1> HIDE DEF text, a, n, f, one
<1>5. Len(text) \in Nat /\ \A i \in top : text[i] \in Keys => i = a + 1 \/ (r.clause = "REPLACE" /\ i = a + n + 4)
  BY <1>1 DEF KeyFacts
<1>6. \A i : MatchAt(text, i, one) = Step(text, i, {"UPDATE"})
  BY <1>4, MatchOne
<1>7. \A i \in top : Step(text, i, {"UPDATE"}) = 0
  <2> SUFFICES ASSUME NEW i \in top, Step(text, i, {"UPDATE"}) # 0 PROVE FALSE
    OBVIOUS
  <2>1. text[i] = "UPDATE" /\ "UPDATE" \in Keys
    BY <1>5, StepFound DEF Keys
  <2> QED
    BY <1>2, <1>3, <1>5, <2>1
<1>8. Matches(text, one) = {}
  BY <1>6, <1>7 DEF Matches
<1> QED
  BY <1>8 DEF RestoreUpdate, text, one

Opened(f) == [f EXCEPT !.gap = <<"sp">>, !.semi = FALSE]

(* A statement written on one line, without its semicolon.                 *)
LEMMA OpenedFacts ==
  ASSUME NEW f \in Records
  PROVE  /\ Opened(f) \in Records /\ Opened(f).verb = f.verb /\ Opened(f).clause = f.clause
         /\ Opened(f).gap = <<"sp">> /\ Opened(f).columns = f.columns /\ Opened(f).source = f.source
         /\ Opened(f).rows = f.rows /\ Opened(f).upsert = f.upsert /\ Opened(f).set = f.set
         /\ Opened(f).where = f.where /\ Opened(f).with = f.with /\ Opened(f).note = f.note
         /\ Opened(f).semi = FALSE
<1>1. <<"sp">> \in Text
  BY OneMark, MarksAreElements DEF Marks, Blanks
<1>2. Opened(f) \in Records
  BY <1>1 DEF Opened, Records
<1> QED
  BY <1>1, <1>2 DEF Opened, Records

(* The statement that is written down for a tree.                          *)
OutFields(s, tree, compatible, r) ==
  /\ r \in Records /\ Shaped(r) /\ r.verb = tree.verb /\ r.gap = <<"sp">> /\ r.semi = FALSE
  /\ compatible.resolution.kind = "UPDATE" /\ tree.verb = "UPDATE" => r.clause = s.clause
  /\ ~(compatible.resolution.kind = "UPDATE" /\ tree.verb = "UPDATE") => r.clause = tree.clause
  /\ r.columns = Final(tree).columns /\ r.source = Final(tree).source /\ r.rows = Final(tree).rows
  /\ r.upsert = Final(tree).upsert /\ r.set = Final(tree).set /\ r.where = Final(tree).where
  /\ r.with = Final(tree).with /\ r.note = Final(tree).note

(* The cells of the statement written down.                                *)
LEMMA FinalCells ==
  ASSUME NEW s \in Statements, default \in Defaults, NEW text, NEW tree \in Trees(text, s),
         Omitted(tree) => tree.source = "values"
  PROVE  /\ \A i \in DOMAIN Final(tree).rows : \A j \in DOMAIN Final(tree).rows[i] :
                Cell(Final(tree).rows[i][j])
         /\ tree.source # "default" => Final(tree).rows # <<>>
         /\ tree.source \in {"select", "update"} => Final(tree).rows[1] # <<>>
<1> DEFINE n == Len(s.rows)
           f == Final(tree)
<1>1. FinalFields(s, tree, f) /\ \A i \in 1..n : FinalRow(s, tree, f, i)
  BY FinalFacts
<1>2. Shaped(tree) /\ tree.rows = s.rows
  BY TreeFacts
<1> HIDE DEF f
<1>3. f \in Records /\ Len(f.rows) = n /\ n \in Nat
  BY <1>1 DEF FinalFields
<1>4. f.rows \in Seq(Seq(Text))
  BY <1>3, RecordFacts
<1>5. DOMAIN f.rows = 1..n /\ \A i \in 1..n : f.rows[i] \in Seq(Text)
  BY <1>3, <1>4, LenProperties, ElementOfSeq
<1>6. ASSUME NEW i \in 1..n, NEW j \in DOMAIN f.rows[i] PROVE Cell(f.rows[i][j])
  <2>1. DOMAIN f.rows[i] = 1..Len(f.rows[i])
    BY <1>5, LenProperties
  <2>2. FinalRow(s, tree, f, i)
    BY <1>1
  <2>3. CASE j \in 1..Len(s.rows[i])
    BY <2>2, <2>3, EvaluatedFacts DEF FinalRow
  <2>4. CASE j \notin 1..Len(s.rows[i])
    <3> DEFINE long == Len(s.rows[i])
               width == Len(f.rows[i])
               e == Evaluated(default, i * 2)
    <3>1. /\ ~Omitted(tree) => width = long
          /\ Omitted(tree) => long = 1 /\ width = 2 /\ f.rows[i][2] = e /\ i * 2 \in 1..Len(Fresh)
      BY <2>2, Zenon DEF FinalRow
    <3>2. j \in 1..width /\ j \notin 1..long
      BY <2>1, <2>4
    <3>3. Omitted(tree) => Cell(e)
      BY <3>1, DefaultFacts, EvaluatedFacts
    <3> HIDE DEF long, width, e
    <3>4. Omitted(tree) /\ j = 2
      BY <3>1, <3>2
    <3> QED
      BY <3>1, <3>3, <3>4
  <2> QED
    BY <2>3, <2>4
<1>7. tree.source # "default" => f.rows # <<>>
  <2>1. tree.source # "default" => s.rows # <<>>
    BY <1>2 DEF Shaped
  <2>2. s.rows # <<>> => n # 0
    BY StatementFacts, RecordFacts, EmptySeq
  <2>3. f.rows = <<>> => Len(f.rows) = 0
    OBVIOUS
  <2> QED
    BY <1>3, <2>1, <2>2, <2>3
<1>8. tree.source \in {"select", "update"} => f.rows[1] # <<>>
  <2> SUFFICES ASSUME tree.source \in {"select", "update"} PROVE f.rows[1] # <<>>
    OBVIOUS
  <2>1. 1 \in 1..n
    <3>1. f.rows # <<>>
      BY <1>7
    <3>2. n # 0
      BY <1>3, <1>4, <3>1, EmptySeq
    <3> QED
      BY <1>3, <3>2
  <2>2. Len(f.rows[1]) # 0
    <3>1. FinalRow(s, tree, f, 1)
      BY <1>1, <2>1
    <3> DEFINE long == Len(s.rows[1])
               width == Len(f.rows[1])
    <3>2. /\ long \in 1..2
          /\ ~Omitted(tree) => width = long
          /\ Omitted(tree) => width = 2
      BY <3>1, Zenon DEF FinalRow
    <3> HIDE DEF long, width
    <3>3. width # 0
      BY <3>2
    <3> QED
      BY <3>3 DEF width
  <2>3. Len(<<>>) = 0
    OBVIOUS
  <2> QED
    BY <2>2, <2>3
<1> QED
  BY <1>5, <1>6, <1>7, <1>8 DEF f

(* What is written in place of a statement is a statement's text again.    *)
LEMMA RewrittenIs ==
  ASSUME NEW s \in Statements, default \in Defaults, NEW tree, NEW compatible,
         Origin(s, tree, compatible), Omitted(tree) => tree.source = "values"
  PROVE  \E r : OutFields(s, tree, compatible, r) /\ Rewritten(tree, compatible) = Render(r)
<1> DEFINE f == Final(tree)
           o == Opened(f)
           resolution == compatible.resolution
           c == [o EXCEPT !.clause = resolution.algorithm]
<1>1. PICK text : tree \in Trees(text, s)
  BY OriginFacts
<1>2. resolution.kind = "UPDATE" => s.verb = "UPDATE" /\ s.clause \in Algorithms /\ resolution.algorithm = s.clause
  BY OriginFacts
<1>3. /\ tree \in Records /\ Alike(tree, s) /\ Shaped(tree) /\ Parses(tree)
  BY <1>1, TreeFacts
<1>4. FinalFields(s, tree, f)
  BY <1>1, FinalFacts
<1>5. /\ \A i \in DOMAIN f.rows : \A j \in DOMAIN f.rows[i] : Cell(f.rows[i][j])
      /\ tree.source # "default" => f.rows # <<>>
      /\ tree.source \in {"select", "update"} => f.rows[1] # <<>>
  BY <1>1, FinalCells
<1> HIDE DEF f
<1>6. /\ o \in Records /\ o.verb = f.verb /\ o.clause = f.clause /\ o.gap = <<"sp">> /\ o.semi = FALSE
      /\ o.columns = f.columns /\ o.source = f.source /\ o.rows = f.rows /\ o.upsert = f.upsert
      /\ o.set = f.set /\ o.where = f.where /\ o.with = f.with /\ o.note = f.note
  <2>1. f \in Records
    BY <1>4 DEF FinalFields
  <2> QED
    BY <2>1, OpenedFacts
<1>7. Rewritten(tree, compatible) = RestoreUpdate(Render(o), resolution)
  BY DEF Rewritten, Rendered, Opened, f
<1> HIDE DEF o
<1>8. tree.verb # "REPLACE" /\ (tree.verb = "UPDATE" => tree.clause = "none" /\ tree.upsert = "none")
  BY <1>3 DEF Parses, Shaped
<1>9. Shaped(o)
  <2>1. /\ o.verb = tree.verb /\ o.upsert = tree.upsert /\ o.with = tree.with /\ o.note = tree.note
        /\ o.source = tree.source /\ Cell(o.set)
    BY <1>4, <1>6 DEF FinalFields
  <2>2. (tree.note = <<>> \/ Comment(tree.note)) /\ (tree.with = <<>> \/ Written(tree.with))
    BY <1>3 DEF Shaped
  <2> QED
    BY <1>5, <1>6, <1>8, <2>1, <2>2, BlankIsGap DEF Shaped
<1>10. CASE resolution.kind = "UPDATE" /\ tree.verb = "UPDATE"
  <2>1. o.verb = "UPDATE" /\ o.clause = "none" /\ o.upsert = "none" /\ o.gap = <<"sp">>
    BY <1>4, <1>6, <1>8, <1>10 DEF FinalFields
  <2>2. Shaped(c) /\ RestoreUpdate(Render(o), resolution) = Render(c)
    BY <1>2, <1>9, <1>10, <2>1, RestoreIs
  <2>3. /\ c.verb = o.verb /\ c.clause = s.clause /\ c.gap = o.gap /\ c.semi = o.semi
        /\ c.columns = o.columns /\ c.source = o.source /\ c.rows = o.rows /\ c.upsert = o.upsert
        /\ c.set = o.set /\ c.where = o.where /\ c.with = o.with /\ c.note = o.note
    BY <1>2, <1>6, <1>10 DEF Records
  <2> HIDE DEF c
  <2>4. OutFields(s, tree, compatible, c)
    <3>1. c \in Records
      BY <2>2 DEF Shaped
    <3> QED
      BY <1>6, <1>10, <2>1, <2>2, <2>3, <3>1 DEF OutFields, f
  <2> QED
    BY <1>7, <2>2, <2>4
<1>11. CASE ~(resolution.kind = "UPDATE" /\ tree.verb = "UPDATE")
  <2>1. OutFields(s, tree, compatible, o)
    <3>1. o.verb = tree.verb /\ o.clause = tree.clause
      BY <1>4, <1>6 DEF FinalFields
    <3> QED
      BY <1>6, <1>9, <1>11, <3>1 DEF OutFields, f
  <2>2. RestoreUpdate(Render(o), resolution) = Render(o)
    <3>1. CASE resolution.kind # "UPDATE"
      BY <3>1 DEF RestoreUpdate
    <3>2. CASE resolution.kind = "UPDATE"
      <4>1. tree.upsert = "none"
        <5>1. Shaped(s)
          BY StatementFacts
        <5> QED
          BY <1>2, <1>3, <3>2, <5>1 DEF Alike, Shaped
      <4>2. o.verb # "UPDATE" /\ o.upsert = "none"
        BY <1>4, <1>6, <1>11, <3>2, <4>1 DEF FinalFields
      <4> QED
        BY <1>9, <4>2, RestoreNot
    <3> QED
      BY <3>1, <3>2
  <2> QED
    BY <1>7, <2>1, <2>2
<1> QED
  BY <1>10, <1>11


(* The rows the literals leave depend on the rows alone.                   *)
LEMMA ReplacedRows ==
  ASSUME NEW t \in Records
  PROVE  ReplaceCalls(t).rows = [i \in DOMAIN t.rows |-> [j \in DOMAIN t.rows[i] |->
                                     Evaluated(t.rows[i][j], (i - 1) * 2 + j)]]
<1> DEFINE rows == [i \in DOMAIN t.rows |-> [j \in DOMAIN t.rows[i] |->
                        Evaluated(t.rows[i][j], (i - 1) * 2 + j)]]
           set == Evaluated(t.set, 2 * Len(t.rows) + 1)
<1>1. t = [verb |-> t.verb, clause |-> t.clause, gap |-> t.gap, columns |-> t.columns,
           source |-> t.source, rows |-> t.rows, upsert |-> t.upsert, set |-> t.set,
           where |-> t.where, with |-> t.with, note |-> t.note, semi |-> t.semi]
  BY DEF Records
<1>2. ReplaceCalls(t) = [t EXCEPT !.rows = rows, !.set = set]
  BY <1>1 DEF ReplaceCalls
<1> HIDE DEF rows, set
<1> QED
  BY <1>1, <1>2 DEF rows

(* The rows once the DEFAULT is added.                                     *)
LEMMA AppendedRows ==
  ASSUME NEW u \in Records
  PROVE  AppendDefaults(u).rows = [i \in DOMAIN u.rows |->
                                       Append(u.rows[i], Evaluated(default, DefaultSite(i)))]
<1> DEFINE rows == [i \in DOMAIN u.rows |-> Append(u.rows[i], Evaluated(default, DefaultSite(i)))]
           columns == Append(u.columns, "d")
<1>1. u = [verb |-> u.verb, clause |-> u.clause, gap |-> u.gap, columns |-> u.columns,
           source |-> u.source, rows |-> u.rows, upsert |-> u.upsert, set |-> u.set,
           where |-> u.where, with |-> u.with, note |-> u.note, semi |-> u.semi]
  BY DEF Records
<1>2. AppendDefaults(u) = [u EXCEPT !.columns = columns, !.rows = rows]
  BY <1>1 DEF AppendDefaults
<1> HIDE DEF rows, columns
<1> QED
  BY <1>1, <1>2 DEF rows

Closed(f) == [f EXCEPT !.semi = FALSE]

(* The rows of a statement and of its trees become the same.               *)
LEMMA SameRows ==
  ASSUME NEW s \in Records, NEW t \in Records, s.rows = t.rows
  PROVE  ReplaceCalls(s).rows = ReplaceCalls(t).rows
BY ReplacedRows

(* They depend on the rows before only.                                    *)
LEMMA SameAppended ==
  ASSUME NEW s \in Records, NEW t \in Records, s.rows = t.rows
  PROVE  AppendDefaults(s).rows = AppendDefaults(t).rows
BY AppendedRows

(* A closed statement.                                                     *)
LEMMA ClosedFacts ==
  ASSUME NEW f \in Records
  PROVE  /\ Closed(f) \in Records /\ Closed(f).verb = f.verb /\ Closed(f).clause = f.clause
         /\ Closed(f).gap = f.gap /\ Closed(f).columns = f.columns /\ Closed(f).source = f.source
         /\ Closed(f).rows = f.rows /\ Closed(f).upsert = f.upsert /\ Closed(f).set = f.set
         /\ Closed(f).where = f.where /\ Closed(f).with = f.with /\ Closed(f).note = f.note
         /\ Closed(f).semi = FALSE
<1>1. Closed(f) \in Records
  BY DEF Closed, Records
<1> QED
  BY <1>1 DEF Closed, Records

(* What a replay may have been read as.                                    *)
LEMMA MaterializedAre ==
  ASSUME NEW s
  PROVE  /\ s \in Materialized(s) /\ Closed(ReplaceCalls(s)) \in Materialized(s)
         /\ Closed(AppendDefaults(ReplaceCalls(s))) \in Materialized(s)
         /\ Closed(AppendDefaults(EmptyInsert(s))) \in Materialized(s)
BY DEF Materialized, Closed

(* The text that replaces a statement is read as a statement with the      *)
(* same parts.                                                             *)
LEMMA OutIsReading ==
  ASSUME NEW s \in Statements, default \in Defaults, NEW tree, NEW compatible,
         Origin(s, tree, compatible), Omitted(tree) => tree.source = "values",
         NEW r, OutFields(s, tree, compatible, r)
  PROVE  \E m \in Materialized(s) : m \in Records /\ r \in Variants(m)
<1> DEFINE n == Len(s.rows)
           f == Final(tree)
           v == ReplaceCalls(s)
           w == AppendDefaults(v)
<1>1. PICK text : tree \in Trees(text, s)
  BY OriginFacts
<1>2. /\ tree \in Records /\ Alike(tree, s) /\ tree.rows = s.rows
  BY <1>1, TreeFacts
<1>3. FinalFields(s, tree, f)
  BY <1>1, FinalFacts
<1>4. s \in Records /\ Written(s.set) /\ n \in Nat /\ 2 * n + 1 \in 1..Len(Fresh) /\ 2 * n <= Len(Fresh)
  <2>1. s \in Records /\ Written(s.set)
    BY StatementFacts
  <2>2. n \in Nat /\ 2 * n + 1 <= Len(Fresh) /\ Len(Fresh) \in Nat
    BY StatementFacts
  <2> HIDE DEF n
  <2>3. 2 * n + 1 \in 1..Len(Fresh) /\ 2 * n <= Len(Fresh)
    BY <2>2
  <2> QED
    BY <2>1, <2>2, <2>3
<1>5. /\ v \in Records /\ v.verb = s.verb /\ v.clause = s.clause /\ v.gap = s.gap
      /\ v.columns = s.columns /\ v.source = s.source /\ v.upsert = s.upsert
      /\ v.where = s.where /\ v.with = s.with /\ v.note = s.note
      /\ v.set = Evaluated(s.set, 2 * n + 1) /\ Len(v.rows) = n
  BY <1>4, ReplacedFacts
<1>6. v.rows = ReplaceCalls(tree).rows
  BY <1>2, <1>4, SameRows
<1>7. Evaluated(<<"1">>, 2 * n + 1) = <<"1">>
  BY DEF Evaluated, Now, Random
<1>8. \/ f.upsert = s.upsert /\ f.set = v.set /\ f.where = s.where
      \/ f.upsert = "none" /\ f.set = <<"1">> /\ f.where = FALSE
  <2>1. f.upsert = tree.upsert /\ f.where = tree.where /\ f.set = Evaluated(tree.set, 2 * n + 1)
    BY <1>3 DEF FinalFields
  <2> HIDE DEF f, n
  <2> QED
    BY <1>2, <1>5, <1>7, <2>1 DEF Alike
<1>9. /\ f.source = s.source /\ f.with = s.with /\ f.note = s.note
      /\ r.verb \in {s.verb, "INSERT"} /\ r.clause \in {s.clause, "none", "REPLACE"}
      /\ r.gap = <<"sp">> /\ r.semi = FALSE /\ r \in Records
      /\ r.columns = f.columns /\ r.source = f.source /\ r.rows = f.rows /\ r.upsert = f.upsert
      /\ r.set = f.set /\ r.where = f.where /\ r.with = f.with /\ r.note = f.note
  <2>1. /\ r.verb = tree.verb /\ r.clause \in {s.clause, tree.clause}
        /\ r.gap = <<"sp">> /\ r.semi = FALSE /\ r \in Records
        /\ r.columns = f.columns /\ r.source = f.source /\ r.rows = f.rows /\ r.upsert = f.upsert
        /\ r.set = f.set /\ r.where = f.where /\ r.with = f.with /\ r.note = f.note
    BY DEF OutFields
  <2>2. f.source = tree.source /\ f.with = tree.with /\ f.note = tree.note
    BY <1>3 DEF FinalFields
  <2> HIDE DEF f
  <2> QED
    BY <1>2, <2>1, <2>2 DEF Alike
<1>10. CASE ~Omitted(tree)
  <2>1. f = ReplaceCalls(tree) /\ f.columns = tree.columns
    BY <1>3, <1>10 DEF FinalFields, Final
  <2>2. f.rows = v.rows /\ f.columns = s.columns
    BY <1>2, <1>6, <2>1 DEF Alike
  <2> HIDE DEF f, v
  <2> DEFINE m == Closed(v)
  <2>3. /\ m \in Records /\ m.verb = s.verb /\ m.clause = s.clause /\ m.gap = s.gap
        /\ m.columns = s.columns /\ m.source = s.source /\ m.rows = v.rows /\ m.upsert = s.upsert
        /\ m.set = v.set /\ m.where = s.where /\ m.with = s.with /\ m.note = s.note /\ m.semi = FALSE
    BY <1>5, ClosedFacts
  <2>4. m \in Materialized(s)
    BY MaterializedAre DEF v
  <2> HIDE DEF m
  <2>5. Alike(r, m)
    BY <1>8, <1>9, <2>2, <2>3 DEF Alike
  <2> QED
    BY <2>3, <2>4, <2>5, VariantsAre
<1>11. CASE Omitted(tree)
  <2>1. tree.columns = <<"c">> /\ f.columns = <<"c", "d">>
    BY <1>3, <1>11 DEF FinalFields
  <2>2. v.columns = <<"c">>
    BY <1>2, <1>5, <2>1 DEF Alike
  <2>3. default \in Text /\ Written(default) /\ 2 * Len(v.rows) <= Len(Fresh)
    BY <1>4, <1>5, DefaultFacts
  <2>4. /\ w \in Records /\ w.verb = v.verb /\ w.clause = v.clause /\ w.gap = v.gap
        /\ w.columns = Append(v.columns, "d") /\ w.source = v.source /\ w.upsert = v.upsert
        /\ w.where = v.where /\ w.with = v.with /\ w.note = v.note /\ w.set = v.set
    BY <1>5, <2>2, <2>3, AppendedFacts
  <2>5. w.columns = <<"c", "d">>
    BY <2>2, <2>4, AppendColumn
  <2>6. f.rows = w.rows
    <3>1. f = AppendDefaults(ReplaceCalls(tree))
      BY <1>11 DEF Final
    <3>2. ReplaceCalls(tree) \in Records
      BY <1>1, <1>2, TreeFacts, ReplacedFacts
    <3> QED
      BY <1>5, <1>6, <3>1, <3>2, SameAppended
  <2> HIDE DEF f, v, w
  <2> DEFINE m == Closed(w)
  <2>7. /\ m \in Records /\ m.verb = s.verb /\ m.clause = s.clause /\ m.gap = s.gap
        /\ m.columns = w.columns /\ m.source = s.source /\ m.rows = w.rows /\ m.upsert = s.upsert
        /\ m.set = v.set /\ m.where = s.where /\ m.with = s.with /\ m.note = s.note /\ m.semi = FALSE
    BY <1>5, <2>4, ClosedFacts
  <2>8. m \in Materialized(s)
    BY MaterializedAre DEF v, w
  <2> HIDE DEF m
  <2>9. Alike(r, m)
    BY <1>8, <1>9, <2>1, <2>5, <2>6, <2>7 DEF Alike
  <2> QED
    BY <2>7, <2>8, <2>9, VariantsAre
<1> QED
  BY <1>10, <1>11

-----------------------------------------------------------------------------
(* What becomes of DEFAULT VALUES.                                         *)

(* VALUES () in the place of DEFAULT VALUES.                               *)
LEMMA EmptyFacts ==
  ASSUME NEW s \in Records
  PROVE  /\ EmptyInsert(s) \in Records
         /\ EmptyInsert(s).verb = s.verb /\ EmptyInsert(s).clause = s.clause
         /\ EmptyInsert(s).gap = s.gap /\ EmptyInsert(s).columns = s.columns
         /\ EmptyInsert(s).source = "values" /\ EmptyInsert(s).rows = << <<>> >>
         /\ EmptyInsert(s).upsert = s.upsert /\ EmptyInsert(s).set = s.set
         /\ EmptyInsert(s).where = s.where /\ EmptyInsert(s).with = s.with
         /\ EmptyInsert(s).note = s.note /\ EmptyInsert(s).semi = s.semi
<1>1. << <<>> >> \in Seq(Seq(Text))
  OBVIOUS
<1> QED
  BY <1>1 DEF EmptyInsert, Records

(* Only a statement with DEFAULT VALUES is looked at in this way.          *)
LEMMA DefaultSource ==
  ASSUME NEW s \in Statements, Trees(Render(s), s) = {}, Parses(EmptyInsert(s))
  PROVE  s.source = "default" /\ s.verb = "INSERT"
<1>1. s \in Records /\ s.verb \in {"INSERT", "REPLACE", "UPDATE"}
  BY StatementFacts, RecordFacts
<1>2. s \in Readings(Render(s), s)
  BY <1>1, AlikeItself DEF Readings
<1>3. ~Parses(s)
  BY <1>2 DEF Trees
<1>4. /\ EmptyInsert(s).verb = s.verb /\ EmptyInsert(s).clause = s.clause
      /\ EmptyInsert(s).upsert = s.upsert /\ EmptyInsert(s).where = s.where
  BY <1>1, EmptyFacts
<1>5. s.source = "default" /\ s.verb # "REPLACE"
  BY <1>3, <1>4 DEF Parses
<1>6. s.verb = "UPDATE" <=> s.source = "update"
  BY StatementFacts
<1> QED
  BY <1>1, <1>5, <1>6

(* The statement with the literal that DEFAULT VALUES becomes.             *)
MadeDefault(s, r) ==
  /\ r \in Records /\ Shaped(r) /\ r.verb = s.verb /\ r.clause = s.clause
  /\ r.gap = <<"sp">> /\ r.semi = FALSE /\ r.columns = <<"d">> /\ r.source = "values"
  /\ Len(r.rows) = 1 /\ Len(r.rows[1]) = 1 /\ r.rows[1][1] = Evaluated(default, 2)
  /\ r.upsert = "none" /\ r.set = s.set /\ r.where = s.where
  /\ r.with = s.with /\ r.note = s.note

(* A row of one value.                                                     *)
LEMMA OneValue ==
  ASSUME NEW e \in Text
  PROVE  Append(<<>>, e) = <<e>> /\ Len(<<e>>) = 1 /\ <<e>>[1] = e
OBVIOUS

(* DEFAULT VALUES stays, or becomes the literal of the DEFAULT.            *)
LEMMA DefaultMade ==
  ASSUME NEW s \in Statements, default \in Defaults, NEW e, FromDefault(s, e)
  PROVE  /\ s.source = "default"
         /\ \/ ~Nondeterministic(default) /\ e = Verbatim(Render(s))
            \/ \E r : /\ MadeDefault(s, r) /\ e = Verbatim(Render(r)) /\ Nondeterministic(default)
                      /\ \E m \in Materialized(s) : m \in Records /\ r \in Variants(m)
<1> DEFINE u == EmptyInsert(s)
           w == AppendDefaults(u)
           r == Opened(w)
           d == Evaluated(default, 2)
<1>1. s.source = "default" /\ s.verb = "INSERT"
  BY DefaultSource DEF FromDefault
<1>2. s \in Records /\ Shaped(s) /\ Written(s.set)
  BY StatementFacts
<1>3. s.columns = <<>> /\ s.upsert = "none"
  BY <1>1, StatementFacts
<1>4. default \in Text /\ Written(default)
  BY DefaultFacts
<1>5. 1 \in 1..Len(Fresh) /\ 2 \in 1..Len(Fresh) /\ 2 * 1 <= Len(Fresh)
  <2>1. Len(Fresh) \in Nat /\ Len(Fresh) >= 2
    BY FreshFacts, FreshAssumption
  <2> QED
    BY <2>1
<1>6. /\ u \in Records /\ u.verb = s.verb /\ u.clause = s.clause /\ u.gap = s.gap
      /\ u.columns = <<>> /\ u.source = "values" /\ u.rows = << <<>> >>
      /\ u.upsert = "none" /\ u.set = s.set /\ u.where = s.where /\ u.with = s.with
      /\ u.note = s.note /\ u.semi = s.semi
  BY <1>2, <1>3, EmptyFacts
<1>7. Len(u.rows) = 1 /\ u.rows[1] = <<>> /\ 2 * Len(u.rows) <= Len(Fresh)
  <2> HIDE DEF u
  <2>1. Len(u.rows) = 1 /\ u.rows[1] = <<>>
    BY <1>6
  <2> QED
    BY <1>5, <2>1
<1>8. d \in Text /\ Cell(d)
  BY <1>4, <1>5, EvaluatedFacts
<1> HIDE DEF u, d
<1>9. /\ w \in Records /\ w.verb = u.verb /\ w.clause = u.clause /\ w.gap = u.gap
      /\ w.columns = Append(u.columns, "d") /\ w.source = u.source /\ w.upsert = u.upsert
      /\ w.where = u.where /\ w.with = u.with /\ w.note = u.note /\ w.set = u.set
      /\ Len(w.rows) = Len(u.rows)
  BY <1>4, <1>6, <1>7, AppendedFacts
<1>10. w.rows[1] = Append(u.rows[1], Evaluated(default, 1 * 2))
  <2>1. u \in Records /\ u.columns \in {<<>>, <<"c">>} /\ 1 \in 1..Len(u.rows) /\ 2 * Len(u.rows) <= Len(Fresh)
    BY <1>6, <1>7
  <2>2. \A i \in 1..Len(u.rows) : w.rows[i] = Append(u.rows[i], Evaluated(default, i * 2))
    BY <1>4, <2>1, AppendedFacts
  <2> QED
    BY <2>1, <2>2
<1>11. w.rows[1] = <<d>>
  BY <1>7, <1>8, <1>10, OneValue DEF d
<1>12. w.columns = <<"d">>
  BY <1>6, <1>9, AppendColumn
<1> HIDE DEF w
<1>13. /\ r \in Records /\ r.verb = w.verb /\ r.clause = w.clause /\ r.gap = <<"sp">>
       /\ r.columns = w.columns /\ r.source = w.source /\ r.rows = w.rows /\ r.upsert = w.upsert
       /\ r.set = w.set /\ r.where = w.where /\ r.with = w.with /\ r.note = w.note
       /\ r.semi = FALSE
  BY <1>9, OpenedFacts
<1> HIDE DEF r
<1>14. Len(r.rows) = 1 /\ r.rows[1] = <<d>> /\ DOMAIN r.rows = 1..1
  BY <1>7, <1>9, <1>11, <1>13, RecordFacts
<1>15. Len(r.rows[1]) = 1 /\ r.rows[1][1] = d /\ DOMAIN r.rows[1] = 1..1
  BY <1>8, <1>14, OneValue
<1>16. Shaped(r)
  <2>1. \A i \in DOMAIN r.rows : \A j \in DOMAIN r.rows[i] : Cell(r.rows[i][j])
    <3>1. \A i \in DOMAIN r.rows : i = 1
      BY <1>14
    <3>2. \A j \in DOMAIN r.rows[1] : j = 1
      BY <1>15
    <3> QED
      BY <1>8, <1>15, <3>1, <3>2
  <2>2. Gap(r.gap)
    BY <1>13, BlankIsGap
  <2>3. r.note = <<>> \/ Comment(r.note)
    BY <1>2, <1>6, <1>9, <1>13 DEF Shaped
  <2>4. r.with = <<>> \/ Written(r.with)
    BY <1>2, <1>6, <1>9, <1>13 DEF Shaped
  <2>5. Cell(r.set)
    BY <1>2, <1>6, <1>9, <1>13 DEF Cell
  <2>6. r.verb = "INSERT" /\ r.source = "values"
    BY <1>1, <1>6, <1>9, <1>13
  <2>7. r.rows # <<>>
    BY <1>14
  <2> QED
    BY <1>13, <2>1, <2>2, <2>3, <2>4, <2>5, <2>6, <2>7 DEF Shaped
<1>17. MadeDefault(s, r)
  BY <1>6, <1>9, <1>12, <1>13, <1>14, <1>15, <1>16 DEF MadeDefault, d
<1>18. \E m \in Materialized(s) : m \in Records /\ r \in Variants(m)
  <2> DEFINE m == Closed(w)
  <2>1. m \in Materialized(s)
    BY MaterializedAre DEF w, u
  <2>2. /\ m \in Records /\ m.verb = w.verb /\ m.clause = w.clause /\ m.gap = w.gap
        /\ m.columns = w.columns /\ m.source = w.source /\ m.rows = w.rows /\ m.upsert = w.upsert
        /\ m.set = w.set /\ m.where = w.where /\ m.with = w.with /\ m.note = w.note /\ m.semi = FALSE
    BY <1>9, ClosedFacts
  <2> HIDE DEF m
  <2>3. Alike(r, m)
    BY <1>13, <2>2 DEF Alike
  <2> QED
    BY <2>1, <2>2, <2>3, VariantsAre
<1>19. CASE Nondeterministic(default)
  <2>1. NeedsDefault(u, {})
    BY <1>1, <1>6, <1>19 DEF NeedsDefault
  <2>2. e = Verbatim(Rendered(w))
    BY <2>1 DEF FromDefault, DefaultValuesEntry, w, u
  <2>3. Rendered(w) = Render(r)
    BY DEF Rendered, r, Opened
  <2> QED
    BY <1>1, <1>17, <1>18, <1>19, <2>2, <2>3
<1>20. CASE ~Nondeterministic(default)
  <2>1. ~NeedsDefault(u, {})
    BY <1>20 DEF NeedsDefault
  <2>2. e = Verbatim(Render(s))
    BY <2>1 DEF FromDefault, DefaultValuesEntry, u
  <2> QED
    BY <1>1, <1>20, <2>2
<1> QED
  BY <1>19, <1>20

-----------------------------------------------------------------------------
(* What is logged is the text of a statement again.                        *)
ReadsAs(s, m, r, text) ==
  /\ m \in Materialized(s) /\ m \in Records /\ r \in Variants(m)
  /\ Shaped(r) /\ text = Render(r) /\ r.gap \in {s.gap, <<"sp">>}

(* An entry is the text of a statement that can be read from it.           *)
LEMMA EntryReads ==
  ASSUME NEW s \in Statements, default \in Defaults, NEW e \in PreparedEntries(s)
  PROVE  /\ e.safe \in BOOLEAN /\ (~e.safe => e.replay = Render(s))
         /\ \E m, r : ReadsAs(s, m, r, e.replay)
<1>1. s \in Records /\ Shaped(s)
  BY StatementFacts
<1>2. ReadsAs(s, s, s, Render(s))
  BY <1>1, AlikeItself, MaterializedAre DEF ReadsAs
<1>3. CASE e = Blocked(Render(s))
  <2>1. e.safe = FALSE /\ e.replay = Render(s)
    BY <1>3 DEF Blocked
  <2> QED
    BY <1>2, <2>1
<1>4. CASE e = Verbatim(Render(s))
  <2>1. e.safe = TRUE /\ e.replay = Render(s)
    BY <1>4 DEF Verbatim
  <2> QED
    BY <1>2, <2>1
<1>5. CASE FromDefault(s, e)
  <2>1. \/ e = Verbatim(Render(s))
        \/ \E r : /\ MadeDefault(s, r) /\ e = Verbatim(Render(r))
                  /\ \E m \in Materialized(s) : m \in Records /\ r \in Variants(m)
    BY <1>5, DefaultMade
  <2>2. ASSUME NEW r, MadeDefault(s, r), e = Verbatim(Render(r)),
               NEW m \in Materialized(s), m \in Records, r \in Variants(m)
        PROVE  e.safe = TRUE /\ ReadsAs(s, m, r, e.replay)
    BY <2>2 DEF Verbatim, ReadsAs, MadeDefault
  <2> QED
    BY <1>4, <2>1, <2>2
<1>6. CASE FromTree(s, e)
  <2>1. PICK tree, compatible : Origin(s, tree, compatible) /\ e = EntryOf(Render(s), tree, compatible)
    BY <1>6 DEF FromTree
  <2>2. \/ e = Blocked(Render(s))
        \/ e = Verbatim(Render(s))
        \/ e = Verbatim(Rewritten(tree, compatible)) /\ Changes(tree, compatible)
    BY <2>1, EntryOfIs
  <2>3. CASE e = Verbatim(Rewritten(tree, compatible)) /\ Changes(tree, compatible)
    <3>1. Omitted(tree) => tree.source = "values"
      BY <2>3 DEF Changes
    <3>2. PICK r : OutFields(s, tree, compatible, r) /\ Rewritten(tree, compatible) = Render(r)
      BY <2>1, <3>1, RewrittenIs
    <3>3. PICK m \in Materialized(s) : m \in Records /\ r \in Variants(m)
      BY <2>1, <3>1, <3>2, OutIsReading
    <3>4. Shaped(r) /\ r.gap = <<"sp">>
      BY <3>2 DEF OutFields
    <3>5. e.safe = TRUE /\ e.replay = Render(r)
      BY <2>3, <3>2 DEF Verbatim
    <3> QED
      BY <3>3, <3>4, <3>5 DEF ReadsAs
  <2> QED
    BY <1>3, <1>4, <2>2, <2>3
<1> QED
  BY <1>3, <1>5, <1>6, PreparedIs

(* What the loader leaves of it, and what the strict check makes of that.  *)
LEMMA LoadedReads ==
  ASSUME NEW s, NEW m, NEW r, NEW text, ReadsAs(s, m, r, text), IsBlank(s.gap)
  PROVE  /\ IsBlank(r.gap) /\ Neutralized(text) = Render(Bare(r, {"ROLLBACK"}))
         /\ ReadsAs(s, m, Bare(r, {"ROLLBACK"}), Neutralized(text))
<1> DEFINE b == Bare(r, {"ROLLBACK"})
<1>1. Shaped(r) /\ IsBlank(r.gap) /\ text = Render(r)
  BY BlankIsGap DEF ReadsAs
<1>2. Neutralized(text) = Render(b)
  BY <1>1, NeutralizedIs
<1>3. Shaped(b)
  BY <1>1, BareFacts DEF Algorithms
<1>4. b \in Variants(m) /\ b.gap \in {s.gap, <<"sp">>}
  <2>1. m \in Records /\ r \in Variants(m) /\ r.gap \in {s.gap, <<"sp">>}
    BY DEF ReadsAs
  <2>2. CASE r.clause # "ROLLBACK"
    BY <2>1, <2>2 DEF Bare
  <2>3. CASE r.clause = "ROLLBACK"
    <3>1. b = NoClause(r)
      BY <2>3 DEF Bare
    <3>2. Alike(r, m)
      BY <2>1, VariantsAre
    <3>3. /\ NoClause(r) \in Records /\ NoClause(r).clause = "none" /\ NoClause(r).gap = <<"sp">>
          /\ NoClause(r).verb = r.verb /\ NoClause(r).columns = r.columns /\ NoClause(r).source = r.source
          /\ NoClause(r).rows = r.rows /\ NoClause(r).upsert = r.upsert /\ NoClause(r).set = r.set
          /\ NoClause(r).where = r.where /\ NoClause(r).with = r.with /\ NoClause(r).note = r.note
          /\ NoClause(r).semi = r.semi
      BY <1>1, EditedFields
    <3> HIDE DEF b
    <3>4. Alike(NoClause(r), m)
      BY <3>2, <3>3 DEF Alike
    <3> QED
      BY <2>1, <3>1, <3>3, <3>4, VariantsAre
  <2> QED
    BY <2>2, <2>3
<1> QED
  BY <1>1, <1>2, <1>3, <1>4 DEF ReadsAs

-----------------------------------------------------------------------------
(* The inductive invariant: every text is made from the one before it.     *)
Staged ==
  /\ stmt \in Statements /\ default \in Defaults /\ parsesUpsert \in BOOLEAN
  /\ stage \in {"execute", "logged", "loaded", "checked"}
  /\ stage = "execute" => entry = [replay |-> <<>>, safe |-> FALSE]
  /\ stage # "execute" => entry \in PreparedEntries(stmt)
  /\ IF stage \in {"loaded", "checked"} THEN loaded = Neutralized(entry.replay) ELSE loaded = <<>>
  /\ IF stage = "checked" THEN strict = StrictRewrite(loaded) ELSE strict = <<>>

(* What a statement may become depends on nothing that changes.            *)
LEMMA SameEntries ==
  ASSUME stmt' = stmt, default' = default, parsesUpsert' = parsesUpsert
  PROVE  PreparedEntries(stmt)' = PreparedEntries(stmt)
BY DEF PreparedEntries, Trees, Parses, DefaultValuesTrees, DefaultValuesEntry, NeedsDefault,
       AppendDefaults, EntryOf

(* It holds at first, and every step keeps it.                             *)
LEMMA StagedInductive ==
  /\ Init => Staged
  /\ Staged /\ [Next]_vars => Staged'
<1>1. Init => Staged
  BY DEF Init, Staged
<1>2. ASSUME Staged, [Next]_vars PROVE Staged'
  <2>1. stmt' = stmt /\ default' = default /\ parsesUpsert' = parsesUpsert
    BY <1>2 DEF Next, Prepare, Load, CheckStrict, vars
  <2>2. PreparedEntries(stmt)' = PreparedEntries(stmt)
    BY <2>1, SameEntries
  <2>3. CASE Prepare
    BY <1>2, <2>1, <2>2, <2>3 DEF Staged, Prepare
  <2>4. CASE Load
    BY <1>2, <2>1, <2>2, <2>4 DEF Staged, Load
  <2>5. CASE CheckStrict
    BY <1>2, <2>1, <2>2, <2>5 DEF Staged, CheckStrict
  <2>6. CASE UNCHANGED vars
    BY <1>2, <2>1, <2>2, <2>6 DEF Staged, vars
  <2> QED
    BY <1>2, <2>3, <2>4, <2>5, <2>6 DEF Next
<1> QED
  BY <1>1, <1>2

(* Every state is of that kind.                                            *)
THEOREM StagedAlways == Spec => []Staged
<1>1. Init => Staged
  BY StagedInductive
<1>2. Staged /\ [Next]_vars => Staged'
  BY StagedInductive
<1> QED
  BY <1>1, <1>2, PTL DEF Spec

(* What the loader hands to the merge is the logged statement without its  *)
(* OR ROLLBACK, and nothing else is missing                                *)
(* (neutralize_rollback_conflict_resolution).                              *)
THEOREM LoadsWithoutRollback == Spec => []ReplayCannotRollBack
<1>1. Staged => ReplayCannotRollBack
  <2> SUFFICES ASSUME Staged, stage \in {"loaded", "checked"}, BlankGap
               PROVE  \E r \in ReadAs(entry.replay) :
                        loaded = Render(IF r.clause = "ROLLBACK"
                                        THEN [r EXCEPT !.clause = "none", !.gap = <<"sp">>] ELSE r)
    BY DEF ReplayCannotRollBack
  <2>1. stmt \in Statements /\ default \in Defaults /\ entry \in PreparedEntries(stmt)
        /\ loaded = Neutralized(entry.replay)
    BY DEF Staged
  <2>2. PICK m, r : ReadsAs(stmt, m, r, entry.replay)
    BY <2>1, EntryReads
  <2>3. loaded = Render(Bare(r, {"ROLLBACK"}))
    BY <2>1, <2>2, LoadedReads DEF BlankGap
  <2>4. r \in ReadAs(entry.replay)
    BY <2>2 DEF ReadsAs, ReadAs, Readings
  <2> QED
    BY <2>3, <2>4 DEF Bare, NoClause
<1> QED
  BY <1>1, StagedAlways, PTL

(* The strict statement is the replayed one without the clauses that hide  *)
(* a violation, whatever else its text holds                               *)
(* (strict_conflict_resolution_rewrite).                                   *)
THEOREM StrictTakesClausesOff == Spec => []StrictIsExact
<1>1. Staged => StrictIsExact
  <2> SUFFICES ASSUME Staged, stage = "checked", BlankGap
               PROVE  \E r \in ReadAs(loaded) : strict = Render(Strict(r))
    BY DEF StrictIsExact, Strict, Bare, NoClause, AsInsert
  <2>1. /\ stmt \in Statements /\ default \in Defaults /\ entry \in PreparedEntries(stmt)
        /\ loaded = Neutralized(entry.replay) /\ strict = StrictRewrite(loaded)
    BY DEF Staged
  <2>2. PICK m, r : ReadsAs(stmt, m, r, entry.replay)
    BY <2>1, EntryReads
  <2> DEFINE b == Bare(r, {"ROLLBACK"})
  <2>3. ReadsAs(stmt, m, b, loaded)
    BY <2>1, <2>2, LoadedReads DEF BlankGap
  <2> HIDE DEF b
  <2>4. Shaped(b) /\ IsBlank(b.gap) /\ loaded = Render(b)
    BY <2>3, BlankIsGap DEF ReadsAs, BlankGap
  <2>5. strict = Render(Strict(b))
    BY <2>1, <2>4, StrictIs
  <2>6. b \in ReadAs(loaded)
    BY <2>3 DEF ReadsAs, ReadAs, Readings
  <2> QED
    BY <2>5, <2>6
<1> QED
  BY <1>1, StagedAlways, PTL

-----------------------------------------------------------------------------
(* The edits of any text whatever leave a text.                            *)

(* What stands before a place, and from it on.                             *)
LEMMA CutTypes ==
  ASSUME NEW text \in Text, NEW i \in 1..Len(text) + 1
  PROVE  /\ Before(text, i) \in Text /\ From(text, i) \in Text /\ Len(Before(text, i)) = i - 1
         /\ \A j \in 1..i - 1 : Before(text, i)[j] = text[j]
<1> DEFINE n == Len(text)
           x == SubSeq(text, 1, i - 1)
           y == SubSeq(text, i, n)
<1>1. n \in Nat /\ \A k \in 1..n : text[k] \in Elements
  BY TextFacts
<1>2. i \in Int /\ i - 1 \in Int /\ i - 1 \in 0..n /\ i >= 1
  BY <1>1
<1>3. (\A k \in 1..i - 1 : text[k] \in Elements) /\ (\A k \in i..n : text[k] \in Elements)
  <2> HIDE DEF n
  <2> QED
    BY <1>1, <1>2
<1> HIDE DEF n
<1>4. y \in Seq(Elements)
  BY <1>1, <1>2, <1>3, SubSeqProperties
<1>5. /\ x \in Seq(Elements) /\ Len(x) = IF 1 <= i - 1 THEN (i - 1) - 1 + 1 ELSE 0
      /\ \A k \in 1..((i - 1) - 1 + 1) : x[k] = text[1 + k - 1]
  BY <1>1, <1>2, <1>3, SubSeqProperties
<1> HIDE DEF x, y
<1>6. Len(x) = i - 1
  BY <1>1, <1>2, <1>5
<1>7. \A k \in 1..i - 1 : x[k] = text[k]
  <2>1. (i - 1) - 1 + 1 = i - 1 /\ \A k \in 1..i - 1 : 1 + k - 1 = k
    BY <1>2
  <2> QED
    BY <1>5, <2>1
<1> QED
  BY <1>4, <1>5, <1>6, <1>7 DEF Before, From, x, y, n, Text

(* The first of some places is one of them.                                *)
LEMMA FirstIs ==
  ASSUME NEW n \in Nat, NEW at \in SUBSET (1..n), at # {}
  PROVE  First(at) \in at /\ First(at) \in 1..n
<1>1. \E i \in at : \A j \in at : i <= j
  BY LeastNumber
<1> QED
  BY <1>1 DEF First

(* A place found by a pattern, and the place behind it.                    *)
LEMMA MatchesType ==
  ASSUME NEW text \in Text, NEW pattern, Len(pattern) \in 1..3, Matches(text, pattern) # {}
  PROVE  /\ First(Matches(text, pattern)) \in 1..Len(text)
         /\ MatchAt(text, First(Matches(text, pattern)), pattern) \in 1..Len(text) + 1
<1> DEFINE at == Matches(text, pattern)
           i == First(at)
<1>1. Len(text) \in Nat
  BY TextFacts
<1>2. at \in SUBSET (1..Len(text))
  <2>1. TopLevelKeywords(text) \subseteq 1..Len(text)
    BY <1>1, FoundIsTop DEF Top
  <2> QED
    BY <2>1 DEF Matches
<1>3. i \in at /\ i \in 1..Len(text)
  <2> HIDE DEF at
  <2> QED
    BY <1>1, <1>2, FirstIs DEF at
<1>4. MatchAt(text, i, pattern) # 0
  BY <1>3 DEF Matches
<1> HIDE DEF i, at
<1>5. \A j, words : Step(text, j, words) # 0 => Step(text, j, words) \in 1..Len(text) + 1
  <2> SUFFICES ASSUME NEW j, NEW words, Step(text, j, words) # 0
               PROVE  Step(text, j, words) \in 1..Len(text) + 1
    OBVIOUS
  <2> DEFINE k == Step(text, j, words)
  <2>1. j \in 1..Len(text) - 1 /\ AfterBlanks(text, j + 1, k)
    BY <1>1, StepFound
  <2>2. k \in j + 1..Len(text) + 1
    BY <2>1 DEF AfterBlanks
  <2> HIDE DEF k
  <2>3. k \in 1..Len(text) + 1
    BY <1>1, <2>1, <2>2
  <2> QED
    BY <2>3 DEF k
<1>6. \E j, words : MatchAt(text, i, pattern) = Step(text, j, words)
  <2>1. CASE Len(pattern) = 1
    BY <2>1, MatchOne
  <2>2. CASE Len(pattern) = 2
    BY <2>2, MatchTwo
  <2>3. CASE Len(pattern) = 3
    BY <2>3, MatchThree
  <2> QED
    BY <2>1, <2>2, <2>3
<1> QED
  BY <1>3, <1>4, <1>5, <1>6 DEF i, at

(* Taking a clause off a text leaves a text.                               *)
LEMMA RemoveType ==
  ASSUME NEW text \in Text, NEW w \in {"INSERT", "UPDATE"}, NEW algs
  PROVE  RemoveOrClause(text, w, algs) \in Text
<1> DEFINE pattern == OrClause(w, algs)
           at == Matches(text, pattern)
<1>1. CASE at = {}
  BY <1>1 DEF RemoveOrClause
<1>2. CASE at # {}
  <2>1. Len(pattern) \in 1..3
    BY DEF OrClause
  <2>2. First(at) \in 1..Len(text) /\ MatchAt(text, First(at), pattern) \in 1..Len(text) + 1
    BY <1>2, <2>1, MatchesType
  <2>3. First(at) \in 1..Len(text) + 1
    BY <2>2, TextFacts
  <2> DEFINE x == Before(text, First(at))
             y == From(text, MatchAt(text, First(at), pattern))
             z == <<w, "sp">>
  <2>4. x \in Text /\ y \in Text
    BY <2>2, <2>3, CutTypes
  <2>5. z \in Text
    <3>1. w \in Elements /\ "sp" \in Elements
      BY MarksAreElements DEF Marks, Words, Blanks
    <3> HIDE DEF Elements
    <3>2. <<w, "sp">> \in Seq(Elements)
      BY <3>1
    <3> QED
      BY <3>2 DEF Text
  <2>6. RemoveOrClause(text, w, algs) = x \o z \o y
    BY <1>2 DEF RemoveOrClause
  <2> HIDE DEF x, y, z
  <2> QED
    BY <2>4, <2>5, <2>6, Concat
<1> QED
  BY <1>1, <1>2

(* Rewriting REPLACE INTO leaves a text.                                   *)
LEMMA RewriteType ==
  ASSUME NEW text \in Text, NEW by \in Text
  PROVE  RewriteReplaceInto(text, by) \in Text
<1> DEFINE pattern == << {"REPLACE"}, {"INTO"} >>
           at == Matches(text, pattern)
<1>1. CASE at = {}
  BY <1>1 DEF RewriteReplaceInto
<1>2. CASE at # {}
  <2>1. Len(pattern) \in 1..3
    OBVIOUS
  <2>2. First(at) \in 1..Len(text)
    BY <1>2, <2>1, MatchesType
  <2>3. First(at) \in 1..Len(text) + 1 /\ First(at) + 1 \in 1..Len(text) + 1
    BY <2>2, TextFacts
  <2> DEFINE x == Before(text, First(at))
             y == From(text, First(at) + 1)
  <2>4. x \in Text /\ y \in Text
    BY <2>3, CutTypes
  <2>5. RewriteReplaceInto(text, by) = x \o by \o y
    BY <1>2 DEF RewriteReplaceInto
  <2> HIDE DEF x, y
  <2> QED
    BY <2>4, <2>5, Concat
<1> QED
  BY <1>1, <1>2

(* Taking the blanks off the end leaves a text.                            *)
LEMMA TrimmedType ==
  ASSUME NEW text \in Text, NEW first \in 1..Len(text), text[first] \notin Blanks
  PROVE  Trimmed(text) \in Text
<1> DEFINE kept == {i \in DOMAIN text : text[i] \notin Blanks}
           m == CHOOSE i \in kept : \A j \in kept : j <= i
<1>1. Len(text) \in Nat /\ DOMAIN text = 1..Len(text)
  BY TextFacts
<1>2. kept \in SUBSET (0..Len(text)) /\ kept # {}
  BY <1>1
<1>3. m \in kept
  <2> HIDE DEF kept
  <2>1. \E i \in kept : \A j \in kept : j <= i
    BY <1>1, <1>2, GreatestNumber
  <2> QED
    BY <2>1
<1>4. m \in 1..Len(text)
  BY <1>1, <1>3
<1>5. Trimmed(text) = SubSeq(text, 1, m)
  BY DEF Trimmed
<1> HIDE DEF m
<1>6. SubSeq(text, 1, m) = Before(text, m + 1)
  <2>1. (m + 1) - 1 = m
    BY <1>4
  <2> QED
    BY <2>1 DEF Before
<1>7. m + 1 \in 1..Len(text) + 1
  BY <1>1, <1>4
<1> QED
  BY <1>5, <1>6, <1>7, CutTypes

(* Taking the UPSERT off leaves a text.                                    *)
LEMMA StripType ==
  ASSUME NEW text \in Text
  PROVE  StripUpsert(text) \in Text
<1> DEFINE on == {i \in TopLevelKeywords(text) :
                  /\ text[i] = "ON"
                  /\ PastBlanks(text, i + 1) \in DOMAIN text
                  /\ text[PastBlanks(text, i + 1)] = "CONFLICT"}
           f == First(on)
           x == Before(text, f)
           z == Optional(Last(text) = "semi", <<"semi">>)
<1>1. CASE ~InsertLike(text) \/ on = {}
  BY <1>1 DEF StripUpsert
<1>2. CASE ~(~InsertLike(text) \/ on = {})
  <2>1. Len(text) \in Nat
    BY TextFacts
  <2>2. on \in SUBSET (1..Len(text)) /\ \A i \in on : text[i] = "ON"
    <3>1. TopLevelKeywords(text) \subseteq 1..Len(text)
      BY <2>1, FoundIsTop DEF Top
    <3> QED
      BY <3>1
  <2>3. StripUpsert(text) = Trimmed(x) \o z
    BY <1>2 DEF StripUpsert
  <2>4. on # {} /\ text[1] \in {"INSERT", "WITH"}
    BY <1>2 DEF InsertLike
  <2> HIDE DEF on
  <2>5. f \in on /\ f \in 1..Len(text)
    BY <2>1, <2>2, <2>4, FirstIs
  <2> HIDE DEF f
  <2>6. f # 1
    BY <2>2, <2>4, <2>5
  <2>7. f \in 1..Len(text) + 1 /\ 1 \in 1..f - 1
    BY <2>1, <2>5, <2>6
  <2>8. x \in Text /\ Len(x) = f - 1 /\ x[1] = text[1]
    BY <2>7, CutTypes
  <2> HIDE DEF x
  <2>9. Trimmed(x) \in Text
    <3>1. 1 \in 1..Len(x) /\ x[1] \notin Blanks
      BY <2>4, <2>7, <2>8 DEF Blanks
    <3> QED
      BY <2>8, <3>1, TrimmedType
  <2>10. z \in Text
    <3>1. <<>> \in Text
      BY DEF Text
    <3>2. <<"semi">> \in Text
      BY MarksAreElements, OneMark DEF Marks
    <3> QED
      BY <3>1, <3>2 DEF Optional
  <2> HIDE DEF z
  <2> QED
    BY <2>3, <2>9, <2>10, Concat
<1> QED
  BY <1>1, <1>2

(* What the loader and the strict check make of any text.                  *)
LEMMA LaterTypes ==
  ASSUME NEW text \in Text
  PROVE  Neutralized(text) \in Text /\ StrictRewrite(text) \in Text
<1>1. \A t \in Text : \A algs : RemoveOrClause(RemoveOrClause(t, "INSERT", algs), "UPDATE", algs) \in Text
  BY RemoveType
<1>2. <<"INSERT">> \in Text
  BY MarksAreElements, OneMark DEF Words
<1> QED
  BY <1>1, <1>2, RewriteType, StripType DEF Neutralized, StrictRewrite

(* The types of the state: a statement that is not safe to replay is       *)
(* logged as it is, and every text is made of the known words and marks.   *)
THEOREM SqlTypesAlways == Spec => []TypeOK
<1>1. Staged => TypeOK
  <2> SUFFICES ASSUME Staged PROVE TypeOK
    OBVIOUS
  <2>1. /\ stmt \in Statements /\ default \in Defaults /\ parsesUpsert \in BOOLEAN
        /\ stage \in {"execute", "logged", "loaded", "checked"}
    BY DEF Staged
  <2>2. \A text \in Text : ToSet(text) \subseteq Elements
    <3>1. ASSUME NEW text \in Text PROVE ToSet(text) \subseteq Elements
      BY TextFacts DEF ToSet
    <3> QED
      BY <3>1
  <2>3. <<>> \in Text
    BY DEF Text
  <2>4. CASE stage = "execute"
    <3>1. entry.safe = FALSE /\ entry.replay = <<>> /\ loaded = <<>> /\ strict = <<>>
      BY <2>4 DEF Staged
    <3> QED
      BY <2>1, <2>2, <2>3, <2>4, <3>1 DEF TypeOK
  <2>5. CASE stage # "execute"
    <3>1. entry \in PreparedEntries(stmt)
      BY <2>5 DEF Staged
    <3>2. /\ entry.safe \in BOOLEAN /\ (~entry.safe => entry.replay = Render(stmt))
          /\ \E m, r : ReadsAs(stmt, m, r, entry.replay)
      BY <2>1, <3>1, EntryReads
    <3>3. entry.replay \in Text
      <4>1. PICK m, r : ReadsAs(stmt, m, r, entry.replay)
        BY <3>2
      <4>2. Shaped(r) /\ entry.replay = Render(r)
        BY <4>1 DEF ReadsAs
      <4> QED
        BY <4>2, KeysOfRender
    <3>4. loaded \in {<<>>, Neutralized(entry.replay)}
      BY DEF Staged
    <3>5. strict \in {<<>>, StrictRewrite(loaded)}
      BY DEF Staged
    <3>6. loaded \in Text
      BY <2>3, <3>3, <3>4, LaterTypes
    <3>7. strict \in Text
      BY <2>3, <3>5, <3>6, LaterTypes
    <3> QED
      BY <2>1, <2>2, <3>2, <3>3, <3>6, <3>7 DEF TypeOK
  <2> QED
    BY <2>4, <2>5
<1> QED
  BY <1>1, StagedAlways, PTL

-----------------------------------------------------------------------------
(* What the length of a text says of its statement.                        *)
Ors(r) == Len(OrPart(r))
Intos(r) == Len(IntoPart(r))
Sized(r, c) == Len(Render(r)) = c + Len(r.gap) + Ors(r) + Intos(r) + Len(Upsert(r))

(* The lengths of the parts that may differ.                               *)
LEMMA PartLengths ==
  ASSUME NEW r, Shaped(r)
  PROVE  /\ Len(r.gap) \in Nat /\ Ors(r) \in {0, 4} /\ Intos(r) \in {0, 2}
         /\ (r.clause = "none" <=> Ors(r) = 0)
         /\ (r.verb = "UPDATE" <=> Intos(r) = 0)
         /\ Len(Upsert(r)) \in Nat /\ (r.upsert = "none" <=> Len(Upsert(r)) = 0)
         /\ (r.upsert # "none" => Len(Upsert(r)) >= 2)
<1>1. Len(r.gap) \in Nat /\ Len(Upsert(r)) \in Nat
  BY PartTypes, TextFacts
<1>2. Ors(r) \in {0, 4} /\ (r.clause = "none" <=> Ors(r) = 0)
  BY DEF Ors, OrPart, Optional
<1>3. Intos(r) \in {0, 2} /\ (r.verb = "UPDATE" <=> Intos(r) = 0)
  BY DEF Intos, IntoPart, Optional
<1>4. r.upsert = "none" => Len(Upsert(r)) = 0
  BY DEF Upsert
<1>5. r.upsert # "none" => Len(Upsert(r)) >= 2
  <2> SUFFICES ASSUME r.upsert # "none" PROVE Len(Upsert(r)) >= 2
    OBVIOUS
  <2>1. 2 \in UpsertKeys(r)
    BY DEF UpsertKeys
  <2>2. UpsertKeys(r) \subseteq 1..Len(Upsert(r))
    BY UpsertPiece
  <2>3. 2 \in 1..Len(Upsert(r))
    BY <2>1, <2>2
  <2> QED
    BY <1>1, <2>3
<1>6. r.upsert = "none" <=> Len(Upsert(r)) = 0
  BY <1>1, <1>4, <1>5
<1> QED
  BY <1>1, <1>2, <1>3, <1>5, <1>6

(* How long the text of a statement is.                                    *)
LEMMA RenderLength ==
  ASSUME NEW r, Shaped(r)
  PROVE  Len(Render(r)) = Len(WithPart(r)) + 1 + Len(r.gap) + Ors(r) + Intos(r) + 2
                            + Len(NotePart(r)) + Len(Body(r)) + Len(Upsert(r)) + Len(Semi(r))
<1> DEFINE a == WithPart(r)
           v == <<r.verb>>
           g == r.gap
           o == OrPart(r)
           x1 == IntoPart(r)
           x2 == <<"t">>
           x3 == <<"sp">>
           x4 == NotePart(r)
           x5 == Body(r)
           x6 == Upsert(r)
           x7 == Semi(r)
           y2 == x1 \o x2
           y3 == y2 \o x3
           y4 == y3 \o x4
           y5 == y4 \o x5
           y6 == y5 \o x6
           y7 == y6 \o x7
           oz == o \o y7
           goz == g \o oz
           vgoz == v \o goz
<1>1. /\ a \in Text /\ v \in Text /\ g \in Text /\ o \in Text /\ x1 \in Text /\ x2 \in Text
      /\ x3 \in Text /\ x4 \in Text /\ x5 \in Text /\ x6 \in Text /\ x7 \in Text
  BY PartTypes
<1>2. Len(v) = 1 /\ Len(x2) = 1 /\ Len(x3) = 1
  OBVIOUS
<1>3. Render(r) = a \o vgoz
  BY RenderSplit DEF WithRest, Rest, AheadRest
<1> HIDE DEF a, v, g, o, x1, x2, x3, x4, x5, x6, x7
<1>4. y2 \in Text /\ Len(y2) = Len(x1) + Len(x2)
  BY <1>1, Concat
<1> HIDE DEF y2
<1>5. y3 \in Text /\ Len(y3) = Len(y2) + Len(x3)
  BY <1>1, <1>4, Concat
<1> HIDE DEF y3
<1>6. y4 \in Text /\ Len(y4) = Len(y3) + Len(x4)
  BY <1>1, <1>5, Concat
<1> HIDE DEF y4
<1>7. y5 \in Text /\ Len(y5) = Len(y4) + Len(x5)
  BY <1>1, <1>6, Concat
<1> HIDE DEF y5
<1>8. y6 \in Text /\ Len(y6) = Len(y5) + Len(x6)
  BY <1>1, <1>7, Concat
<1> HIDE DEF y6
<1>9. y7 \in Text /\ Len(y7) = Len(y6) + Len(x7)
  BY <1>1, <1>8, Concat
<1> HIDE DEF y7
<1>10. oz \in Text /\ Len(oz) = Len(o) + Len(y7)
  BY <1>1, <1>9, Concat
<1> HIDE DEF oz
<1>11. goz \in Text /\ Len(goz) = Len(g) + Len(oz)
  BY <1>1, <1>10, Concat
<1> HIDE DEF goz
<1>12. vgoz \in Text /\ Len(vgoz) = Len(v) + Len(goz)
  BY <1>1, <1>11, Concat
<1> HIDE DEF vgoz
<1>13. Len(a \o vgoz) = Len(a) + Len(vgoz)
  BY <1>1, <1>12, Concat
<1>14. /\ Len(a) \in Nat /\ Len(g) \in Nat /\ Len(o) \in Nat /\ Len(x1) \in Nat
       /\ Len(x4) \in Nat /\ Len(x5) \in Nat /\ Len(x6) \in Nat /\ Len(x7) \in Nat
  BY <1>1, TextFacts
<1>15. Len(Render(r)) = Len(a) + 1 + Len(g) + Len(o) + Len(x1) + 2 + Len(x4) + Len(x5) + Len(x6) + Len(x7)
  BY <1>2, <1>3, <1>4, <1>5, <1>6, <1>7, <1>8, <1>9, <1>10, <1>11, <1>12, <1>13, <1>14
<1> QED
  BY <1>15 DEF a, g, o, x1, x4, x5, x6, x7, Ors, Intos

(* A statement and one like it have texts of nearly the same length.       *)
LEMMA AlikeLengths ==
  ASSUME NEW s, Shaped(s), NEW t, Shaped(t), Alike(t, s)
  PROVE  /\ \E c \in Nat : Sized(s, c) /\ Sized(t, c)
         /\ Len(t.gap) <= Len(s.gap) + 1
         /\ WithPart(t) = WithPart(s)
<1>1. /\ WithPart(t) = WithPart(s) /\ NotePart(t) = NotePart(s) /\ Semi(t) = Semi(s)
      /\ Body(t) = Body(s)
  <2>1. t.with = s.with /\ t.note = s.note /\ t.semi = s.semi
    BY DEF Alike
  <2>2. t.columns = s.columns /\ t.source = s.source /\ t.rows = s.rows
    BY DEF Alike
  <2> QED
    BY <2>1, <2>2, SameBody DEF WithPart, NotePart, Semi
<1>2. Len(s.gap) \in Nat /\ Len(t.gap) <= Len(s.gap) + 1
  <2>1. Len(s.gap) \in Nat
    BY PartTypes, TextFacts
  <2>2. CASE t.gap = s.gap
    BY <2>1, <2>2
  <2>3. CASE t.gap = <<"sp">>
    <3>1. Len(t.gap) = 1
      BY <2>3
    <3> QED
      BY <2>1, <3>1
  <2> QED
    BY <2>2, <2>3 DEF Alike
<1> DEFINE w == Len(WithPart(s))
           n == Len(NotePart(s))
           b == Len(Body(s))
           e == Len(Semi(s))
           c == w + 1 + 2 + n + b + e
<1>3. w \in Nat /\ n \in Nat /\ b \in Nat /\ e \in Nat
  BY PartTypes, TextFacts
<1>4. \A r : Shaped(r) => /\ Len(r.gap) \in Nat /\ Ors(r) \in Nat /\ Intos(r) \in Nat /\ Len(Upsert(r)) \in Nat
  BY PartLengths
<1>5. Len(Render(s)) = w + 1 + Len(s.gap) + Ors(s) + Intos(s) + 2 + n + b + Len(Upsert(s)) + e
  BY RenderLength
<1>6. Len(Render(t)) = w + 1 + Len(t.gap) + Ors(t) + Intos(t) + 2 + n + b + Len(Upsert(t)) + e
  BY <1>1, RenderLength
<1> HIDE DEF w, n, b, e
<1>7. c \in Nat
  BY <1>3
<1>8. Sized(s, c)
  <2> DEFINE lr == Len(Render(s))
             lg == Len(s.gap)
             lo == Ors(s)
             li == Intos(s)
             lu == Len(Upsert(s))
  <2>1. lg \in Nat /\ lo \in Nat /\ li \in Nat /\ lu \in Nat
    BY <1>4
  <2>2. lr = w + 1 + lg + lo + li + 2 + n + b + lu + e
    BY <1>5
  <2> HIDE DEF lr, lg, lo, li, lu
  <2>3. lr = c + lg + lo + li + lu
    BY <1>3, <2>1, <2>2
  <2> HIDE DEF c
  <2> QED
    BY <2>3 DEF Sized, lr, lg, lo, li, lu
<1>9. Sized(t, c)
  <2> DEFINE lr == Len(Render(t))
             lg == Len(t.gap)
             lo == Ors(t)
             li == Intos(t)
             lu == Len(Upsert(t))
  <2>1. lg \in Nat /\ lo \in Nat /\ li \in Nat /\ lu \in Nat
    BY <1>4
  <2>2. lr = w + 1 + lg + lo + li + 2 + n + b + lu + e
    BY <1>6
  <2> HIDE DEF lr, lg, lo, li, lu
  <2>3. lr = c + lg + lo + li + lu
    BY <1>3, <2>1, <2>2
  <2> HIDE DEF c
  <2> QED
    BY <2>3 DEF Sized, lr, lg, lo, li, lu
<1> QED
  BY <1>1, <1>2, <1>7, <1>8, <1>9

(* What stands behind a place.                                             *)
LEMMA AfterLength ==
  ASSUME NEW text \in Text, NEW i \in 1..Len(text)
  PROVE  From(text, i + 1) \in Text /\ Len(From(text, i + 1)) = Len(text) - i
<1> DEFINE n == Len(text)
           y == SubSeq(text, i + 1, n)
<1>1. n \in Nat /\ \A k \in 1..n : text[k] \in Elements
  BY TextFacts
<1>2. i + 1 \in Int /\ n \in Int /\ i \in 1..n
  BY <1>1
<1> HIDE DEF n
<1>3. \A k \in (i + 1)..n : text[k] \in Elements
  BY <1>1, <1>2
<1>4. y \in Seq(Elements) /\ Len(y) = IF i + 1 <= n THEN n - (i + 1) + 1 ELSE 0
  BY <1>2, <1>3, SubSeqProperties
<1> HIDE DEF y
<1>5. Len(y) = n - i
  BY <1>2, <1>4
<1> QED
  BY <1>4, <1>5 DEF From, y, n, Text

(* REPLACE INTO, when it is rewritten, makes a text longer.                *)
LEMMA RewriteLength ==
  ASSUME NEW text \in Text, NEW by \in Text, RewriteReplaceInto(text, by) # text
  PROVE  /\ Len(RewriteReplaceInto(text, by)) = Len(text) + Len(by) - 1
         /\ \E i \in TopLevelKeywords(text) : text[i] = "REPLACE"
<1> DEFINE pattern == << {"REPLACE"}, {"INTO"} >>
           at == Matches(text, pattern)
           i == First(at)
           x == Before(text, i)
           y == From(text, i + 1)
<1>1. at # {}
  BY DEF RewriteReplaceInto
<1>2. Len(text) \in Nat /\ Len(pattern) = 2 /\ pattern[1] = {"REPLACE"}
  BY TextFacts
<1>3. i \in 1..Len(text)
  BY <1>1, <1>2, MatchesType
<1>4. i \in at
  <2>1. at \in SUBSET (1..Len(text))
    <3>1. TopLevelKeywords(text) \subseteq 1..Len(text)
      BY <1>2, FoundIsTop DEF Top
    <3> QED
      BY <3>1 DEF Matches
  <2> HIDE DEF at
  <2> QED
    BY <1>1, <1>2, <2>1, FirstIs
<1>5. i \in TopLevelKeywords(text) /\ MatchAt(text, i, pattern) # 0
  BY <1>4 DEF Matches
<1>6. RewriteReplaceInto(text, by) = (x \o by) \o y
  BY <1>1 DEF RewriteReplaceInto
<1> HIDE DEF i, at
<1>7. text[i] = "REPLACE"
  <2>1. MatchAt(text, i, pattern) = Step(text, Step(text, i, pattern[1]), pattern[2])
    BY <1>2, MatchTwo
  <2>2. Step(text, i, pattern[1]) # 0
    BY <1>5, <2>1, StepFromNowhere
  <2>3. text[i] \in pattern[1]
    BY <1>2, <2>2, StepFound
  <2> QED
    BY <1>2, <2>3
<1>8. x \in Text /\ Len(x) = i - 1
  <2>1. i \in 1..Len(text) + 1
    BY <1>2, <1>3
  <2> QED
    BY <2>1, CutTypes
<1>9. y \in Text /\ Len(y) = Len(text) - i
  BY <1>3, AfterLength
<1> HIDE DEF x, y
<1>10. x \o by \in Text /\ Len(x \o by) = Len(x) + Len(by) /\ Len(by) \in Nat
  BY <1>8, Concat
<1>11. Len((x \o by) \o y) = Len(x) + Len(by) + Len(y)
  <2> DEFINE z == x \o by
  <2>1. z \in Text /\ Len(z) = Len(x) + Len(by)
    BY <1>10
  <2> HIDE DEF z
  <2>2. Len(z \o y) = Len(z) + Len(y)
    BY <1>9, <2>1, Concat
  <2> QED
    BY <2>1, <2>2 DEF z
<1> QED
  BY <1>2, <1>3, <1>5, <1>6, <1>7, <1>8, <1>9, <1>10, <1>11

-----------------------------------------------------------------------------
(* What the text the parser is given says of the statement.                *)

(* Two statements with the same text have an UPSERT both or neither.       *)
LEMMA SameUpsertWord ==
  ASSUME NEW r, Shaped(r), NEW t, Shaped(t), Render(r) = Render(t), r.upsert = "none"
  PROVE  t.upsert = "none"
<1> DEFINE text == Render(r)
           a == Len(WithPart(r))
           n == Len(r.gap)
           f == Len(Ahead(r))
           b == Len(WithPart(t))
           m == Len(t.gap)
           g == Len(Ahead(t))
<1>1. KeyFacts(r, text, a, n, f)
  BY KeysAre
<1>2. KeyFacts(t, text, b, m, g)
  BY KeysAre
<1>3. text[a + 1] = r.verb
  BY VerbAt
<1>4. r.clause # "none" => text[a + n + 4] = r.clause
  BY ClauseWord
<1>5. r.verb \in {"INSERT", "REPLACE", "UPDATE"}
  BY RecordFacts DEF Shaped
<1> SUFFICES ASSUME t.upsert # "none" PROVE FALSE
  OBVIOUS
<1>6. UpsertFacts(t, text, g)
  BY UpsertAt
<1> HIDE DEF text, a, n, f, b, m, g
<1>7. text[g + 2] = "ON" /\ g + 2 \in TopLevelKeywords(text)
  BY <1>2, <1>6 DEF KeyFacts, UpsertFacts
<1>8. g + 2 = a + 1 \/ (r.clause = "REPLACE" /\ g + 2 = a + n + 4)
  <2>1. text[g + 2] \in Keys
    BY <1>7 DEF Keys
  <2> QED
    BY <1>1, <1>7, <2>1 DEF KeyFacts
<1>9. CASE g + 2 = a + 1
  BY <1>3, <1>5, <1>7, <1>9
<1>10. CASE r.clause = "REPLACE" /\ g + 2 = a + n + 4
  BY <1>4, <1>7, <1>10
<1> QED
  BY <1>8, <1>9, <1>10

(* Two statements with the same text and the same WITH have the same verb. *)
LEMMA SameVerb ==
  ASSUME NEW r, Shaped(r), NEW t, Shaped(t), Render(r) = Render(t), WithPart(r) = WithPart(t)
  PROVE  r.verb = t.verb
<1>1. Render(r)[Len(WithPart(r)) + 1] = r.verb
  BY VerbAt
<1>2. Render(t)[Len(WithPart(t)) + 1] = t.verb
  BY VerbAt
<1> QED
  BY <1>1, <1>2

(* REPLACE as a word that is found: the verb or the clause.                *)
LEMMA ReplaceWord ==
  ASSUME NEW r, Shaped(r), NEW i \in TopLevelKeywords(Render(r)), Render(r)[i] = "REPLACE"
  PROVE  r.verb = "REPLACE" \/ r.clause = "REPLACE"
<1> DEFINE text == Render(r)
           a == Len(WithPart(r))
           n == Len(r.gap)
           f == Len(Ahead(r))
<1>1. KeyFacts(r, text, a, n, f)
  BY KeysAre
<1>2. text[a + 1] = r.verb
  BY VerbAt
<1>3. r.upsert # "none" => UpsertFacts(r, text, f)
  BY UpsertAt
<1>4. i \in TopLevelKeywords(text) /\ text[i] = "REPLACE"
  OBVIOUS
<1>5. r.upsert = "update" => r.upsert # "none"
  OBVIOUS
<1> HIDE DEF text, a, n, f
<1>6. \/ i = a + 1
      \/ r.clause = "REPLACE" /\ i = a + n + 4
      \/ r.upsert # "none" /\ i = f + 2
      \/ r.upsert = "update" /\ i = f + 8
  <2>1. text[i] \in Keys
    BY <1>4 DEF Keys
  <2> QED
    BY <1>1, <1>4, <2>1 DEF KeyFacts
<1>7. r.upsert # "none" => text[f + 2] = "ON"
  BY <1>3 DEF UpsertFacts
<1>8. r.upsert = "update" => text[f + 8] = "UPDATE"
  BY <1>3, <1>5 DEF UpsertFacts
<1> QED
  BY <1>2, <1>4, <1>6, <1>7, <1>8

(* The parts of the text for the parser.                                   *)
FoundIn(text) ==
  IF OrResolution(text, "UPDATE", Algorithms) # NoResolution
  THEN OrResolution(text, "UPDATE", Algorithms) ELSE OrResolution(text, "INSERT", Algorithms)
NoOr(text) == RemoveOrClause(text, "UPDATE", Algorithms)
OrReplace == <<"INSERT", "sp", "OR", "sp", "REPLACE">>

(* The text for the parser, when no UPSERT is taken off.                   *)
LEMMA NormalizedIs ==
  ASSUME NEW text, ~Normalized(text).strippedUpsert
  PROVE  /\ FoundIn(text) # NoResolution => Normalized(text).sql = NoOr(text)
         /\ FoundIn(text) = NoResolution =>
              Normalized(text).sql = RewriteReplaceInto(NoOr(text), OrReplace)
         /\ Normalized(text).sql = NoOr(text) => Normalized(text).resolution = FoundIn(text)
         /\ StripUpsert(Normalized(text).sql) = Normalized(text).sql
<1> DEFINE by == OrReplace
           noReplace == IF FoundIn(text) # NoResolution THEN NoOr(text)
                        ELSE RewriteReplaceInto(NoOr(text), by)
           kept == IF noReplace = NoOr(text) THEN FoundIn(text)
                   ELSE [kind |-> "INSERT", algorithm |-> "REPLACE"]
           cut == StripUpsert(noReplace)
<1>1. Normalized(text).sql = cut
  BY Zenon DEF Normalized, FoundIn, NoOr, OrReplace
<1>2. Normalized(text).sql = cut /\ Normalized(text).resolution = kept
  BY <1>1, Zenon DEF Normalized, FoundIn, NoOr, OrReplace
<1>3. Normalized(text).strippedUpsert = (cut # noReplace)
  BY Zenon DEF Normalized, FoundIn, NoOr, OrReplace
<1> HIDE DEF kept, cut
<1>4. cut = noReplace
  BY <1>3, Zenon
<1>5. StripUpsert(cut) = cut
  BY <1>4, Zenon DEF cut
<1> HIDE DEF by
<1>6. FoundIn(text) # NoResolution => noReplace = NoOr(text)
  OBVIOUS
<1>7. FoundIn(text) = NoResolution => noReplace = RewriteReplaceInto(NoOr(text), by)
  OBVIOUS
<1>8. noReplace = NoOr(text) => kept = FoundIn(text)
  BY Zenon DEF kept
<1> HIDE DEF noReplace
<1> QED
  BY <1>2, <1>4, <1>5, <1>6, <1>7, <1>8 DEF by

(* Without an OR clause that is seen nothing is noted and nothing removed. *)
LEMMA NoOrSeen ==
  ASSUME NEW r, Shaped(r), NEW w \in {"INSERT", "UPDATE"}, ~(r.verb = w /\ r.clause # "none" /\ IsBlank(r.gap))
  PROVE  /\ OrResolution(Render(r), w, Algorithms) = NoResolution
         /\ RemoveOrClause(Render(r), w, Algorithms) = Render(r)
<1>1. OrFacts(r, Render(r), Len(WithPart(r)), Len(r.gap), w, Algorithms)
  BY OrMatches
<1>2. "none" \notin Algorithms
  BY DEF Algorithms
<1>3. ~(r.verb = w /\ r.clause \in Algorithms /\ IsBlank(r.gap))
  BY <1>2
<1>4. Matches(Render(r), OrClause(w, Algorithms)) = {}
  BY <1>1, <1>3 DEF OrFacts
<1> QED
  BY <1>4 DEF OrResolution, RemoveOrClause

(* The clause of an INSERT or UPDATE is noted.                             *)
LEMMA OrSeen ==
  ASSUME NEW r, Shaped(r), r.verb \in {"INSERT", "UPDATE"}, r.clause # "none", IsBlank(r.gap)
  PROVE  OrResolution(Render(r), r.verb, Algorithms).kind = r.verb
<1>1. OrFacts(r, Render(r), Len(WithPart(r)), Len(r.gap), r.verb, Algorithms)
  BY OrMatches
<1>2. r.clause \in Algorithms
  BY RecordFacts DEF Shaped
<1>3. Matches(Render(r), OrClause(r.verb, Algorithms)) # {}
  BY <1>1, <1>2 DEF OrFacts
<1> DEFINE x == Render(r)[MatchAt(Render(r), First(Matches(Render(r), OrClause(r.verb, Algorithms))),
                                  << {r.verb}, {"OR"} >>)]
<1>4. OrResolution(Render(r), r.verb, Algorithms) = [kind |-> r.verb, algorithm |-> x]
  BY <1>3 DEF OrResolution
<1> HIDE DEF x
<1> QED
  BY <1>4

-----------------------------------------------------------------------------
(* The clauses of a statement and of what is written in its place.         *)

(* A statement that is not a tree of its own text is not parsed.           *)
LEMMA NotParsed ==
  ASSUME NEW s \in Records, Trees(Render(s), s) = {}
  PROVE  ~Parses(s)
<1>1. s \in Readings(Render(s), s)
  BY AlikeItself DEF Readings
<1> QED
  BY <1>1 DEF Trees

(* A tree of the text itself has the clauses of the statement.             *)
LEMMA UntouchedMeaning ==
  ASSUME NEW s \in Statements, NEW tree \in Trees(Render(s), s)
  PROVE  tree.verb = s.verb /\ tree.upsert = s.upsert /\ tree.clause = s.clause /\ s.verb # "REPLACE"
<1>1. Shaped(s)
  BY StatementFacts
<1>2. Shaped(tree) /\ Alike(tree, s) /\ Parses(tree) /\ Render(tree) = Render(s)
  BY TreeFacts
<1>3. PICK c \in Nat : Sized(s, c) /\ Sized(tree, c)
  BY <1>1, <1>2, AlikeLengths
<1>4. WithPart(tree) = WithPart(s) /\ Len(tree.gap) <= Len(s.gap) + 1
  BY <1>1, <1>2, AlikeLengths
<1>5. tree.verb = s.verb
  BY <1>1, <1>2, <1>4, SameVerb
<1>6. tree.verb # "REPLACE"
  BY <1>2 DEF Parses
<1>7. tree.upsert = s.upsert /\ Upsert(tree) = Upsert(s)
  <2>1. CASE tree.upsert = s.upsert /\ tree.set = s.set /\ tree.where = s.where
    BY <2>1, SameUpsert
  <2>2. CASE tree.upsert = "none"
    <3>1. s.upsert = "none"
      BY <1>1, <1>2, <2>2, SameUpsertWord
    <3> QED
      BY <2>2, <3>1 DEF Upsert
  <2> QED
    BY <1>2, <2>1, <2>2 DEF Alike
<1>8. Intos(tree) = Intos(s)
  BY <1>5 DEF Intos, IntoPart
<1>9. CASE tree.clause = "none" /\ s.clause # "none"
  <2> DEFINE gs == Len(s.gap)
             gt == Len(tree.gap)
             i == Intos(s)
             u == Len(Upsert(s))
  <2>1. gs \in Nat /\ i \in Nat /\ u \in Nat /\ Ors(s) = 4
    BY <1>1, <1>9, PartLengths
  <2>2. gt \in Nat /\ Ors(tree) = 0
    BY <1>2, <1>9, PartLengths
  <2>3. Len(Render(s)) = c + gs + 4 + i + u
    BY <1>3, <2>1 DEF Sized
  <2>4. Len(Render(s)) = c + gt + 0 + i + u
    BY <1>2, <1>3, <1>7, <1>8, <2>2 DEF Sized
  <2>5. gt <= gs + 1
    BY <1>4
  <2> HIDE DEF gs, gt, i, u
  <2> QED
    BY <2>1, <2>2, <2>3, <2>4, <2>5
<1>10. CASE tree.clause = "REPLACE"
  <2> DEFINE p == Len(WithPart(tree)) + Len(tree.gap) + 4
  <2>1. Render(tree)[p] = "REPLACE"
    BY <1>2, <1>10, ClauseWord
  <2>2. p \in TopLevelKeywords(Render(tree))
    <3>1. KeyFacts(tree, Render(tree), Len(WithPart(tree)), Len(tree.gap), Len(Ahead(tree)))
      BY <1>2, KeysAre
    <3> QED
      BY <1>10, <3>1 DEF KeyFacts
  <2> HIDE DEF p
  <2>3. s.verb = "REPLACE" \/ s.clause = "REPLACE"
    BY <1>1, <1>2, <2>1, <2>2, ReplaceWord
  <2> QED
    BY <1>5, <1>6, <1>7, <1>10, <2>3
<1>11. tree.clause \in {s.clause, "none", "REPLACE"}
  BY <1>2 DEF Alike
<1> QED
  BY <1>5, <1>6, <1>7, <1>9, <1>10, <1>11

(* When no OR clause is seen, only REPLACE INTO can have been rewritten.   *)
LEMMA OnlyReplace ==
  ASSUME NEW s, Shaped(s), ~(s.verb \in {"INSERT", "UPDATE"} /\ s.clause # "none" /\ IsBlank(s.gap)),
         ~Normalized(Render(s)).strippedUpsert, Normalized(Render(s)).sql # Render(s)
  PROVE  /\ Len(Normalized(Render(s)).sql) = Len(Render(s)) + 4
         /\ s.verb = "REPLACE" \/ s.clause = "REPLACE"
<1> DEFINE text == Render(s)
           new == Normalized(text).sql
<1>1. OrResolution(text, "UPDATE", Algorithms) = NoResolution /\ NoOr(text) = text
  BY NoOrSeen DEF NoOr
<1>2. OrResolution(text, "INSERT", Algorithms) = NoResolution
  BY NoOrSeen
<1>3. FoundIn(text) = NoResolution
  BY <1>1, <1>2 DEF FoundIn
<1>4. new = RewriteReplaceInto(text, OrReplace)
  BY <1>1, <1>3, NormalizedIs
<1>5. OrReplace \in Text /\ Len(OrReplace) = 5
  <2>1. "INSERT" \in Elements /\ "sp" \in Elements /\ "OR" \in Elements /\ "REPLACE" \in Elements
    BY MarksAreElements DEF Marks, Words, Blanks, Algorithms
  <2> HIDE DEF Elements
  <2>2. <<"INSERT", "sp", "OR", "sp", "REPLACE">> \in Seq(Elements)
    BY <2>1
  <2> QED
    BY <2>2 DEF OrReplace, Text
<1>6. text \in Text /\ Len(text) \in Nat
  BY KeysOfRender, TextFacts
<1>7. RewriteReplaceInto(text, OrReplace) # text
  BY <1>4
<1> HIDE DEF text, new
<1>8. Len(new) = Len(text) + Len(OrReplace) - 1
  BY <1>4, <1>5, <1>6, <1>7, RewriteLength
<1>9. PICK i \in TopLevelKeywords(text) : text[i] = "REPLACE"
  BY <1>5, <1>6, <1>7, RewriteLength
<1>10. s.verb = "REPLACE" \/ s.clause = "REPLACE"
  BY <1>9, ReplaceWord DEF text
<1>11. Len(new) = Len(text) + 4
  BY <1>5, <1>6, <1>8
<1> QED
  BY <1>10, <1>11 DEF text, new

(* A tree of the rewritten text, with what is noted beside it, has them    *)
(* too: of an UPDATE the clause is noted, REPLACE INTO is the clause       *)
(* REPLACE, and nothing else is rewritten without taking an UPSERT off.    *)
LEMMA NormalizedMeaning ==
  ASSUME NEW s \in Statements, Trees(Render(s), s) = {}, NEW tree,
         ~Normalized(Render(s)).strippedUpsert, Normalized(Render(s)).sql # Render(s),
         tree \in Trees(Normalized(Render(s)).sql, s)
  PROVE  /\ tree.upsert = "none" /\ s.upsert = "none"
         /\ \/ s.verb = "UPDATE" /\ tree.verb = "UPDATE" /\ Normalized(Render(s)).resolution.kind = "UPDATE"
            \/ s.verb = "REPLACE" /\ tree.verb = "INSERT" /\ tree.clause = "REPLACE"
<1> DEFINE text == Render(s)
           new == Normalized(text).sql
           kind == Normalized(text).resolution.kind
<1>1. Shaped(s) /\ s \in Records
  BY StatementFacts
<1>2. Shaped(tree) /\ Alike(tree, s) /\ Parses(tree) /\ Render(tree) = new
  BY TreeFacts
<1>3. ~Parses(s)
  BY <1>1, NotParsed
<1>4. s.source # "default" /\ tree.verb \in {s.verb, "INSERT"} /\ tree.verb # "REPLACE"
  BY <1>2 DEF Alike, Parses
<1>5. s.verb \in {"INSERT", "REPLACE", "UPDATE"}
  BY <1>1, RecordFacts
<1>6. tree.upsert = "none"
  <2>1. StripUpsert(Render(tree)) = Render(WithoutUpsert(tree))
    BY <1>2, <1>4, StripIs
  <2>2. StripUpsert(new) = new
    BY NormalizedIs
  <2>3. Shaped(WithoutUpsert(tree)) /\ WithoutUpsert(tree).upsert = "none"
    BY <1>2, WithoutUpsertParts, EditedFields
  <2>4. Render(WithoutUpsert(tree)) = Render(tree)
    BY <1>2, <2>1, <2>2
  <2> QED
    BY <1>2, <2>3, <2>4, SameUpsertWord
<1>7. PICK c \in Nat : Sized(s, c) /\ Sized(tree, c)
  BY <1>1, <1>2, AlikeLengths
<1>8. WithPart(tree) = WithPart(s) /\ Len(tree.gap) <= Len(s.gap) + 1
  BY <1>1, <1>2, AlikeLengths
<1> DEFINE seen == s.verb \in {"INSERT", "UPDATE"} /\ s.clause # "none" /\ IsBlank(s.gap)
<1>9. CASE seen
  <2>1. CASE s.verb = "UPDATE"
    <3>1. OrResolution(text, "UPDATE", Algorithms).kind = "UPDATE"
      BY <1>1, <1>9, <2>1, OrSeen
    <3>2. FoundIn(text) # NoResolution /\ FoundIn(text).kind = "UPDATE"
      BY <3>1 DEF FoundIn, NoResolution
    <3>3. new = NoOr(text)
      BY <3>2, NormalizedIs
    <3>4. kind = "UPDATE"
      BY <3>2, <3>3, NormalizedIs
    <3>5. NoOr(text) = Render(NoClause(s))
      <4>1. s.clause \in Algorithms
        BY <1>1, <1>9, RecordFacts
      <4> QED
        BY <1>1, <1>9, <2>1, <4>1, RemoveOrIs DEF NoOr
    <3>6. Shaped(NoClause(s)) /\ WithPart(NoClause(s)) = WithPart(s) /\ NoClause(s).verb = s.verb
      BY <1>1, NoClauseParts, EditedFields
    <3>7. tree.verb = NoClause(s).verb
      BY <1>2, <1>8, <3>3, <3>5, <3>6, SameVerb
    <3>8. s.upsert = "none"
      BY <1>1, <2>1 DEF Shaped
    <3> HIDE DEF text, new, kind
    <3> QED
      BY <1>6, <2>1, <3>4, <3>6, <3>7, <3>8 DEF kind, text
  <2>2. CASE s.verb = "INSERT"
    <3>1. OrResolution(text, "INSERT", Algorithms).kind = "INSERT"
      BY <1>1, <1>9, <2>2, OrSeen
    <3>2. OrResolution(text, "UPDATE", Algorithms) = NoResolution /\ NoOr(text) = text
      BY <1>1, <2>2, NoOrSeen DEF NoOr
    <3>3. FoundIn(text) # NoResolution
      BY <3>1, <3>2 DEF FoundIn, NoResolution
    <3>4. new = NoOr(text)
      BY <3>3, NormalizedIs
    <3> QED
      BY <3>2, <3>4
  <2> QED
    BY <1>9, <2>1, <2>2
<1>10. CASE ~seen
  <2>1. Len(new) = Len(text) + 4
    BY <1>1, <1>10, OnlyReplace
  <2>2. s.verb = "REPLACE" \/ s.clause = "REPLACE"
    BY <1>1, <1>10, OnlyReplace
  <2> DEFINE gs == Len(s.gap)
             gt == Len(tree.gap)
             os == Ors(s)
             ot == Ors(tree)
             is == Intos(s)
             it == Intos(tree)
             us == Len(Upsert(s))
  <2>3. /\ gs \in Nat /\ os \in {0, 4} /\ is \in {0, 2} /\ us \in Nat
        /\ (s.clause = "none" <=> os = 0) /\ (s.verb = "UPDATE" <=> is = 0)
        /\ (s.upsert # "none" => us >= 2)
    BY <1>1, PartLengths
  <2>4. /\ gt \in Nat /\ ot \in {0, 4} /\ it \in {0, 2}
        /\ (tree.clause = "none" <=> ot = 0) /\ (tree.verb = "UPDATE" <=> it = 0)
        /\ Len(Upsert(tree)) = 0
    BY <1>2, <1>6, PartLengths
  <2>5. Len(text) = c + gs + os + is + us
    BY <1>7 DEF Sized
  <2>6. Len(new) = c + gt + ot + it + 0
    BY <1>2, <1>7, <2>4 DEF Sized
  <2>7. gt <= gs + 1
    BY <1>8
  <2> HIDE DEF text, new, gs, gt, os, ot, is, it, us
  <2>8. gt + ot + it = gs + os + is + us + 4
    BY <2>1, <2>3, <2>4, <2>5, <2>6
  <2>9. CASE s.verb = "REPLACE"
    <3>1. s.clause = "none"
      BY <1>1, <2>9 DEF Shaped
    <3>2. os = 0 /\ is = 2 /\ tree.verb = "INSERT"
      BY <1>4, <2>3, <2>9, <3>1
    <3>3. ot = 4 /\ us <= 1
      BY <2>3, <2>4, <2>7, <2>8, <3>2
    <3>4. s.upsert = "none"
      BY <2>3, <3>3
    <3>5. tree.clause # "none"
      BY <2>4, <3>3
    <3>6. tree.clause = "REPLACE"
      BY <1>2, <3>1, <3>5 DEF Alike
    <3> QED
      BY <1>6, <2>9, <3>2, <3>4, <3>6
  <2>10. CASE s.verb # "REPLACE"
    <3>1. s.clause = "REPLACE"
      BY <2>2, <2>10
    <3>2. os = 4
      BY <2>3, <3>1
    <3>3. CASE s.verb = "UPDATE"
      <4>1. is = 0
        BY <2>3, <3>3
      <4> QED
        BY <2>3, <2>4, <2>7, <2>8, <3>2, <4>1
    <3>4. CASE s.verb = "INSERT"
      <4>1. is = 2 /\ tree.verb = "INSERT"
        BY <1>4, <2>3, <3>4
      <4>2. it = 2
        BY <2>4, <4>1
      <4> QED
        BY <2>3, <2>4, <2>7, <2>8, <3>2, <4>1, <4>2
    <3> QED
      BY <1>5, <2>10, <3>3, <3>4
  <2> QED
    BY <2>9, <2>10
<1> QED
  BY <1>9, <1>10

(* What replaces a statement has its clauses.                              *)
LEMMA MeaningKept ==
  ASSUME NEW s \in Statements, default \in Defaults, NEW tree, NEW compatible,
         Origin(s, tree, compatible), Changes(tree, compatible),
         NEW r, OutFields(s, tree, compatible, r)
  PROVE  /\ Meaning(r) = Meaning(s) /\ r.upsert = s.upsert /\ tree.upsert = s.upsert
         /\ s.upsert = "update" => tree.set = s.set
<1>1. PICK text : tree \in Trees(text, s)
  BY OriginFacts
<1>2. Alike(tree, s) /\ Parses(tree)
  BY <1>1, TreeFacts
<1>3. /\ r.verb = tree.verb /\ r.upsert = Final(tree).upsert /\ r.where = Final(tree).where
      /\ compatible.resolution.kind = "UPDATE" /\ tree.verb = "UPDATE" => r.clause = s.clause
      /\ ~(compatible.resolution.kind = "UPDATE" /\ tree.verb = "UPDATE") => r.clause = tree.clause
  BY DEF OutFields
<1>4. Final(tree).upsert = tree.upsert /\ Final(tree).where = tree.where
  <2>1. FinalFields(s, tree, Final(tree))
    BY <1>1, FinalFacts DEF Changes
  <2> QED
    BY <2>1 DEF FinalFields
<1>5. s.upsert # "update" => s.where = FALSE
  BY StatementFacts
<1>6. /\ tree.upsert = s.upsert
      /\ \/ tree.verb = s.verb /\ r.clause = s.clause /\ s.verb # "REPLACE"
         \/ s.verb = "REPLACE" /\ r.verb = "INSERT" /\ r.clause = "REPLACE"
  <2>1. CASE tree \in Trees(Render(s), s) /\ compatible = Untouched(Render(s))
    <3>1. tree.verb = s.verb /\ tree.upsert = s.upsert /\ tree.clause = s.clause /\ s.verb # "REPLACE"
      BY <2>1, UntouchedMeaning
    <3>2. compatible.resolution.kind = "none"
      BY <2>1, Zenon DEF Untouched, NoResolution
    <3> QED
      BY <1>3, <3>1, <3>2
  <2>2. CASE /\ Trees(Render(s), s) = {} /\ compatible = Normalized(Render(s))
             /\ compatible.sql # Render(s) /\ tree \in Trees(compatible.sql, s)
    <3>1. ~Normalized(Render(s)).strippedUpsert
      BY <2>2 DEF Changes
    <3>2. /\ tree.upsert = "none" /\ s.upsert = "none"
          /\ \/ s.verb = "UPDATE" /\ tree.verb = "UPDATE" /\ compatible.resolution.kind = "UPDATE"
             \/ s.verb = "REPLACE" /\ tree.verb = "INSERT" /\ tree.clause = "REPLACE"
      BY <2>2, <3>1, NormalizedMeaning
    <3> QED
      BY <1>3, <3>2
  <2> QED
    BY <2>1, <2>2 DEF Origin
<1>7. r.where = s.where /\ (s.upsert = "update" => tree.set = s.set)
  BY <1>2, <1>3, <1>4, <1>5, <1>6 DEF Alike
<1> QED
  BY <1>3, <1>4, <1>6, <1>7 DEF Meaning

-----------------------------------------------------------------------------
(* The values of a statement, place by place.                              *)
Count(s) == CASE s.source = "values" -> Len(s.rows) [] s.source = "default" -> 1 [] OTHER -> 2
Cols == {"c", "d", "set"}
Value(time, p, e) ==
  IF PerEvaluation(e) THEN <<time, p[2], Fresh[p[1]]>> ELSE IF e = Now THEN <<time>> ELSE e
At(s, p) == Expression(s, p[1], p[2])
Points(s) == (1..Count(s)) \X Cols

(* What a statement leaves is what its expressions give.                   *)
LEMMA OutcomeIs ==
  ASSUME NEW s, NEW time
  PROVE  Outcome(s, time) = [p \in Points(s) |-> Value(time, p, At(s, p))]
BY DEF Outcome, Points, Count, Cols, Value, At

(* The place of a column in a list.                                        *)
Place(columns, col) == CHOOSE j \in DOMAIN columns : columns[j] = col

(* The expression of a column, for every kind of source.                   *)
LEMMA ExpressionIs ==
  ASSUME NEW s, NEW row, NEW col \in {"c", "d"}
  PROVE  /\ Expression(s, row, "set") = Optional(s.upsert = "update", s.set)
         /\ s.source = "update" => Expression(s, row, col) = Optional(col = "c", s.rows[1][1])
         /\ s.source # "update" /\ (s.source = "default" \/ col \notin ToSet(Columns(s))) =>
              Expression(s, row, col) = Optional(col = "d", default)
         /\ s.source = "values" /\ col \in ToSet(Columns(s)) =>
              Expression(s, row, col) = s.rows[row][Place(Columns(s), col)]
         /\ s.source = "select" /\ col \in ToSet(Columns(s)) =>
              Expression(s, row, col) = s.rows[1][Place(Columns(s), col)]
BY DEF Expression, Place

(* The lists of columns.                                                   *)
Lists == {<<"c">>, <<"d">>, <<"c", "d">>, <<"d", "c">>}

(* A column of a list has a place there.                                   *)
LEMMA PlaceIs ==
  ASSUME NEW columns \in Lists, NEW col \in ToSet(columns)
  PROVE  /\ Place(columns, col) \in 1..Len(columns) /\ columns[Place(columns, col)] = col
         /\ Len(columns) \in 1..2
<1>1. DOMAIN columns = 1..Len(columns) /\ Len(columns) \in 1..2
  BY DEF Lists
<1>2. \E j \in DOMAIN columns : columns[j] = col
  BY DEF ToSet
<1> QED
  BY <1>1, <1>2 DEF Place

(* The places in the lists that are written.                               *)
LEMMA PlacesApart ==
  /\ ToSet(<<"c">>) = {"c"} /\ ToSet(<<"d">>) = {"d"} /\ ToSet(<<"c", "d">>) = {"c", "d"}
  /\ Place(<<"c">>, "c") = 1 /\ Place(<<"d">>, "d") = 1
  /\ Place(<<"c", "d">>, "c") = 1 /\ Place(<<"c", "d">>, "d") = 2
<1>1. ToSet(<<"c">>) = {"c"} /\ ToSet(<<"d">>) = {"d"} /\ ToSet(<<"c", "d">>) = {"c", "d"}
  <2>1. DOMAIN <<"c">> = {1} /\ DOMAIN <<"d">> = {1} /\ DOMAIN <<"c", "d">> = {1, 2}
    OBVIOUS
  <2> QED
    BY <2>1 DEF ToSet
<1>2. "c" \in ToSet(<<"c">>) /\ "d" \in ToSet(<<"d">>) /\ "c" \in ToSet(<<"c", "d">>) /\ "d" \in ToSet(<<"c", "d">>)
  BY <1>1
<1>3. \A j \in 1..2 : (<<"c", "d">>[j] = "c" => j = 1) /\ (<<"c", "d">>[j] = "d" => j = 2)
  OBVIOUS
<1>4. Place(<<"c">>, "c") \in 1..Len(<<"c">>) /\ Place(<<"d">>, "d") \in 1..Len(<<"d">>)
  BY <1>2, PlaceIs DEF Lists
<1>5. Place(<<"c", "d">>, "c") \in 1..2 /\ <<"c", "d">>[Place(<<"c", "d">>, "c")] = "c"
  BY <1>2, PlaceIs DEF Lists
<1>6. Place(<<"c", "d">>, "d") \in 1..2 /\ <<"c", "d">>[Place(<<"c", "d">>, "d")] = "d"
  BY <1>2, PlaceIs DEF Lists
<1>7. Place(<<"c">>, "c") = 1 /\ Place(<<"d">>, "d") = 1
  BY <1>4
<1> QED
  BY <1>1, <1>3, <1>5, <1>6, <1>7

(* The columns of a statement are one of the lists.                        *)
LEMMA ColumnsAre ==
  ASSUME NEW s \in Records
  PROVE  Columns(s) \in Lists
BY RecordFacts DEF Columns, Lists

-----------------------------------------------------------------------------
(* What is not evaluated again.                                            *)
Settled(x) == ~Nondeterministic(x)

(* One word, unless it is the clock, is not evaluated again.               *)
LEMMA OneIsSettled ==
  ASSUME NEW w, w # "CURRENT_TIMESTAMP"
  PROVE  Settled(<<w>>)
<1>1. Len(<<w>>) = 1 /\ <<w>>[1] = w
  OBVIOUS
<1>2. <<w>> # Now
  BY <1>1 DEF Now
<1>3. <<w>> # Random
  BY <1>1 DEF Random
<1>4. <<w>> # SubRandom
  <2>1. Len(SubRandom) = 7
    BY DEF SubRandom, Random
  <2> QED
    BY <1>1, <2>1
<1> QED
  BY <1>2, <1>3, <1>4 DEF Settled, Nondeterministic, PerEvaluation

(* None of the literals is.                                                *)
LEMMA LiteralsSettled ==
  /\ Settled(<<"then">>) /\ Settled(<<>>)
  /\ \A k \in DOMAIN Fresh : Settled(<<Fresh[k]>>)
<1>1. Settled(<<"then">>)
  BY OneIsSettled
<1>2. ASSUME NEW k \in DOMAIN Fresh PROVE Settled(<<Fresh[k]>>)
  <2>1. Fresh[k] # "CURRENT_TIMESTAMP"
    BY FreshFacts DEF Words
  <2> QED
    BY <2>1, OneIsSettled
<1>3. <<>> # Now /\ <<>> # Random
  BY DEF Now, Random
<1>4. <<>> # SubRandom
  <2>1. Len(SubRandom) = 7 /\ Len(<<>>) = 0
    BY DEF SubRandom, Random
  <2> QED
    BY <2>1
<1> QED
  BY <1>1, <1>2, <1>3, <1>4 DEF Settled, Nondeterministic, PerEvaluation

(* The value e of a statement and the value x in its place; random values  *)
(* come from the calls numbered by row and column.                         *)
InPlace(columns, row, col, e, x) ==
  /\ e \in Text /\ (e = <<>> \/ Written(e)) /\ e # SubRandom
  /\ e # Now /\ e # Random => x = e
  /\ e = Now => x = <<"then">>
  /\ e = Random => \E k \in 1..Len(Fresh) :
        /\ x = <<Fresh[k]>>
        /\ col # "set" => \E j \in 1..Len(columns) : k = (row - 1) * 2 + j /\ columns[j] = col

(* What stands in the place of a value is not evaluated again.             *)
LEMMA InPlaceSettled ==
  ASSUME NEW columns, NEW row, NEW col, NEW e, NEW x, InPlace(columns, row, col, e, x)
  PROVE  Settled(x)
<1>1. CASE e = Now
  BY <1>1, LiteralsSettled DEF InPlace
<1>2. CASE e = Random
  BY <1>2, LiteralsSettled, FreshFacts DEF InPlace
<1>3. CASE e # Now /\ e # Random
  BY <1>3 DEF InPlace, Settled, Nondeterministic, PerEvaluation
<1> QED
  BY <1>1, <1>2, <1>3

(* The literal of a value.                                                 *)
LEMMA EvaluatedInPlace ==
  ASSUME NEW e \in Text, Written(e), e # SubRandom, NEW n \in 1..Len(Fresh), NEW columns, NEW row, NEW col,
         e = Random /\ col # "set" => \E j \in 1..Len(columns) : n = (row - 1) * 2 + j /\ columns[j] = col
  PROVE  InPlace(columns, row, col, e, Evaluated(e, n))
<1>1. /\ e = Now => Evaluated(e, n) = <<"then">>
      /\ e = Random => Evaluated(e, n) = <<Fresh[n]>>
      /\ e # Now /\ e # Random => Evaluated(e, n) = e
  BY EvaluatedFacts
<1> QED
  BY <1>1 DEF InPlace

(* What stays needs no literal.                                            *)
LEMMA SettledInPlace ==
  ASSUME NEW e \in Text, e = <<>> \/ Written(e), Settled(e), NEW columns, NEW row, NEW col
  PROVE  InPlace(columns, row, col, e, e)
BY DEF InPlace, Settled, Nondeterministic, PerEvaluation

(* Nothing stands in the place of nothing.                                 *)
LEMMA EmptyInPlace ==
  ASSUME NEW columns, NEW row, NEW col
  PROVE  InPlace(columns, row, col, <<>>, <<>>)
<1>1. <<>> \in Text
  BY DEF Text
<1> QED
  BY <1>1, LiteralsSettled, SettledInPlace

(* No word of a statement is one of the times.                             *)
LEMMA NoTime ==
  "first" \notin Elements
<1>1. "first" \notin ToSet(Fresh)
  BY FreshAssumption
<1> QED
  BY <1>1 DEF Elements, Marks, Words, Blanks, Quotes, Algorithms

(* A value written in a statement is none of the literals.                 *)
LEMMA WrittenApart ==
  ASSUME NEW e \in Text, e = <<>> \/ Written(e), e # Now
  PROVE  /\ e # <<"then">> /\ e # <<"first">> /\ \A k \in DOMAIN Fresh : e # <<Fresh[k]>>
         /\ \A c, v : e # <<"first", c, v>>
<1>1. Len(e) \in Nat /\ \A i \in 1..Len(e) : e[i] \in Elements
  BY TextFacts
<1>2. e # <<"first">>
  <2>1. Len(<<"first">>) = 1 /\ <<"first">>[1] = "first"
    OBVIOUS
  <2> QED
    BY <1>1, <2>1, NoTime
<1>3. ASSUME NEW c, NEW v PROVE e # <<"first", c, v>>
  <2>1. Len(<<"first", c, v>>) = 3 /\ <<"first", c, v>>[1] = "first"
    OBVIOUS
  <2> QED
    BY <1>1, <2>1, NoTime
<1>4. Len(e) = 1 => e = <<"1">>
  <2>1. CASE e = <<>>
    BY <2>1
  <2>2. CASE Quoted(e) \/ Bracketed(e)
    BY <1>1, <2>2 DEF Quoted, Bracketed
  <2>3. Len(Random) = 3 /\ Len(SubRandom) = 7
    BY DEF Random, SubRandom
  <2> QED
    BY <2>1, <2>2, <2>3 DEF Written
<1>5. ASSUME NEW w, w # "1" PROVE e # <<w>>
  <2>1. Len(<<w>>) = 1 /\ <<w>>[1] = w /\ <<"1">>[1] = "1"
    OBVIOUS
  <2> QED
    BY <1>4, <1>5, <2>1
<1>6. ASSUME NEW k \in DOMAIN Fresh PROVE Fresh[k] # "1"
  <2>1. Fresh[k] \in ToSet(Fresh)
    BY DEF ToSet
  <2> QED
    BY <2>1, FreshAssumption
<1> QED
  BY <1>2, <1>3, <1>5, <1>6

(* The columns of a list are different ones.                               *)
LEMMA ListsApart ==
  ASSUME NEW columns \in Lists
  PROVE  /\ Len(columns) \in 1..2
         /\ \A i, j \in 1..Len(columns) : columns[i] = columns[j] => i = j
BY DEF Lists

(* The three kinds of value, with what it leaves and what replaces it.     *)
PlainKind(v, x) == v = x /\ x \in Text /\ (x = <<>> \/ Written(x)) /\ x # Now
ClockKind(v, x) == v = <<"first">> /\ x = <<"then">>
RandomKind(columns, row, col, j, v, x) ==
  /\ v = <<"first", col, Fresh[row]>> /\ row \in 1..Len(Fresh) /\ j \in 1..Len(columns)
  /\ (row - 1) * 2 + j \in 1..Len(Fresh) /\ x = <<Fresh[(row - 1) * 2 + j]>> /\ columns[j] = col

(* Every value is of one of the kinds; one that time does not change is    *)
(* plain.                                                                  *)
LEMMA Kinds ==
  ASSUME NEW columns \in Lists, NEW row \in Nat \ {0}, NEW col, NEW e, NEW x, InPlace(columns, row, col, e, x),
         col = "set" => ~PerEvaluation(e)
  PROVE  /\ \/ PlainKind(Value("first", <<row, col>>, e), x)
            \/ ClockKind(Value("first", <<row, col>>, e), x)
            \/ \E j : RandomKind(columns, row, col, j, Value("first", <<row, col>>, e), x)
         /\ Value("later", <<row, col>>, e) = Value("first", <<row, col>>, e) =>
              PlainKind(Value("first", <<row, col>>, e), x)
<1> DEFINE v == Value("first", <<row, col>>, e)
           w == Value("later", <<row, col>>, e)
<1>1. CASE e = Now
  <2>1. ~PerEvaluation(e)
    <3>1. Len(Now) = 1 /\ Len(Random) = 3 /\ Len(SubRandom) = 7
      BY DEF Now, Random, SubRandom
    <3> QED
      BY <1>1, <3>1 DEF PerEvaluation
  <2>2. v = <<"first">> /\ w = <<"later">>
    BY <1>1, <2>1 DEF Value
  <2>3. <<"first">> # <<"later">>
    OBVIOUS
  <2>4. x = <<"then">>
    BY <1>1 DEF InPlace
  <2> QED
    BY <2>2, <2>3, <2>4 DEF ClockKind
<1>2. CASE e = Random
  <2>1. PerEvaluation(e)
    BY <1>2 DEF PerEvaluation
  <2>2. v = <<"first", col, Fresh[row]>> /\ w = <<"later", col, Fresh[row]>>
    BY <2>1 DEF Value
  <2>3. w # v
    BY <2>2
  <2>4. PICK k \in 1..Len(Fresh) : /\ x = <<Fresh[k]>>
                                  /\ \E j \in 1..Len(columns) : k = (row - 1) * 2 + j /\ columns[j] = col
    BY <1>2, <2>1 DEF InPlace
  <2>5. PICK j \in 1..Len(columns) : k = (row - 1) * 2 + j /\ columns[j] = col
    BY <2>4
  <2>6. row \in 1..Len(Fresh)
    <3>1. j \in Nat \ {0} /\ Len(Fresh) \in Nat
      BY FreshFacts, ListsApart
    <3> QED
      BY <2>4, <2>5, <3>1
  <2> HIDE DEF v, w
  <2>7. RandomKind(columns, row, col, j, v, x)
    BY <2>2, <2>4, <2>5, <2>6 DEF RandomKind
  <2> QED
    BY <2>3, <2>7 DEF v, w
<1>3. CASE e # Now /\ e # Random
  <2>1. ~PerEvaluation(e)
    BY <1>3 DEF InPlace, PerEvaluation
  <2>2. v = e /\ x = e
    BY <1>3, <2>1 DEF Value, InPlace
  <2>3. PlainKind(v, x)
    BY <1>3, <2>2 DEF PlainKind, InPlace
  <2> QED
    BY <2>3
<1> QED
  BY <1>1, <1>2, <1>3

(* Values that differ are replaced by literals that differ.                *)
LEMMA KindsApart ==
  ASSUME NEW columns \in Lists, NEW a, NEW c, NEW i, NEW b, NEW d, NEW j, NEW v, NEW x, NEW w, NEW y
  PROVE  /\ PlainKind(v, x) /\ PlainKind(w, y) => (v = w <=> x = y)
         /\ ClockKind(v, x) /\ ClockKind(w, y) => (v = w <=> x = y)
         /\ PlainKind(v, x) /\ ClockKind(w, y) => v # w /\ x # y
         /\ PlainKind(v, x) /\ RandomKind(columns, b, d, j, w, y) => v # w /\ x # y
         /\ ClockKind(v, x) /\ RandomKind(columns, b, d, j, w, y) => v # w /\ x # y
         /\ RandomKind(columns, a, c, i, v, x) /\ RandomKind(columns, b, d, j, w, y) => (v = w <=> x = y)
<1>1. PlainKind(v, x) /\ PlainKind(w, y) => (v = w <=> x = y)
  BY DEF PlainKind
<1>2. ClockKind(v, x) /\ ClockKind(w, y) => (v = w <=> x = y)
  BY DEF ClockKind
<1>3. PlainKind(v, x) => /\ x # <<"then">> /\ x # <<"first">> /\ \A k \in DOMAIN Fresh : x # <<Fresh[k]>>
                         /\ \A f, g : x # <<"first", f, g>>
  BY WrittenApart DEF PlainKind
<1>4. PlainKind(v, x) /\ ClockKind(w, y) => v # w /\ x # y
  BY <1>3 DEF PlainKind, ClockKind
<1>5. PlainKind(v, x) /\ RandomKind(columns, b, d, j, w, y) => v # w /\ x # y
  BY <1>3, FreshFacts DEF PlainKind, RandomKind
<1>6. ClockKind(v, x) /\ RandomKind(columns, b, d, j, w, y) => v # w /\ x # y
  <2> SUFFICES ASSUME ClockKind(v, x), RandomKind(columns, b, d, j, w, y) PROVE v # w /\ x # y
    OBVIOUS
  <2>1. v # w
    <3>1. v = <<"first">> /\ w = <<"first", d, Fresh[b]>>
      BY DEF ClockKind, RandomKind
    <3>2. Len(<<"first">>) = 1 /\ Len(<<"first", d, Fresh[b]>>) = 3
      OBVIOUS
    <3> QED
      BY <3>1, <3>2
  <2>2. \A k \in DOMAIN Fresh : Fresh[k] # "then"
    <3>1. \A k \in DOMAIN Fresh : Fresh[k] \in ToSet(Fresh)
      BY DEF ToSet
    <3> QED
      BY <3>1, FreshAssumption
  <2>3. x # y
    <3>1. PICK k \in DOMAIN Fresh : y = <<Fresh[k]>>
      BY FreshFacts DEF RandomKind
    <3>2. x = <<"then">>
      BY DEF ClockKind
    <3> QED
      BY <2>2, <3>1, <3>2
  <2> QED
    BY <2>1, <2>3
<1>7. RandomKind(columns, a, c, i, v, x) /\ RandomKind(columns, b, d, j, w, y) => (v = w <=> x = y)
  <2> SUFFICES ASSUME RandomKind(columns, a, c, i, v, x), RandomKind(columns, b, d, j, w, y)
               PROVE  v = w <=> x = y
    OBVIOUS
  <2> DEFINE k == (a - 1) * 2 + i
             l == (b - 1) * 2 + j
  <2>1. /\ v = <<"first", c, Fresh[a]>> /\ a \in 1..Len(Fresh) /\ i \in 1..Len(columns)
        /\ k \in 1..Len(Fresh) /\ x = <<Fresh[k]>> /\ columns[i] = c
    BY DEF RandomKind
  <2>2. /\ w = <<"first", d, Fresh[b]>> /\ b \in 1..Len(Fresh) /\ j \in 1..Len(columns)
        /\ l \in 1..Len(Fresh) /\ y = <<Fresh[l]>> /\ columns[j] = d
    BY DEF RandomKind
  <2>3. \A m, n \in 1..Len(Fresh) : Fresh[m] = Fresh[n] => m = n
    BY FreshFacts, FreshAssumption
  <2>4. k = l => a = b /\ i = j
    <3>1. Len(Fresh) \in Nat /\ Len(columns) \in 1..2
      BY FreshFacts, ListsApart
    <3>2. i \in 1..Len(columns) /\ j \in 1..Len(columns) /\ a \in 1..Len(Fresh) /\ b \in 1..Len(Fresh)
      BY <2>1, <2>2
    <3> DEFINE m == Len(Fresh)
               n == Len(columns)
    <3>3. /\ m \in Nat /\ n \in 1..2 /\ i \in 1..n /\ j \in 1..n /\ a \in 1..m /\ b \in 1..m
      BY <3>1, <3>2
    <3> HIDE DEF m, n
    <3>4. i \in 1..2 /\ j \in 1..2
      BY <3>3
    <3>5. a \in Nat /\ b \in Nat
      BY <3>3
    <3> QED
      BY <3>4, <3>5
  <2>5. ASSUME v = w PROVE x = y
    <3>1. c = d /\ Fresh[a] = Fresh[b]
      BY <2>1, <2>2, <2>5
    <3>2. a = b
      BY <2>1, <2>2, <2>3, <3>1
    <3>3. i = j
      BY <2>1, <2>2, <3>1, ListsApart
    <3> QED
      BY <2>1, <2>2, <3>2, <3>3
  <2>6. ASSUME x = y PROVE v = w
    <3> HIDE DEF k, l
    <3>1. Fresh[k] = Fresh[l]
      BY <2>1, <2>2, <2>6
    <3>2. k = l
      BY <2>1, <2>2, <2>3, <3>1
    <3> QED
      BY <2>1, <2>2, <2>4, <3>2
  <2> QED
    BY <2>5, <2>6
<1> QED
  BY <1>1, <1>2, <1>4, <1>5, <1>6, <1>7

-----------------------------------------------------------------------------
(* The values of what is written in place of a statement.                  *)
SameValues(s, r, columns) ==
  /\ columns \in Lists /\ Count(r) = Count(s) /\ Count(s) \in Nat
  /\ \A row \in 1..Count(s) : \A col \in Cols :
        InPlace(columns, row, col, Expression(s, row, col), Expression(r, row, col))

(* A tree whose calls can all be replaced.                                 *)
LEMMA SafeCells ==
  ASSUME NEW tree, UnsafeCalls(tree) = {}
  PROVE  /\ \A i \in DOMAIN tree.rows : \A j \in DOMAIN tree.rows[i] :
               /\ tree.rows[i][j] # SubRandom
               /\ tree.rows[i][j] = Random => tree.source = "values"
         /\ tree.upsert = "update" => tree.set # SubRandom
<1>1. \A c \in Cells(tree) : PerEvaluation(c) => SafeContext(tree, c)
  BY DEF UnsafeCalls
<1>2. \A c \in Cells(tree) : c # SubRandom /\ (c = Random => tree.source = "values")
  BY <1>1 DEF PerEvaluation, SafeContext
<1>3. ASSUME NEW i \in DOMAIN tree.rows, NEW j \in DOMAIN tree.rows[i]
      PROVE  tree.rows[i][j] \in Cells(tree)
  <2> DEFINE sets == {ToSet(tree.rows[k]) : k \in DOMAIN tree.rows}
  <2>1. tree.rows[i][j] \in ToSet(tree.rows[i])
    BY DEF ToSet
  <2>2. ToSet(tree.rows[i]) \in sets
    OBVIOUS
  <2>3. tree.rows[i][j] \in UNION sets
    BY <2>1, <2>2
  <2>4. UNION sets \subseteq Cells(tree)
    BY Zenon DEF Cells
  <2> HIDE DEF sets
  <2> QED
    BY <2>3, <2>4
<1>4. tree.upsert = "update" => tree.set \in Cells(tree)
  <2> DEFINE one == {c \in {tree.set} : tree.upsert = "update"}
             many == UNION {ToSet(tree.rows[i]) : i \in DOMAIN tree.rows}
  <2>1. Cells(tree) = many \cup one
    BY Zenon DEF Cells
  <2>2. tree.upsert = "update" => tree.set \in one
    BY Zenon
  <2> HIDE DEF one, many
  <2> QED
    BY <2>1, <2>2
<1> QED
  BY <1>2, <1>3, <1>4

(* The number of rows a statement leaves.                                  *)
LEMMA CountIs ==
  ASSUME NEW s \in Statements
  PROVE  Count(s) \in Nat
BY StatementFacts DEF Count

(* The values of a row, and the ones in their place.                       *)
CellKept(s, r, columns) ==
  \A i \in 1..Len(s.rows) : \A j \in 1..Len(s.rows[i]) : \A row, col :
     (s.source = "values" => row = i /\ j \in 1..Len(columns) /\ columns[j] = col) =>
       InPlace(columns, row, col, s.rows[i][j], r.rows[i][j])

(* The rows of a tree have a literal in the place of every call.           *)
LEMMA CellsKept ==
  ASSUME NEW s \in Statements, default \in Defaults, NEW text, NEW tree \in Trees(text, s),
         UnsafeCalls(tree) = {}, Omitted(tree) => tree.source = "values",
         NEW r, r.rows = Final(tree).rows, NEW columns
  PROVE  CellKept(s, r, columns)
<1> SUFFICES ASSUME NEW i \in 1..Len(s.rows), NEW row, NEW j \in 1..Len(s.rows[i]), NEW col,
                    s.source = "values" => row = i /\ j \in 1..Len(columns) /\ columns[j] = col
             PROVE  InPlace(columns, row, col, s.rows[i][j], r.rows[i][j])
  BY DEF CellKept
<1> DEFINE e == s.rows[i][j]
           n == (i - 1) * 2 + j
<1>1. FinalRow(s, tree, Final(tree), i)
  BY FinalFacts
<1>2. r.rows[i][j] = Evaluated(e, n) /\ n \in 1..Len(Fresh) /\ e \in Text /\ Written(e)
  BY <1>1 DEF FinalRow
<1>3. tree.rows = s.rows /\ tree.source = s.source
  BY TreeFacts DEF Alike
<1>4. i \in DOMAIN s.rows /\ j \in DOMAIN s.rows[i]
  <2>1. Shaped(s)
    BY StatementFacts
  <2> QED
    BY <2>1, RowPiece
<1>5. e # SubRandom /\ (e = Random => s.source = "values")
  BY <1>3, <1>4, SafeCells
<1>6. e = Random /\ col # "set" => \E k \in 1..Len(columns) : n = (row - 1) * 2 + k /\ columns[k] = col
  BY <1>5
<1> HIDE DEF e, n
<1>7. InPlace(columns, row, col, e, Evaluated(e, n))
  BY <1>2, <1>5, <1>6, EvaluatedInPlace
<1> QED
  BY <1>2, <1>7 DEF e

(* The columns of what is written.                                         *)
LEMMA ChangedColumns ==
  ASSUME NEW s \in Statements, default \in Defaults, NEW tree, NEW compatible,
         Origin(s, tree, compatible), Omitted(tree) => tree.source = "values",
         NEW r, OutFields(s, tree, compatible, r)
  PROVE  /\ ~Omitted(tree) => Columns(r) = Columns(s)
         /\ Omitted(tree) => Columns(s) = <<"c">> /\ Columns(r) = <<"c", "d">> /\ s.source = "values"
         /\ r.source = s.source /\ s.source \in {"values", "select", "update"}
         /\ tree.columns = s.columns /\ Columns(tree) = Columns(s) /\ Len(r.rows) = Len(s.rows)
         /\ (s.source # "update" => tree.verb # "UPDATE")
<1>1. PICK text : tree \in Trees(text, s)
  BY OriginFacts
<1>2. tree \in Records /\ Alike(tree, s) /\ Parses(tree) /\ tree.rows = s.rows /\ (tree.verb = "UPDATE" => s.verb = "UPDATE")
  BY <1>1, TreeFacts
<1>3. tree.columns = s.columns /\ tree.source = s.source
  BY <1>2 DEF Alike
<1>4. FinalFields(s, tree, Final(tree))
  BY <1>1, FinalFacts
<1>5. /\ Final(tree).source = tree.source /\ Len(Final(tree).rows) = Len(s.rows)
      /\ Omitted(tree) => tree.columns = <<"c">> /\ Final(tree).columns = <<"c", "d">>
      /\ ~Omitted(tree) => Final(tree).columns = tree.columns
  BY <1>4 DEF FinalFields
<1>6. r.columns = Final(tree).columns /\ r.source = Final(tree).source /\ r.rows = Final(tree).rows
  BY DEF OutFields
<1>7. s.source \in {"values", "select", "update"}
  BY <1>2, <1>3, RecordFacts DEF Parses
<1>8. Columns(tree) = Columns(s)
  BY <1>3 DEF Columns
<1>9. ~Omitted(tree) => Columns(r) = Columns(s)
  BY <1>3, <1>5, <1>6 DEF Columns
<1>10. Omitted(tree) => Columns(s) = <<"c">> /\ Columns(r) = <<"c", "d">>
  BY <1>3, <1>5, <1>6 DEF Columns
<1>11. s.verb = "UPDATE" <=> s.source = "update"
  BY StatementFacts
<1> QED
  BY <1>2, <1>3, <1>5, <1>6, <1>7, <1>8, <1>9, <1>10, <1>11

(* A row has a value for every column of the list.                         *)
LEMMA RowLength ==
  ASSUME NEW s \in Statements, s.source # "update", NEW i \in 1..Len(s.rows)
  PROVE  Len(s.rows[i]) = Len(Columns(s))
BY StatementFacts

(* What is written in place of a statement gives the same values, with     *)
(* literals for the calls.                                                 *)
LEMMA ChangedValues ==
  ASSUME NEW s \in Statements, default \in Defaults, NEW tree, NEW compatible,
         Origin(s, tree, compatible), Changes(tree, compatible),
         NEW r, OutFields(s, tree, compatible, r)
  PROVE  \E columns : SameValues(s, r, columns)
<1> DEFINE omitted == Omitted(tree)
           columns == IF omitted THEN <<"c", "d">> ELSE Columns(s)
<1>1. PICK text : tree \in Trees(text, s)
  BY OriginFacts
<1>2. UnsafeCalls(tree) = {} /\ (omitted => tree.source = "values")
  BY DEF Changes
<1>3. /\ ~omitted => Columns(r) = Columns(s)
      /\ omitted => Columns(s) = <<"c">> /\ Columns(r) = <<"c", "d">> /\ s.source = "values"
      /\ r.source = s.source /\ s.source \in {"values", "select", "update"}
      /\ Columns(tree) = Columns(s) /\ Len(r.rows) = Len(s.rows)
      /\ (s.source # "update" => tree.verb # "UPDATE")
  BY <1>2, ChangedColumns
<1>4. r.rows = Final(tree).rows /\ r.set = Final(tree).set
  BY DEF OutFields
<1>5. CellKept(s, r, columns)
  BY <1>1, <1>2, <1>4, CellsKept
<1>6. r.upsert = s.upsert /\ tree.upsert = s.upsert /\ (s.upsert = "update" => tree.set = s.set)
  BY MeaningKept
<1>7. s \in Records /\ Len(s.rows) \in Nat /\ 2 * Len(s.rows) + 1 <= Len(Fresh) /\ Len(Fresh) \in Nat
  BY StatementFacts
<1>8. default \in Text /\ Written(default) /\ default # SubRandom
  BY DefaultFacts
<1>9. columns \in Lists /\ Columns(s) \in Lists
  BY <1>7, ColumnsAre DEF Lists
<1>10. Count(r) = Count(s) /\ Count(s) \in Nat /\ (s.source = "values" => Count(s) = Len(s.rows))
  BY <1>3, CountIs DEF Count
<1>11. ASSUME NEW row PROVE InPlace(columns, row, "set", Expression(s, row, "set"), Expression(r, row, "set"))
  <2>1. /\ Expression(s, row, "set") = Optional(s.upsert = "update", s.set)
        /\ Expression(r, row, "set") = Optional(r.upsert = "update", r.set)
    BY ExpressionIs
  <2>2. CASE s.upsert = "update"
    <3>1. Expression(s, row, "set") = s.set /\ Expression(r, row, "set") = r.set
      BY <1>6, <2>1, <2>2 DEF Optional
    <3>2. s.set \in Text /\ Written(s.set)
      BY <1>7, RecordFacts, StatementFacts
    <3>3. s.set # SubRandom
      BY <1>2, <1>6, <2>2, SafeCells
    <3> DEFINE n == 2 * Len(s.rows) + 1
    <3>4. r.set = Evaluated(s.set, n)
      <4>1. FinalFields(s, tree, Final(tree))
        BY <1>1, <1>2, FinalFacts
      <4> QED
        BY <1>4, <1>6, <2>2, <4>1 DEF FinalFields
    <3>5. n \in 1..Len(Fresh)
      BY <1>7
    <3> HIDE DEF n, columns
    <3>6. InPlace(columns, row, "set", s.set, Evaluated(s.set, n))
      BY <3>2, <3>3, <3>5, EvaluatedInPlace
    <3> QED
      BY <3>1, <3>4, <3>6
  <2>3. CASE s.upsert # "update"
    <3>1. Expression(s, row, "set") = <<>> /\ Expression(r, row, "set") = <<>>
      BY <1>6, <2>1, <2>3 DEF Optional
    <3> QED
      BY <3>1, EmptyInPlace
  <2> QED
    BY <2>2, <2>3
<1> HIDE DEF columns
<1>12. ASSUME NEW row \in 1..Count(s), NEW col \in {"c", "d"}
       PROVE  InPlace(columns, row, col, Expression(s, row, col), Expression(r, row, col))
  <2> DEFINE e == Expression(s, row, col)
             x == Expression(r, row, col)
  <2>1. CASE s.source = "update"
    <3>1. e = Optional(col = "c", s.rows[1][1]) /\ x = Optional(col = "c", r.rows[1][1])
      BY <1>3, <2>1, ExpressionIs
    <3>2. CASE col = "c"
      <4>1. Len(s.rows) = 1 /\ Len(s.rows[1]) = 1
        BY <2>1, StatementFacts
      <4>2. 1 \in 1..Len(s.rows) /\ 1 \in 1..Len(s.rows[1])
        BY <4>1
      <4>3. InPlace(columns, row, col, s.rows[1][1], r.rows[1][1])
        BY <1>5, <2>1, <4>2 DEF CellKept
      <4> QED
        BY <3>1, <3>2, <4>3 DEF Optional
    <3>3. CASE col # "c"
      <4>1. e = <<>> /\ x = <<>>
        BY <3>1, <3>3 DEF Optional
      <4> HIDE DEF e, x
      <4> QED
        BY <4>1, EmptyInPlace DEF e, x
    <3> QED
      BY <3>2, <3>3
  <2>2. CASE s.source # "update" /\ col \notin ToSet(Columns(s))
    <3>1. e = Optional(col = "d", default)
      BY <2>2, ExpressionIs
    <3>2. CASE ~omitted
      <4>1. x = Optional(col = "d", default)
        BY <1>3, <2>2, <3>2, ExpressionIs
      <4>2. CASE col = "d"
        <5>1. e = default /\ x = default
          BY <3>1, <4>1, <4>2 DEF Optional
        <5>2. Settled(default)
          BY <1>3, <2>2, <3>2, <4>2 DEF Omitted, NeedsDefault, Settled
        <5>3. InPlace(columns, row, col, default, default)
          BY <1>8, <5>2, SettledInPlace
        <5> QED
          BY <5>1, <5>3
      <4>3. CASE col # "d"
        <5>1. e = <<>> /\ x = <<>>
          BY <3>1, <4>1, <4>3 DEF Optional
        <5> HIDE DEF e, x
        <5> QED
          BY <5>1, EmptyInPlace DEF e, x
      <4> QED
        BY <4>2, <4>3
    <3>3. CASE omitted
      <4>1. col = "d" /\ Columns(r) = <<"c", "d">> /\ s.source = "values" /\ r.source = "values"
        BY <1>3, <2>2, <3>3, PlacesApart
      <4>2. e = default
        BY <3>1, <4>1 DEF Optional
      <4>3. x = r.rows[row][2]
        BY <4>1, ExpressionIs, PlacesApart
      <4>4. row \in 1..Len(s.rows)
        BY <1>10, <4>1
      <4>5. r.rows[row][2] = Evaluated(default, row * 2) /\ row * 2 \in 1..Len(Fresh)
        <5>1. FinalRow(s, tree, Final(tree), row)
          BY <1>1, <1>2, <4>4, FinalFacts
        <5> QED
          BY <1>4, <3>3, <5>1 DEF FinalRow
      <4>6. columns = <<"c", "d">>
        BY <3>3 DEF columns
      <4>7. 2 \in 1..Len(columns) /\ columns[2] = col /\ row * 2 = (row - 1) * 2 + 2
        BY <4>1, <4>4, <4>6
      <4> HIDE DEF e, x
      <4>8. InPlace(columns, row, col, default, Evaluated(default, row * 2))
        BY <1>8, <4>5, <4>7, EvaluatedInPlace
      <4> QED
        BY <4>2, <4>3, <4>5, <4>8 DEF e, x
    <3> QED
      BY <3>2, <3>3
  <2>3. CASE s.source # "update" /\ col \in ToSet(Columns(s))
    <3> DEFINE j == Place(Columns(s), col)
    <3>1. j \in 1..Len(Columns(s)) /\ Columns(s)[j] = col
      BY <1>9, <2>3, PlaceIs
    <3>2. col \in ToSet(Columns(r)) /\ Place(Columns(r), col) = j /\ j \in 1..Len(columns) /\ columns[j] = col
      <4>1. CASE ~omitted
        BY <1>3, <2>3, <3>1, <4>1 DEF columns
      <4>2. CASE omitted
        <5>1. Columns(s) = <<"c">> /\ Columns(r) = <<"c", "d">> /\ columns = <<"c", "d">>
          BY <1>3, <4>2 DEF columns
        <5>2. col = "c"
          BY <2>3, <5>1, PlacesApart
        <5>3. j = 1 /\ Place(Columns(r), col) = 1 /\ col \in ToSet(Columns(r))
          BY <5>1, <5>2, PlacesApart
        <5> HIDE DEF j
        <5> QED
          BY <5>1, <5>2, <5>3
      <4> QED
        BY <4>1, <4>2
    <3> HIDE DEF j
    <3>3. CASE s.source = "values"
      <4>1. e = s.rows[row][j] /\ x = r.rows[row][j]
        BY <1>3, <2>3, <3>2, <3>3, ExpressionIs DEF j
      <4>2. row \in 1..Len(s.rows)
        BY <1>10, <3>3
      <4>3. j \in 1..Len(s.rows[row])
        BY <3>1, <3>3, <4>2, RowLength
      <4>4. InPlace(columns, row, col, s.rows[row][j], r.rows[row][j])
        BY <1>5, <3>2, <4>2, <4>3 DEF CellKept
      <4> QED
        BY <4>1, <4>4
    <3>4. CASE s.source = "select"
      <4>1. e = s.rows[1][j] /\ x = r.rows[1][j]
        BY <1>3, <2>3, <3>2, <3>4, ExpressionIs DEF j
      <4>2. 1 \in 1..Len(s.rows)
        <5>1. Len(s.rows) = 1
          BY <3>4, StatementFacts
        <5> QED
          BY <5>1
      <4>3. j \in 1..Len(s.rows[1])
        BY <3>1, <3>4, <4>2, RowLength
      <4>4. InPlace(columns, row, col, s.rows[1][j], r.rows[1][j])
        BY <1>5, <3>4, <4>2, <4>3 DEF CellKept
      <4> QED
        BY <4>1, <4>4
    <3> QED
      BY <1>3, <2>3, <3>3, <3>4
  <2> QED
    BY <2>1, <2>2, <2>3
<1>13. SameValues(s, r, columns)
  BY <1>9, <1>10, <1>11, <1>12 DEF SameValues, Cols
<1> QED
  BY <1>13

(* The literal that DEFAULT VALUES becomes is in the place of the DEFAULT. *)
LEMMA DefaultValuesSame ==
  ASSUME NEW s \in Statements, default \in Defaults, s.source = "default", NEW r, MadeDefault(s, r)
  PROVE  SameValues(s, r, <<"c", "d">>) /\ Meaning(r) = Meaning(s)
<1> DEFINE both == <<"c", "d">>
<1>1. both \in Lists /\ Len(both) = 2 /\ both[2] = "d"
  BY DEF Lists
<1>2. s.upsert = "none" /\ s.verb # "UPDATE"
  BY StatementFacts
<1>3. /\ r.verb = s.verb /\ r.clause = s.clause /\ r.upsert = "none" /\ r.where = s.where
      /\ r.columns = <<"d">> /\ r.source = "values" /\ Len(r.rows) = 1
      /\ r.rows[1][1] = Evaluated(default, 2)
  BY DEF MadeDefault
<1>4. Meaning(r) = Meaning(s)
  BY <1>2, <1>3 DEF Meaning
<1>5. Count(r) = 1 /\ Count(s) = 1
  BY <1>3 DEF Count
<1>6. Columns(r) = <<"d">>
  <2>1. Len(r.columns) = 1 /\ Len(<<>>) = 0
    BY <1>3
  <2> QED
    BY <1>3, <2>1 DEF Columns
<1>7. default \in Text /\ Written(default) /\ default # SubRandom
  BY DefaultFacts
<1>8. 2 \in 1..Len(Fresh)
  <2>1. Len(Fresh) \in Nat /\ Len(Fresh) >= 2
    BY FreshFacts, FreshAssumption
  <2> QED
    BY <2>1
<1> HIDE DEF both
<1>9. ASSUME NEW row \in 1..1
      PROVE  InPlace(both, row, "set", Expression(s, row, "set"), Expression(r, row, "set"))
  <2>1. Expression(s, row, "set") = <<>> /\ Expression(r, row, "set") = <<>>
    BY <1>2, <1>3, ExpressionIs DEF Optional
  <2> QED
    BY <2>1, EmptyInPlace
<1>10. ASSUME NEW row \in 1..1
       PROVE  InPlace(both, row, "c", Expression(s, row, "c"), Expression(r, row, "c"))
  <2>1. "c" \notin ToSet(Columns(r))
    BY <1>6, PlacesApart
  <2>2. Expression(s, row, "c") = Optional("c" = "d", default) /\ Expression(r, row, "c") = Optional("c" = "d", default)
    BY <1>3, <2>1, ExpressionIs
  <2>3. Expression(s, row, "c") = <<>> /\ Expression(r, row, "c") = <<>>
    BY <2>2 DEF Optional
  <2> QED
    BY <2>3, EmptyInPlace
<1>11. ASSUME NEW row \in 1..1
       PROVE  InPlace(both, row, "d", Expression(s, row, "d"), Expression(r, row, "d"))
  <2>1. row = 1
    OBVIOUS
  <2>2. "d" \in ToSet(Columns(r)) /\ Place(Columns(r), "d") = 1
    BY <1>6, PlacesApart
  <2>3. Expression(r, row, "d") = Evaluated(default, 2)
    BY <1>3, <2>1, <2>2, ExpressionIs
  <2>4. Expression(s, row, "d") = Optional("d" = "d", default)
    BY ExpressionIs
  <2>5. Expression(s, row, "d") = default
    BY <2>4 DEF Optional
  <2>6. 2 \in 1..Len(both) /\ both[2] = "d" /\ 2 = (row - 1) * 2 + 2
    BY <1>1, <2>1
  <2>7. InPlace(both, row, "d", default, Evaluated(default, 2))
    BY <1>7, <1>8, <2>6, EvaluatedInPlace
  <2> QED
    BY <2>3, <2>5, <2>7
<1>12. \A row \in 1..1 : \A col \in Cols :
          InPlace(both, row, col, Expression(s, row, col), Expression(r, row, col))
  BY <1>9, <1>10, <1>11 DEF Cols
<1>13. SameValues(s, r, both)
  BY <1>1, <1>5, <1>12 DEF SameValues
<1> QED
  BY <1>4, <1>13 DEF both

(* A value that is not evaluated again is left as it is.                   *)
LEMMA SettledValue ==
  ASSUME NEW x, Settled(x), NEW time, NEW p
  PROVE  Value(time, p, x) = x
BY DEF Settled, Nondeterministic, Value

(* What leaves the same values whenever it runs.                           *)
LEMMA SettledOutcome ==
  ASSUME NEW r, \A p \in Points(r) : Settled(At(r, p))
  PROVE  Outcome(r, "first") = Outcome(r, "later")
<1>1. \A p \in Points(r) : Value("first", p, At(r, p)) = Value("later", p, At(r, p))
  BY SettledValue
<1>2. Outcome(r, "first") = [p \in Points(r) |-> Value("first", p, At(r, p))]
  BY OutcomeIs
<1>3. Outcome(r, "later") = [p \in Points(r) |-> Value("later", p, At(r, p))]
  BY OutcomeIs
<1> QED
  BY <1>1, <1>2, <1>3

(* A value of a statement is at a row and a column.                        *)
LEMMA PointIs ==
  ASSUME NEW s, NEW p \in Points(s)
  PROVE  \E row \in 1..Count(s), col \in Cols : p = <<row, col>> /\ At(s, p) = Expression(s, row, col)
<1>1. PICK row \in 1..Count(s), col \in Cols : p = <<row, col>>
  BY DEF Points
<1>2. p[1] = row /\ p[2] = col
  BY <1>1
<1> QED
  BY <1>1, <1>2 DEF At

(* Literals in the place of the calls are the same whenever they run.      *)
LEMMA SameSettled ==
  ASSUME NEW s, NEW r, NEW columns, SameValues(s, r, columns)
  PROVE  Outcome(r, "first") = Outcome(r, "later")
<1>1. Count(r) = Count(s)
  BY DEF SameValues
<1>2. ASSUME NEW p \in Points(r) PROVE Settled(At(r, p))
  <2>1. PICK row \in 1..Count(r), col \in Cols : p = <<row, col>> /\ At(r, p) = Expression(r, row, col)
    BY PointIs
  <2>2. InPlace(columns, row, col, Expression(s, row, col), Expression(r, row, col))
    BY <1>1, <2>1 DEF SameValues
  <2> QED
    BY <2>1, <2>2, InPlaceSettled
<1> QED
  BY <1>2, SettledOutcome

-----------------------------------------------------------------------------
(* Values that are equal or differ where they did.                         *)
SameDifferences(s, r) ==
  LET was == Outcome(s, "first")
      is == Outcome(r, "first")
      compared == {p \in DOMAIN was : p[2] = "set" => ~PerEvaluation(s.set)}
  IN  /\ DOMAIN is = DOMAIN was
      /\ \A p \in compared :
            /\ Outcome(s, "later")[p] = was[p] => is[p] = was[p]
            /\ \A q \in compared : (was[p] = was[q]) <=> (is[p] = is[q])

(* The kind of one value of a statement and of what replaces it.           *)
OneOfKinds(columns, p, v, x) ==
  \/ PlainKind(v, x)
  \/ ClockKind(v, x)
  \/ \E j : RandomKind(columns, p[1], p[2], j, v, x)

(* Every value that is compared is of one of the kinds.                    *)
LEMMA KindAt ==
  ASSUME NEW s, NEW r, NEW columns, SameValues(s, r, columns),
         NEW p \in Points(s), p[2] = "set" => ~PerEvaluation(s.set)
  PROVE  /\ OneOfKinds(columns, p, Value("first", p, At(s, p)), At(r, p))
         /\ Value("later", p, At(s, p)) = Value("first", p, At(s, p)) =>
              Value("first", p, At(s, p)) = At(r, p)
         /\ Value("first", p, At(r, p)) = At(r, p)
<1>1. PICK row \in 1..Count(s), col \in Cols : p = <<row, col>> /\ At(s, p) = Expression(s, row, col)
  BY PointIs
<1>2. p[1] = row /\ p[2] = col
  BY <1>1
<1>3. At(r, p) = Expression(r, row, col)
  BY <1>2 DEF At
<1> DEFINE e == Expression(s, row, col)
           x == Expression(r, row, col)
<1>4. InPlace(columns, row, col, e, x) /\ columns \in Lists
  BY DEF SameValues
<1>5. row \in Nat \ {0}
  BY DEF SameValues
<1>6. col = "set" => ~PerEvaluation(e)
  <2>1. CASE col = "set"
    <3>1. e = Optional(s.upsert = "update", s.set)
      BY <2>1, ExpressionIs
    <3>2. ~PerEvaluation(<<>>)
      BY LiteralsSettled DEF Settled, Nondeterministic
    <3>3. e = s.set \/ e = <<>>
      BY <3>1 DEF Optional
    <3> HIDE DEF e
    <3> QED
      BY <1>2, <2>1, <3>2, <3>3
  <2> QED
    BY <2>1
<1> HIDE DEF e, x
<1>7. /\ OneOfKinds(columns, <<row, col>>, Value("first", <<row, col>>, e), x)
      /\ Value("later", <<row, col>>, e) = Value("first", <<row, col>>, e) =>
           PlainKind(Value("first", <<row, col>>, e), x)
  BY <1>1, <1>2, <1>4, <1>5, <1>6, Kinds DEF OneOfKinds
<1>8. Value("first", p, x) = x
  BY <1>4, InPlaceSettled, SettledValue
<1> QED
  BY <1>1, <1>3, <1>7, <1>8 DEF e, x, PlainKind

(* Whether two values are equal shows in what replaces them.               *)
LEMMA KindsTell ==
  ASSUME NEW columns \in Lists, NEW p, NEW q, NEW v, NEW x, NEW w, NEW y,
         OneOfKinds(columns, p, v, x), OneOfKinds(columns, q, w, y)
  PROVE  v = w <=> x = y
<1>1. CASE PlainKind(v, x) \/ ClockKind(v, x)
  <2>1. CASE PlainKind(w, y) \/ ClockKind(w, y)
    BY <1>1, <2>1, KindsApart
  <2>2. CASE \E j : RandomKind(columns, q[1], q[2], j, w, y)
    BY <1>1, <2>2, KindsApart
  <2> QED
    BY <2>1, <2>2 DEF OneOfKinds
<1>2. CASE \E j : RandomKind(columns, p[1], p[2], j, v, x)
  <2>1. PICK j : RandomKind(columns, p[1], p[2], j, v, x)
    BY <1>2
  <2>2. CASE PlainKind(w, y) \/ ClockKind(w, y)
    BY <2>1, <2>2, KindsApart
  <2>3. CASE \E k : RandomKind(columns, q[1], q[2], k, w, y)
    <3>1. PICK k : RandomKind(columns, q[1], q[2], k, w, y)
      BY <2>3
    <3> QED
      BY <2>1, <3>1, KindsApart
  <2> QED
    BY <2>2, <2>3 DEF OneOfKinds
<1> QED
  BY <1>1, <1>2 DEF OneOfKinds

(* So the differences a statement makes are kept.                          *)
LEMMA DifferencesKept ==
  ASSUME NEW s, NEW r, NEW columns, SameValues(s, r, columns)
  PROVE  SameDifferences(s, r)
<1> DEFINE was == Outcome(s, "first")
           is == Outcome(r, "first")
           later == Outcome(s, "later")
           compared == {p \in DOMAIN was : p[2] = "set" => ~PerEvaluation(s.set)}
<1>1. Points(r) = Points(s)
  BY DEF Points, SameValues
<1>2. /\ was = [p \in Points(s) |-> Value("first", p, At(s, p))]
      /\ later = [p \in Points(s) |-> Value("later", p, At(s, p))]
      /\ is = [p \in Points(s) |-> Value("first", p, At(r, p))]
  BY <1>1, OutcomeIs
<1> HIDE DEF was, is, later
<1>3. DOMAIN is = DOMAIN was
  BY <1>2
<1>4. ASSUME NEW p \in compared
      PROVE  /\ OneOfKinds(columns, p, was[p], is[p])
             /\ later[p] = was[p] => is[p] = was[p]
  <2>1. p \in Points(s) /\ (p[2] = "set" => ~PerEvaluation(s.set))
    BY <1>2
  <2>2. was[p] = Value("first", p, At(s, p)) /\ later[p] = Value("later", p, At(s, p))
        /\ is[p] = Value("first", p, At(r, p))
    BY <1>2, <2>1
  <2> QED
    BY <2>1, <2>2, KindAt
<1>5. columns \in Lists
  BY DEF SameValues
<1>6. ASSUME NEW p \in compared, NEW q \in compared PROVE (was[p] = was[q]) <=> (is[p] = is[q])
  BY <1>4, <1>5, KindsTell
<1> QED
  BY <1>3, <1>4, <1>6 DEF SameDifferences, was, is, later

(* A statement makes the differences it makes.                             *)
LEMMA DifferencesOwn ==
  ASSUME NEW s
  PROVE  SameDifferences(s, s)
BY DEF SameDifferences

-----------------------------------------------------------------------------
(* What is logged as safe: the statement itself, when nothing in it is     *)
(* evaluated, or what replaces it.                                         *)
SafeAsIs(s, e) ==
  /\ e.replay = Render(s)
  /\ \/ s.source = "default" /\ ~Nondeterministic(default)
     \/ \E tree, compatible : Origin(s, tree, compatible) /\ Kept(tree)
SafeReplaced(s, e) ==
  \E m, r, columns : /\ ReadsAs(s, m, r, e.replay) /\ SameValues(s, r, columns)
                     /\ Meaning(r) = Meaning(s)

(* What is logged as safe is one of the two.                               *)
LEMMA SafeEntry ==
  ASSUME NEW s \in Statements, default \in Defaults, NEW e \in PreparedEntries(s), e.safe
  PROVE  SafeAsIs(s, e) \/ SafeReplaced(s, e)
<1>1. ASSUME e = Blocked(Render(s)) PROVE FALSE
  <2>1. e.safe = FALSE
    BY <1>1 DEF Blocked
  <2> QED
    BY <2>1
<1>2. CASE FromDefault(s, e)
  <2>1. /\ s.source = "default"
        /\ \/ ~Nondeterministic(default) /\ e = Verbatim(Render(s))
           \/ \E r : /\ MadeDefault(s, r) /\ e = Verbatim(Render(r)) /\ Nondeterministic(default)
                     /\ \E m \in Materialized(s) : m \in Records /\ r \in Variants(m)
    BY <1>2, DefaultMade
  <2>2. CASE ~Nondeterministic(default) /\ e = Verbatim(Render(s))
    <3>1. e.replay = Render(s)
      BY <2>2 DEF Verbatim
    <3> QED
      BY <2>1, <2>2, <3>1 DEF SafeAsIs
  <2>3. ASSUME NEW r, MadeDefault(s, r), e = Verbatim(Render(r)),
               NEW m \in Materialized(s), m \in Records, r \in Variants(m)
        PROVE  SafeReplaced(s, e)
    <3>1. ReadsAs(s, m, r, e.replay)
      BY <2>3 DEF Verbatim, ReadsAs, MadeDefault
    <3>2. SameValues(s, r, <<"c", "d">>) /\ Meaning(r) = Meaning(s)
      BY <2>1, <2>3, DefaultValuesSame
    <3> QED
      BY <3>1, <3>2 DEF SafeReplaced
  <2> QED
    BY <2>1, <2>2, <2>3
<1>3. CASE FromTree(s, e)
  <2>1. PICK tree, compatible : Origin(s, tree, compatible) /\ e = EntryOf(Render(s), tree, compatible)
    BY <1>3 DEF FromTree
  <2>2. \/ e = Blocked(Render(s))
        \/ e = Verbatim(Render(s)) /\ Kept(tree)
        \/ e = Verbatim(Rewritten(tree, compatible)) /\ Changes(tree, compatible)
    BY <2>1, EntryOfIs
  <2>3. CASE e = Verbatim(Render(s)) /\ Kept(tree)
    <3>1. e.replay = Render(s)
      BY <2>3 DEF Verbatim
    <3> QED
      BY <2>1, <2>3, <3>1 DEF SafeAsIs
  <2>4. CASE e = Verbatim(Rewritten(tree, compatible)) /\ Changes(tree, compatible)
    <3>1. Omitted(tree) => tree.source = "values"
      BY <2>4 DEF Changes
    <3>2. PICK r : OutFields(s, tree, compatible, r) /\ Rewritten(tree, compatible) = Render(r)
      BY <2>1, <3>1, RewrittenIs
    <3>3. PICK m \in Materialized(s) : m \in Records /\ r \in Variants(m)
      BY <2>1, <3>1, <3>2, OutIsReading
    <3>4. Shaped(r) /\ r.gap = <<"sp">>
      BY <3>2 DEF OutFields
    <3>5. e.replay = Render(r)
      BY <2>4, <3>2 DEF Verbatim
    <3>6. ReadsAs(s, m, r, e.replay)
      BY <3>3, <3>4, <3>5 DEF ReadsAs
    <3>7. Meaning(r) = Meaning(s)
      BY <2>1, <2>4, <3>2, MeaningKept
    <3>8. PICK columns : SameValues(s, r, columns)
      BY <2>1, <2>4, <3>2, ChangedValues
    <3> QED
      BY <3>6, <3>7, <3>8 DEF SafeReplaced
  <2> QED
    BY <1>1, <2>2, <2>3, <2>4
<1> QED
  BY <1>1, <1>2, <1>3, PreparedIs

(* A statement is among the readings of its own text.                      *)
LEMMA OwnReading ==
  ASSUME NEW s \in Statements
  PROVE  ReadsAs(s, s, s, Render(s))
<1>1. s \in Records /\ Shaped(s)
  BY StatementFacts
<1> QED
  BY <1>1, AlikeItself, MaterializedAre DEF ReadsAs

(* The text logged as safe to replay does what the statement would: the    *)
(* same clauses, the same literals, values that are equal or differ where  *)
(* they would have (prepare_logged_sql).                                   *)
THEOREM ReplayKeepsMeaning == Spec => []ReplayMeansOriginal
<1>1. Staged => ReplayMeansOriginal
  <2> SUFFICES ASSUME Staged, stage # "execute", entry.safe
               PROVE  \E r \in ReadAs(entry.replay) : Meaning(r) = Meaning(stmt) /\ SameDifferences(stmt, r)
    BY DEF ReplayMeansOriginal, SameDifferences
  <2>1. stmt \in Statements /\ default \in Defaults /\ entry \in PreparedEntries(stmt)
    BY DEF Staged
  <2>2. SafeAsIs(stmt, entry) \/ SafeReplaced(stmt, entry)
    BY <2>1, SafeEntry
  <2>3. CASE SafeAsIs(stmt, entry)
    <3>1. stmt \in ReadAs(entry.replay)
      BY <2>1, <2>3, OwnReading DEF SafeAsIs, ReadsAs, ReadAs, Readings
    <3> QED
      BY <3>1, DifferencesOwn
  <2>4. CASE SafeReplaced(stmt, entry)
    <3>1. PICK m, r, columns : /\ ReadsAs(stmt, m, r, entry.replay) /\ SameValues(stmt, r, columns)
                               /\ Meaning(r) = Meaning(stmt)
      BY <2>4 DEF SafeReplaced
    <3>2. r \in ReadAs(entry.replay)
      BY <3>1 DEF ReadsAs, ReadAs, Readings
    <3> QED
      BY <3>1, <3>2, DifferencesKept
  <2> QED
    BY <2>2, <2>3, <2>4
<1> QED
  BY <1>1, StagedAlways, PTL

-----------------------------------------------------------------------------
(* What is left in a statement that is kept as it is.                      *)

(* The DEFAULT of a column that is left out is added to the statement.     *)
LEMMA KeptNames ==
  ASSUME NEW s \in Statements, default \in Defaults, NEW text, NEW tree \in Trees(text, s), Final(tree) = tree
  PROVE  ~Omitted(tree)
<1> SUFFICES ASSUME Omitted(tree) PROVE FALSE
  OBVIOUS
<1> DEFINE u == ReplaceCalls(tree)
<1>1. tree \in Records /\ tree.rows = s.rows /\ Written(tree.set)
  BY TreeFacts
<1>2. u \in Records /\ u.columns = tree.columns /\ Len(u.rows) = Len(s.rows)
  BY <1>1, ReplacedFacts
<1>3. tree.columns = <<"c">>
  BY <1>1, OmittedFacts
<1> HIDE DEF u
<1>4. Len(s.rows) \in Nat /\ 2 * Len(s.rows) + 1 <= Len(Fresh) /\ Len(Fresh) \in Nat
  BY StatementFacts
<1>5. 2 * Len(u.rows) <= Len(Fresh)
  BY <1>2, <1>4
<1>6. default \in Text /\ Written(default)
  BY DefaultFacts
<1>7. AppendDefaults(u).columns = Append(u.columns, "d")
  BY <1>2, <1>3, <1>5, <1>6, AppendedFacts
<1>8. Final(tree).columns = <<"c", "d">>
  BY <1>2, <1>3, <1>7, AppendColumn DEF Final, u
<1>9. Len(<<"c">>) = 1 /\ Len(<<"c", "d">>) = 2
  OBVIOUS
<1> QED
  BY <1>3, <1>8, <1>9

(* A call would have become a literal.                                     *)
LEMMA KeptCell ==
  ASSUME NEW e \in Text, Written(e), e # SubRandom, NEW n \in 1..Len(Fresh), e = Evaluated(e, n)
  PROVE  Settled(e)
<1>1. InPlace(<<>>, 1, "set", e, Evaluated(e, n))
  BY EvaluatedInPlace
<1> QED
  BY <1>1, InPlaceSettled

(* Nothing in a statement that is kept is evaluated again.                 *)
LEMMA KeptSettled ==
  ASSUME NEW s \in Statements, default \in Defaults, NEW tree, NEW compatible,
         Origin(s, tree, compatible), Kept(tree),
         s.upsert = "update" /\ Nondeterministic(s.set) => Parses(s)
  PROVE  \A p \in Points(s) : Settled(At(s, p))
<1>1. PICK text : tree \in Trees(text, s)
  BY OriginFacts
<1>2. UnsafeCalls(tree) = {} /\ Final(tree) = tree
  BY DEF Kept
<1>3. ~Omitted(tree)
  BY <1>1, <1>2, KeptNames
<1>4. /\ tree \in Records /\ Alike(tree, s) /\ Parses(tree) /\ tree.rows = s.rows /\ Written(tree.set)
      /\ tree.verb = "UPDATE" => s.verb = "UPDATE"
  BY <1>1, TreeFacts
<1>5. tree.source = s.source /\ tree.columns = s.columns
  BY <1>4 DEF Alike
<1>6. s.source \in {"values", "select", "update"}
  BY <1>4, <1>5, RecordFacts DEF Parses
<1>7. Columns(tree) = Columns(s)
  BY <1>5 DEF Columns
<1>8. ASSUME NEW i \in 1..Len(s.rows), NEW j \in 1..Len(s.rows[i]) PROVE Settled(s.rows[i][j])
  <2> DEFINE e == s.rows[i][j]
             n == (i - 1) * 2 + j
  <2>1. FinalRow(s, tree, tree, i)
    BY <1>1, <1>2, <1>3, FinalFacts
  <2>2. tree.rows[i][j] = Evaluated(e, n) /\ n \in 1..Len(Fresh) /\ e \in Text /\ Written(e)
    BY <2>1 DEF FinalRow
  <2>3. i \in DOMAIN s.rows /\ j \in DOMAIN s.rows[i]
    <3>1. Shaped(s)
      BY StatementFacts
    <3> QED
      BY <3>1, RowPiece
  <2>4. e # SubRandom
    BY <1>2, <1>4, <2>3, SafeCells
  <2>5. e = Evaluated(e, n)
    BY <1>4, <2>2
  <2> HIDE DEF e, n
  <2>6. Settled(e)
    BY <2>2, <2>4, <2>5, KeptCell
  <2> QED
    BY <2>6 DEF e
<1>9. s.upsert = "update" => Settled(s.set)
  <2> SUFFICES ASSUME s.upsert = "update", Nondeterministic(s.set) PROVE FALSE
    BY DEF Settled
  <2>1. Parses(s) /\ s \in Records
    BY StatementFacts
  <2>2. tree \in Trees(Render(s), s)
    BY <2>1, NotParsed DEF Origin
  <2>3. tree.upsert = "update" /\ tree.set = s.set
    <3>1. tree.upsert = s.upsert
      BY <2>2, UntouchedMeaning
    <3> QED
      BY <1>4, <3>1 DEF Alike
  <2>4. s.set # SubRandom
    BY <1>2, <2>3, SafeCells
  <2> DEFINE n == 2 * Len(s.rows) + 1
  <2>5. s.set = Evaluated(s.set, n)
    <3>1. FinalFields(s, tree, tree)
      BY <1>1, <1>2, <1>3, FinalFacts
    <3> QED
      BY <2>3, <3>1 DEF FinalFields
  <2>6. n \in 1..Len(Fresh)
    <3>1. Len(s.rows) \in Nat /\ 2 * Len(s.rows) + 1 <= Len(Fresh) /\ Len(Fresh) \in Nat
      BY StatementFacts
    <3> QED
      BY <3>1
  <2>7. s.set \in Text /\ Written(s.set)
    BY <2>1, RecordFacts, StatementFacts
  <2> HIDE DEF n
  <2>8. Settled(s.set)
    BY <2>4, <2>5, <2>6, <2>7, KeptCell
  <2> QED
    BY <2>8 DEF Settled
<1>10. s.source # "update" /\ "d" \notin ToSet(Columns(s)) => Settled(default)
  <2>1. s.verb = "UPDATE" <=> s.source = "update"
    BY StatementFacts
  <2> QED
    BY <1>3, <1>4, <1>7, <2>1 DEF Omitted, NeedsDefault, Settled
<1>11. s \in Records /\ Columns(s) \in Lists
  BY StatementFacts, ColumnsAre
<1>12. ASSUME NEW row \in 1..Count(s), NEW col \in Cols PROVE Settled(Expression(s, row, col))
  <2>1. CASE col = "set"
    <3>1. Expression(s, row, col) = Optional(s.upsert = "update", s.set)
      BY <2>1, ExpressionIs
    <3> QED
      BY <1>9, <3>1, LiteralsSettled DEF Optional
  <2>2. CASE col # "set" /\ s.source = "update"
    <3>1. Expression(s, row, col) = Optional(col = "c", s.rows[1][1])
      BY <2>2, ExpressionIs DEF Cols
    <3>2. Len(s.rows) = 1 /\ Len(s.rows[1]) = 1
      BY <2>2, StatementFacts
    <3>3. Settled(s.rows[1][1])
      BY <1>8, <3>2
    <3> QED
      BY <3>1, <3>3, LiteralsSettled DEF Optional
  <2>3. CASE col # "set" /\ s.source # "update" /\ col \notin ToSet(Columns(s))
    <3>1. Expression(s, row, col) = Optional(col = "d", default)
      BY <2>3, ExpressionIs DEF Cols
    <3> QED
      BY <1>10, <2>3, <3>1, LiteralsSettled DEF Optional
  <2>4. CASE col # "set" /\ s.source # "update" /\ col \in ToSet(Columns(s))
    <3> DEFINE j == Place(Columns(s), col)
    <3>1. j \in 1..Len(Columns(s))
      BY <1>11, <2>4, PlaceIs
    <3> HIDE DEF j
    <3>2. CASE s.source = "values"
      <4>1. Expression(s, row, col) = s.rows[row][j]
        BY <2>4, <3>2, ExpressionIs DEF Cols, j
      <4>2. row \in 1..Len(s.rows)
        BY <3>2 DEF Count
      <4>3. j \in 1..Len(s.rows[row])
        BY <2>4, <3>1, <4>2, RowLength
      <4> QED
        BY <1>8, <4>1, <4>2, <4>3
    <3>3. CASE s.source = "select"
      <4>1. Expression(s, row, col) = s.rows[1][j]
        BY <2>4, <3>3, ExpressionIs DEF Cols, j
      <4>2. 1 \in 1..Len(s.rows)
        <5>1. Len(s.rows) = 1
          BY <3>3, StatementFacts
        <5> QED
          BY <5>1
      <4>3. j \in 1..Len(s.rows[1])
        BY <2>4, <3>1, <4>2, RowLength
      <4> QED
        BY <1>8, <4>1, <4>2, <4>3
    <3> QED
      BY <1>6, <2>4, <3>2, <3>3
  <2> QED
    BY <2>1, <2>2, <2>3, <2>4
<1>13. ASSUME NEW p \in Points(s) PROVE Settled(At(s, p))
  <2>1. PICK row \in 1..Count(s), col \in Cols : p = <<row, col>> /\ At(s, p) = Expression(s, row, col)
    BY PointIs
  <2> QED
    BY <1>12, <2>1
<1> QED
  BY <1>13

(* DEFAULT VALUES of a constant DEFAULT.                                   *)
LEMMA DefaultSettled ==
  ASSUME NEW s \in Statements, s.source = "default", ~Nondeterministic(default)
  PROVE  \A p \in Points(s) : Settled(At(s, p))
<1>1. s.upsert = "none"
  BY StatementFacts
<1>2. ASSUME NEW row, NEW col \in Cols PROVE Settled(Expression(s, row, col))
  <2>1. CASE col = "set"
    <3>1. Expression(s, row, col) = Optional(s.upsert = "update", s.set)
      BY <2>1, ExpressionIs
    <3> QED
      BY <1>1, <3>1, LiteralsSettled DEF Optional
  <2>2. CASE col # "set"
    <3>1. Expression(s, row, col) = Optional(col = "d", default)
      BY <2>2, ExpressionIs DEF Cols
    <3> QED
      BY <3>1, LiteralsSettled DEF Optional, Settled
  <2> QED
    BY <2>1, <2>2
<1>3. ASSUME NEW p \in Points(s) PROVE Settled(At(s, p))
  <2>1. PICK row \in 1..Count(s), col \in Cols : p = <<row, col>> /\ At(s, p) = Expression(s, row, col)
    BY PointIs
  <2> QED
    BY <1>2, <2>1
<1> QED
  BY <1>3

(* A statement logged as safe to replay leaves the same values whenever it *)
(* runs, but for a DO UPDATE the parser never saw (prepare_logged_sql).    *)
THEOREM SafeReplaySettled == Spec => []SafeIsSettled
<1>1. Staged => SafeIsSettled
  <2> SUFFICES ASSUME Staged, stmt.upsert = "update" /\ Nondeterministic(stmt.set) => Parses(stmt),
                      stage # "execute", entry.safe
               PROVE  \E r \in ReadAs(entry.replay) : Outcome(r, "first") = Outcome(r, "later")
    BY DEF SafeIsSettled, SafeReplaysTheSame
  <2>1. stmt \in Statements /\ default \in Defaults /\ entry \in PreparedEntries(stmt)
    BY DEF Staged
  <2>2. SafeAsIs(stmt, entry) \/ SafeReplaced(stmt, entry)
    BY <2>1, SafeEntry
  <2>3. CASE SafeAsIs(stmt, entry)
    <3>1. stmt \in ReadAs(entry.replay)
      BY <2>1, <2>3, OwnReading DEF SafeAsIs, ReadsAs, ReadAs, Readings
    <3>2. CASE stmt.source = "default" /\ ~Nondeterministic(default)
      <4>1. \A p \in Points(stmt) : Settled(At(stmt, p))
        BY <2>1, <3>2, DefaultSettled
      <4> QED
        BY <3>1, <4>1, SettledOutcome
    <3>3. CASE \E tree, compatible : Origin(stmt, tree, compatible) /\ Kept(tree)
      <4>1. \A p \in Points(stmt) : Settled(At(stmt, p))
        BY <2>1, <3>3, KeptSettled
      <4> QED
        BY <3>1, <4>1, SettledOutcome
    <3> QED
      BY <2>3, <3>2, <3>3 DEF SafeAsIs
  <2>4. CASE SafeReplaced(stmt, entry)
    <3>1. PICK m, r, columns : ReadsAs(stmt, m, r, entry.replay) /\ SameValues(stmt, r, columns)
      BY <2>4 DEF SafeReplaced
    <3>2. r \in ReadAs(entry.replay)
      BY <3>1 DEF ReadsAs, ReadAs, Readings
    <3> QED
      BY <3>1, <3>2, SameSettled
  <2> QED
    BY <2>2, <2>3, <2>4
<1> QED
  BY <1>1, StagedAlways, PTL
=============================================================================
