---------------------------- MODULE TypingProofs ----------------------------
(***************************************************************************)
(* That what the user types is never left without a timer that will send   *)
(* it, that no timer runs for nothing, that what the timer sends has no    *)
(* two edits that could be one, and that it does to the document what the  *)
(* recorded edits did to the text view: for texts and series of every      *)
(* length and every order of inputs.                                       *)
(***************************************************************************)
EXTENDS Typing, DocumentProofs

(***************************************************************************)
(* The inductive invariant.  Whether a callback records, and whether it    *)
(* starts the timer, depends on isSyncing, on the selection changes that   *)
(* are still to be ignored, and on the range that the text view reports    *)
(* being within its text.  A series that raises ends the program: from     *)
(* then on only the types are kept.                                        *)
(***************************************************************************)

TimerHasEdits(u) == u.timer = (u.currentEdit # <<>>)

\* Between two turns of the main thread.
AtRest(u) == IsTextView(u) /\ TimerHasEdits(u) /\ ~u.isSyncing /\ u.sent = <<>>

TypingInv == IsTextView(ui) /\ (~ui.crashed => AtRest(ui))

----------------------------------------------------------------------------
(***************************************************************************)
(* What a series is resolved to                                            *)
(***************************************************************************)

LEMMA TypesOfResolved ==
  ASSUME NEW edits \in Seq(LocalEdit)
  PROVE  [i \in DOMAIN FinalEdits(edits) |-> FinalEdits(edits)[i].type]
           \in { <<>>, <<"CURSOR">>, <<"REMOVE">>, <<"INSERT">>,
                 <<"REMOVE", "INSERT">>, <<"CURSOR", "REMOVE">>,
                 <<"CURSOR", "INSERT">>, <<"CURSOR", "REMOVE", "INSERT">> }
<1>. DEFINE Types(s) == [i \in DOMAIN s |-> s[i].type]
<1>1. PICK moved, found :
        /\ moved = <<>> \/ \E c \in LocalEdit : IsCursor(c) /\ moved = <<c>>
        /\ found \in Found
        /\ FinalEdits(edits) = moved \o found
  BY ResolvedFound
<1>2. \A x, y, z :
        /\ Types(<<>>) = <<>>
        /\ Types(<<x>>) = <<x.type>>
        /\ Types(<<x, y>>) = <<x.type, y.type>>
        /\ Types(<<x, y, z>>) = <<x.type, y.type, z.type>>
  OBVIOUS
<1>3. \A x, y, z :
        /\ <<>> \o <<>> = <<>> /\ <<>> \o <<x>> = <<x>> /\ <<>> \o <<x, y>> = <<x, y>>
        /\ <<x>> \o <<>> = <<x>> /\ <<x>> \o <<y>> = <<x, y>>
        /\ <<x>> \o <<y, z>> = <<x, y, z>>
  <2>. TAKE x, y, z
  <2>. DEFINE S == {x, y, z}
  <2>1. /\ <<>> \in Seq(S) /\ <<x>> \in Seq(S) /\ <<y>> \in Seq(S)
        /\ <<x, y>> \in Seq(S) /\ <<y, z>> \in Seq(S) /\ <<x, y, z>> \in Seq(S)
        /\ Len(<<x>>) = 1 /\ Len(<<y>>) = 1 /\ Len(<<x, y>>) = 2 /\ Len(<<y, z>>) = 2
        /\ Len(<<x, y, z>>) = 3
        /\ <<x>>[1] = x /\ <<y>>[1] = y /\ <<x, y>>[1] = x /\ <<x, y>>[2] = y
        /\ <<y, z>>[1] = y /\ <<y, z>>[2] = z
        /\ <<x, y, z>>[1] = x /\ <<x, y, z>>[2] = y /\ <<x, y, z>>[3] = z
    OBVIOUS
  <2>. HIDE DEF S
  <2>2. <<x>> \o <<y>> = <<x, y>>
    <3>. DEFINE s == <<x>> \o <<y>>
    <3>1. s \in Seq(S) /\ Len(s) = 2 /\ s[1] = x /\ s[2] = y
      BY <2>1, ConcatProperties
    <3>. HIDE DEF s
    <3>2. \A i \in 1 .. 2 : s[i] = <<x, y>>[i]
      BY <2>1, <3>1
    <3>. QED  BY <2>1, <3>1, <3>2, SeqEqual DEF s
  <2>3. <<x>> \o <<y, z>> = <<x, y, z>>
    <3>. DEFINE s == <<x>> \o <<y, z>>
    <3>1. s \in Seq(S) /\ Len(s) = 3 /\ s[1] = x /\ s[2] = y /\ s[3] = z
      BY <2>1, ConcatProperties
    <3>. HIDE DEF s
    <3>2. \A i \in 1 .. 3 : s[i] = <<x, y, z>>[i]
      BY <2>1, <3>1
    <3>. QED  BY <2>1, <3>1, <3>2, SeqEqual DEF s
  <2>. QED  BY <2>1, <2>2, <2>3, ConcatEmptySeq
<1>. DEFINE Minimal == { <<>>, <<"CURSOR">>, <<"REMOVE">>, <<"INSERT">>,
                         <<"REMOVE", "INSERT">>, <<"CURSOR", "REMOVE">>,
                         <<"CURSOR", "INSERT">>, <<"CURSOR", "REMOVE", "INSERT">> }
            whole == moved \o found
<1>4. PICK c : moved = <<>> \/ (c.type = "CURSOR" /\ moved = <<c>>)
  BY <1>1 DEF IsCursor
<1>. HIDE DEF Types
<1>5. CASE found = <<>>
  <2>1. whole = <<>> \/ (c.type = "CURSOR" /\ whole = <<c>>)
    BY <1>3, <1>4, <1>5
  <2>2. Types(whole) \in {<<>>, <<"CURSOR">>}
    BY <1>2, <2>1
  <2>. QED  BY <1>1, <2>2 DEF Types
<1>6. CASE \E e \in Removal \cup Insertion : found = <<e>>
  <2>1. PICK e : e.type \in {"REMOVE", "INSERT"} /\ found = <<e>>
    BY <1>6 DEF Removal, Insertion
  <2>2. whole = <<e>> \/ (c.type = "CURSOR" /\ whole = <<c, e>>)
    BY <1>3, <1>4, <2>1
  <2>3. Types(whole) \in {<<"REMOVE">>, <<"INSERT">>, <<"CURSOR", "REMOVE">>,
                          <<"CURSOR", "INSERT">>}
    <3>1. Types(<<e>>) = <<e.type>> /\ Types(<<c, e>>) = <<c.type, e.type>>
      BY <1>2
    <3>2. e.type = "REMOVE" \/ e.type = "INSERT"
      BY <2>1
    <3>. HIDE DEF whole
    <3>. QED  BY <2>2, <3>1, <3>2
  <2>. QED  BY <1>1, <2>3 DEF Types
<1>7. CASE \E x \in Removal, y \in Insertion : found = <<x, y>>
  <2>1. PICK x \in Removal, y \in Insertion : found = <<x, y>>
    BY <1>7
  <2>2. x.type = "REMOVE" /\ y.type = "INSERT"
    BY DEF Removal, Insertion
  <2>3. whole = <<x, y>> \/ (c.type = "CURSOR" /\ whole = <<c, x, y>>)
    <3>1. <<>> \o <<x, y>> = <<x, y>> /\ <<c>> \o <<x, y>> = <<c, x, y>>
      BY <1>3
    <3>. QED  BY <1>4, <2>1, <3>1
  <2>4. Types(whole) \in {<<"REMOVE", "INSERT">>, <<"CURSOR", "REMOVE", "INSERT">>}
    <3>1. Types(<<x, y>>) = <<x.type, y.type>>
          /\ Types(<<c, x, y>>) = <<c.type, x.type, y.type>>
      BY <1>2
    <3>. HIDE DEF whole
    <3>. QED  BY <2>2, <2>3, <3>1
  <2>. QED  BY <1>1, <2>4 DEF Types
<1>8. \/ found = <<>>
      \/ \E e \in Removal \cup Insertion : found = <<e>>
      \/ \E x \in Removal, y \in Insertion : found = <<x, y>>
  BY <1>1 DEF Found
<1>. QED  BY <1>5, <1>6, <1>7, <1>8

----------------------------------------------------------------------------
(***************************************************************************)
(* Replacing twice.  The second range ends where the replacement of the    *)
(* first one does, as that of an input at the cursor: it reaches over all  *)
(* of the replacement, or takes the end off it.                            *)
(***************************************************************************)

LEMMA PrefixElements ==
  ASSUME NEW text \in Text, NEW n \in 0 .. Len(text)
  PROVE  /\ Prefix(text, n) \in Text
         /\ Len(Prefix(text, n)) = n
         /\ \A i \in 1 .. n : Prefix(text, n)[i] = text[i]
<1>1. InRange(text, 0, n)
  BY LenProperties DEF InRange, Text
<1>2. Prefix(text, n) = Substring(text, 0, n)
  BY DEF Prefix, Substring
<1>3. n \in Int /\ 0 \in Int
  BY LenProperties DEF Text
<1>4. /\ Substring(text, 0, n) \in Text /\ Len(Substring(text, 0, n)) = n
      /\ \A i \in 1 .. n : Substring(text, 0, n)[i] = text[0 + i]
  BY <1>1, <1>3, SubstringElements
<1>. QED  BY <1>2, <1>4

LEMMA TextsJoin ==
  ASSUME NEW s \in Text, NEW t \in Text
  PROVE  /\ s \o t \in Text /\ Len(s \o t) = Len(s) + Len(t)
         /\ \A i \in 1 .. Len(s) : (s \o t)[i] = s[i]
         /\ \A i \in 1 .. Len(t) : (s \o t)[Len(s) + i] = t[i]
<1>1. s \in Seq(Char) /\ t \in Seq(Char) /\ Len(s) \in Nat /\ Len(t) \in Nat
  BY LenProperties DEF Text
<1>2. /\ s \o t \in Seq(Char) /\ Len(s \o t) = Len(s) + Len(t)
      /\ \A i \in 1 .. Len(s) + Len(t) :
           (s \o t)[i] = IF i <= Len(s) THEN s[i] ELSE t[i - Len(s)]
  BY <1>1, ConcatProperties
<1>. QED  BY <1>1, <1>2 DEF Text

LEMMA SameText ==
  ASSUME NEW s \in Text, NEW t \in Text, Len(s) = Len(t),
         \A i \in 1 .. Len(s) : s[i] = t[i]
  PROVE  s = t
BY SeqEqual DEF Text

\* What is where, in a text of which a range has been replaced.
IsSpliced(spliced, text, location, length, replacement) ==
  \A i \in 1 .. Len(text) - length + Len(replacement) :
    spliced[i] = IF i <= location THEN text[i]
                 ELSE IF i <= location + Len(replacement) THEN replacement[i - location]
                      ELSE text[i + length - Len(replacement)]

LEMMA SplicedElements ==
  ASSUME NEW text \in Text, NEW location \in Int, NEW length \in Int,
         InRange(text, location, length), NEW replacement \in Text
  PROVE  IsSpliced(Splice(text, location, length, replacement), text, location, length,
                   replacement)
BY SpliceElements DEF IsSpliced

\* A replacement of nothing by nothing.
LEMMA NothingSpliced ==
  ASSUME NEW text \in Text, NEW location \in Int, InRange(text, location, 0)
  PROVE  Splice(text, location, 0, <<>>) = text
<1>1. <<>> \in Text /\ Len(<<>>) = 0 /\ Len(text) \in Nat
  BY EmptySeq, LenProperties DEF Text
<1>. DEFINE none == <<>>
            spliced == Splice(text, location, 0, none)
<1>2. none \in Text /\ Len(none) = 0
  BY <1>1
<1>. HIDE DEF none
<1>3. spliced \in Text /\ Len(spliced) = Len(text)
  BY <1>1, <1>2, SpliceType
<1>4. ASSUME NEW i \in 1 .. Len(text)
      PROVE  spliced[i] = text[i]
  <2>1. i \in 1 .. Len(text) - 0 + Len(none)
    BY <1>1, <1>2
  <2>2. spliced[i] = IF i <= location THEN text[i]
                     ELSE IF i <= location + Len(none) THEN none[i - location]
                          ELSE text[i + 0 - Len(none)]
    BY <2>1, <1>2, SpliceElements
  <2>3. location + Len(none) = location /\ i + 0 - Len(none) = i
    BY <1>2
  <2>. QED  BY <2>2, <2>3
<1>. HIDE DEF spliced
<1>5. spliced = text
  BY <1>3, <1>4, SameText
<1>. QED  BY <1>5 DEF spliced, none

LEMMA SpliceOver ==
  ASSUME NEW text \in Text, NEW location \in Int, NEW length \in Int,
         InRange(text, location, length), NEW inserted \in Text,
         NEW q \in 0 .. location, NEW m \in Int, q + m = location + Len(inserted),
         NEW replacement \in Text
  PROVE  LET spliced == Splice(text, location, length, inserted)
         IN /\ InRange(spliced, q, m)
            /\ Splice(spliced, q, m, replacement)
                 = Splice(text, q, location + length - q, replacement)
<1>. DEFINE spliced == Splice(text, location, length, inserted)
            n == location + length - q
            left == Splice(spliced, q, m, replacement)
            right == Splice(text, q, n, replacement)
            T == Len(text)
            I == Len(inserted)
            R == Len(replacement)
<1>1. T \in Nat /\ I \in Nat /\ R \in Nat
  BY LenProperties DEF Text
<1>2. 0 <= location /\ 0 <= length /\ location + length <= T
  BY DEF InRange
<1>3. spliced \in Text /\ Len(spliced) = T - length + I
  BY SpliceType
<1>4. \A i \in 1 .. T - length + I :
        spliced[i] = IF i <= location THEN text[i]
                     ELSE IF i <= location + I THEN inserted[i - location]
                          ELSE text[i + length - I]
  <2>1. IsSpliced(spliced, text, location, length, inserted)
    BY SplicedElements
  <2>. QED  BY <2>1 DEF IsSpliced
<1>. HIDE DEF spliced
<1>5. InRange(spliced, q, m)
  <2>. HIDE DEF T, I
  <2>. QED  BY <1>1, <1>2, <1>3 DEF InRange, I
<1>6. n \in Int /\ InRange(text, q, n) /\ q \in Int
  BY <1>1, <1>2 DEF InRange
<1>7. left \in Text /\ Len(left) = Len(spliced) - m + R
  BY <1>3, <1>5, <1>6, SpliceType
<1>8. \A i \in 1 .. Len(spliced) - m + R :
        left[i] = IF i <= q THEN spliced[i]
                  ELSE IF i <= q + R THEN replacement[i - q] ELSE spliced[i + m - R]
  <2>1. IsSpliced(left, spliced, q, m, replacement)
    BY <1>3, <1>5, <1>6, SplicedElements
  <2>. QED  BY <2>1 DEF IsSpliced
<1>9. right \in Text /\ Len(right) = T - n + R
  BY <1>6, SpliceType
<1>10. \A i \in 1 .. T - n + R :
         right[i] = IF i <= q THEN text[i]
                    ELSE IF i <= q + R THEN replacement[i - q] ELSE text[i + n - R]
  <2>. HIDE DEF n
  <2>1. n \in Int
    BY <1>6
  <2>2. q \in Int
    BY <1>6
  <2>3. InRange(text, q, n)
    BY <1>6
  <2>4. IsSpliced(right, text, q, n, replacement)
    BY <2>1, <2>2, <2>3, SplicedElements
  <2>. HIDE DEF right
  <2>. QED  BY <2>4 DEF IsSpliced
<1>11. m = location + I - q
  BY <1>1, <1>6
<1>. HIDE DEF left, right, T, I, R
<1>12. Len(left) = Len(right)
  BY <1>1, <1>2, <1>3, <1>7, <1>9, <1>11
<1>13. ASSUME NEW i \in 1 .. Len(left)
       PROVE  left[i] = right[i]
  <2>1. i \in 1 .. Len(spliced) - m + R /\ i \in 1 .. T - n + R
    BY <1>7, <1>9, <1>12, <1>13
  <2>2. CASE i <= q
    <3>1. i \in 1 .. T - length + I /\ i <= location
      BY <1>1, <1>2, <1>3, <1>6, <2>1, <2>2
    <3>. QED  BY <1>4, <1>8, <1>10, <2>1, <2>2, <3>1
  <2>3. CASE ~(i <= q) /\ i <= q + R
    BY <1>8, <1>10, <2>1, <2>3
  <2>4. CASE ~(i <= q) /\ ~(i <= q + R)
    <3>. DEFINE j == i + m - R
    <3>1. /\ j \in 1 .. T - length + I /\ ~(j <= location) /\ ~(j <= location + I)
          /\ j + length - I = i + n - R
      BY <1>1, <1>2, <1>3, <1>6, <1>11, <2>1, <2>4
    <3>2. left[i] = spliced[j]
      BY <1>8, <2>1, <2>4
    <3>. HIDE DEF j, n
    <3>3. spliced[j] = text[j + length - I]
      BY <1>4, <3>1
    <3>4. right[i] = text[i + n - R]
      BY <1>10, <2>1, <2>4
    <3>. QED  BY <3>1, <3>2, <3>3, <3>4
  <2>. QED  BY <2>2, <2>3, <2>4
<1>14. left = right
  BY <1>7, <1>9, <1>12, <1>13, SameText
<1>. QED  BY <1>5, <1>14 DEF left, right, spliced

LEMMA SpliceWithin ==
  ASSUME NEW text \in Text, NEW location \in Int, NEW length \in Int,
         InRange(text, location, length), NEW inserted \in Text,
         NEW k \in 0 .. Len(inserted), NEW replacement \in Text
  PROVE  LET spliced == Splice(text, location, length, inserted)
             m == Len(inserted) - k
         IN /\ InRange(spliced, location + k, m)
            /\ Splice(spliced, location + k, m, replacement)
                 = Splice(text, location, length, Prefix(inserted, k) \o replacement)
<1>. DEFINE spliced == Splice(text, location, length, inserted)
            m == Len(inserted) - k
            q == location + k
            kept == Prefix(inserted, k)
            whole == kept \o replacement
            left == Splice(spliced, q, m, replacement)
            right == Splice(text, location, length, whole)
            T == Len(text)
            I == Len(inserted)
            R == Len(replacement)
<1>1. T \in Nat /\ I \in Nat /\ R \in Nat
  BY LenProperties DEF Text
<1>2. 0 <= location /\ 0 <= length /\ location + length <= T
      /\ k \in Nat /\ k <= I
  BY <1>1 DEF InRange
<1>3. spliced \in Text /\ Len(spliced) = T - length + I
  BY SpliceType
<1>4. \A i \in 1 .. T - length + I :
        spliced[i] = IF i <= location THEN text[i]
                     ELSE IF i <= location + I THEN inserted[i - location]
                          ELSE text[i + length - I]
  <2>1. IsSpliced(spliced, text, location, length, inserted)
    BY SplicedElements
  <2>. QED  BY <2>1 DEF IsSpliced
<1>5. kept \in Text /\ Len(kept) = k /\ \A i \in 1 .. k : kept[i] = inserted[i]
  BY PrefixElements
<1>. HIDE DEF spliced, kept
<1>6. /\ whole \in Text /\ Len(whole) = k + R
      /\ \A i \in 1 .. k : whole[i] = inserted[i]
      /\ \A i \in 1 .. R : whole[k + i] = replacement[i]
  <2>1. /\ whole \in Text /\ Len(whole) = Len(kept) + R
        /\ \A i \in 1 .. Len(kept) : whole[i] = kept[i]
        /\ \A i \in 1 .. R : whole[Len(kept) + i] = replacement[i]
    BY <1>5, TextsJoin
  <2>. HIDE DEF whole
  <2>. QED  BY <1>5, <2>1
<1>. HIDE DEF whole
<1>7. q \in Int /\ m \in Int /\ InRange(spliced, q, m)
  <2>. HIDE DEF T
  <2>. QED  BY <1>1, <1>2, <1>3 DEF InRange
<1>. HIDE DEF q, m
<1>8. left \in Text /\ Len(left) = Len(spliced) - m + R
  BY <1>3, <1>7, SpliceType
<1>9. \A i \in 1 .. Len(spliced) - m + R :
        left[i] = IF i <= q THEN spliced[i]
                  ELSE IF i <= q + R THEN replacement[i - q] ELSE spliced[i + m - R]
  <2>1. IsSpliced(left, spliced, q, m, replacement)
    BY <1>3, <1>7, SplicedElements
  <2>. QED  BY <2>1 DEF IsSpliced
<1>. DEFINE W == Len(whole)
<1>10. right \in Text /\ Len(right) = T - length + W
  <2>1. whole \in Text
    BY <1>6
  <2>. QED  BY <2>1, SpliceType
<1>11. \A i \in 1 .. T - length + W :
         right[i] = IF i <= location THEN text[i]
                    ELSE IF i <= location + W THEN whole[i - location]
                         ELSE text[i + length - W]
  <2>1. whole \in Text
    BY <1>6
  <2>2. IsSpliced(right, text, location, length, whole)
    BY <2>1, SplicedElements
  <2>. HIDE DEF right, whole
  <2>. QED  BY <2>2 DEF IsSpliced
<1>. HIDE DEF W
<1>12. q = location + k /\ m = I - k /\ W = k + R
  BY <1>6 DEF q, m, W
<1>. HIDE DEF left, right, T, I, R
<1>13. Len(left) = Len(right)
  BY <1>1, <1>2, <1>3, <1>8, <1>10, <1>12
<1>14. ASSUME NEW i \in 1 .. Len(left)
       PROVE  left[i] = right[i]
  <2>1. i \in 1 .. Len(spliced) - m + R /\ i \in 1 .. T - length + W
    BY <1>8, <1>10, <1>13, <1>14
  <2>2. CASE i <= location
    <3>1. i \in 1 .. T - length + I /\ i <= q
      BY <1>1, <1>2, <1>3, <1>12, <2>1, <2>2
    <3>. QED  BY <1>4, <1>9, <1>11, <2>1, <2>2, <3>1
  <2>3. CASE ~(i <= location) /\ i <= q
    <3>. DEFINE j == i - location
    <3>1. /\ i \in 1 .. T - length + I /\ i <= location + I /\ j \in 1 .. k
          /\ i <= location + W
      BY <1>1, <1>2, <1>12, <2>1, <2>3
    <3>. HIDE DEF j
    <3>2. left[i] = inserted[i - location]
      BY <1>4, <1>9, <2>1, <2>3, <3>1
    <3>3. right[i] = whole[i - location]
      BY <1>11, <2>1, <2>3, <3>1
    <3>4. whole[j] = inserted[j]
      BY <1>6, <3>1
    <3>. QED  BY <3>2, <3>3, <3>4 DEF j
  <2>4. CASE ~(i <= q) /\ i <= q + R
    <3>. DEFINE j == i - q
    <3>1. /\ ~(i <= location) /\ i <= location + W /\ j \in 1 .. R
          /\ i - location = k + j
      BY <1>1, <1>2, <1>12, <2>1, <2>4
    <3>2. left[i] = replacement[j]
      BY <1>9, <2>1, <2>4
    <3>. HIDE DEF j
    <3>3. right[i] = whole[k + j]
      BY <1>11, <2>1, <3>1
    <3>4. whole[k + j] = replacement[j]
      BY <1>6, <3>1
    <3>. QED  BY <3>2, <3>3, <3>4
  <2>5. CASE ~(i <= q) /\ ~(i <= q + R)
    <3>. DEFINE j == i + m - R
    <3>1. /\ j \in 1 .. T - length + I /\ ~(j <= location) /\ ~(j <= location + I)
          /\ j + length - I = i + length - W
          /\ ~(i <= location) /\ ~(i <= location + W)
      BY <1>1, <1>2, <1>3, <1>12, <2>1, <2>5
    <3>2. left[i] = spliced[j]
      BY <1>9, <2>1, <2>5
    <3>. HIDE DEF j
    <3>3. spliced[j] = text[j + length - I]
      BY <1>4, <3>1
    <3>4. right[i] = text[i + length - W]
      BY <1>11, <2>1, <3>1
    <3>. QED  BY <3>1, <3>2, <3>3, <3>4
  <2>. QED  BY <1>1, <1>2, <1>12, <2>1, <2>2, <2>3, <2>4, <2>5
<1>15. left = right
  BY <1>8, <1>10, <1>13, <1>14, SameText
<1>. QED  BY <1>7, <1>15 DEF left, right, spliced, whole, kept, q, m

\* What is left of a replacement stays, a part of a stretch is a stretch, and two
\* neighbouring stretches are one.
LEMMA SubstringBefore ==
  ASSUME NEW text \in Text, NEW location \in Int, NEW length \in Int,
         InRange(text, location, length), NEW inserted \in Text,
         NEW q \in Int, NEW m \in Int, 0 <= q, 0 <= m, q + m <= location
  PROVE  Substring(Splice(text, location, length, inserted), q, m) = Substring(text, q, m)
<1>. DEFINE spliced == Splice(text, location, length, inserted)
            left == Substring(spliced, q, m)
            right == Substring(text, q, m)
<1>1. Len(text) \in Nat /\ Len(inserted) \in Nat
  BY LenProperties DEF Text
<1>2. 0 <= location /\ 0 <= length /\ location + length <= Len(text)
  BY DEF InRange
<1>3. spliced \in Text /\ Len(spliced) = Len(text) - length + Len(inserted)
  BY SpliceType
<1>4. \A i \in 1 .. Len(text) - length + Len(inserted) :
        i <= location => spliced[i] = text[i]
  <2>1. \A i \in 1 .. Len(text) - length + Len(inserted) :
          spliced[i] = IF i <= location THEN text[i]
                       ELSE IF i <= location + Len(inserted) THEN inserted[i - location]
                            ELSE text[i + length - Len(inserted)]
    <3>1. IsSpliced(spliced, text, location, length, inserted)
      BY SplicedElements
    <3>. QED  BY <3>1 DEF IsSpliced
  <2>. HIDE DEF spliced
  <2>. QED  BY <2>1
<1>. HIDE DEF spliced
<1>5. InRange(spliced, q, m) /\ InRange(text, q, m)
  BY <1>1, <1>2, <1>3 DEF InRange
<1>6. left \in Text /\ Len(left) = m /\ \A i \in 1 .. m : left[i] = spliced[q + i]
  BY <1>3, <1>5, SubstringElements
<1>7. right \in Text /\ Len(right) = m /\ \A i \in 1 .. m : right[i] = text[q + i]
  BY <1>5, SubstringElements
<1>. HIDE DEF left, right
<1>8. ASSUME NEW i \in 1 .. m
      PROVE  left[i] = right[i]
  <2>1. q + i \in 1 .. Len(text) - length + Len(inserted) /\ q + i <= location
    BY <1>1, <1>2
  <2>. QED  BY <1>4, <1>6, <1>7, <2>1
<1>9. left = right
  BY <1>6, <1>7, <1>8, SameText
<1>. QED  BY <1>9 DEF left, right, spliced

LEMMA PrefixOfSubstring ==
  ASSUME NEW text \in Text, NEW q \in Int, NEW m \in Int, InRange(text, q, m),
         NEW k \in 0 .. m
  PROVE  Prefix(Substring(text, q, m), k) = Substring(text, q, k)
<1>. DEFINE s == Substring(text, q, m)
            left == Prefix(s, k)
            right == Substring(text, q, k)
<1>1. s \in Text /\ Len(s) = m /\ \A i \in 1 .. m : s[i] = text[q + i]
  BY SubstringElements
<1>2. k \in Int /\ InRange(text, q, k) /\ Len(text) \in Nat
  BY LenProperties DEF InRange, Text
<1>. HIDE DEF s
<1>3. left \in Text /\ Len(left) = k /\ \A i \in 1 .. k : left[i] = s[i]
  BY <1>1, PrefixElements
<1>4. right \in Text /\ Len(right) = k /\ \A i \in 1 .. k : right[i] = text[q + i]
  BY <1>2, SubstringElements
<1>. HIDE DEF left, right
<1>5. ASSUME NEW i \in 1 .. k
      PROVE  left[i] = right[i]
  <2>1. i \in 1 .. m
    OBVIOUS
  <2>. QED  BY <1>1, <1>3, <1>4, <2>1
<1>6. left = right
  BY <1>3, <1>4, <1>5, SameText
<1>. QED  BY <1>6 DEF left, right, s

LEMMA SubstringsJoin ==
  ASSUME NEW text \in Text, NEW q \in Int, NEW k \in Nat, NEW m \in Nat,
         InRange(text, q, k + m)
  PROVE  Substring(text, q, k) \o Substring(text, q + k, m) = Substring(text, q, k + m)
<1>. DEFINE s == Substring(text, q, k)
            t == Substring(text, q + k, m)
            left == s \o t
            right == Substring(text, q, k + m)
<1>1. InRange(text, q, k) /\ InRange(text, q + k, m) /\ Len(text) \in Nat
      /\ k + m \in Int /\ q + k \in Int
  BY LenProperties DEF InRange, Text
<1>2. s \in Text /\ Len(s) = k /\ \A i \in 1 .. k : s[i] = text[q + i]
  BY <1>1, SubstringElements
<1>3. t \in Text /\ Len(t) = m /\ \A i \in 1 .. m : t[i] = text[(q + k) + i]
  BY <1>1, SubstringElements
<1>4. /\ right \in Text /\ Len(right) = k + m
      /\ \A i \in 1 .. k + m : right[i] = text[q + i]
  BY <1>1, SubstringElements
<1>. HIDE DEF s, t, right
<1>5. /\ left \in Text /\ Len(left) = k + m
      /\ \A i \in 1 .. k : left[i] = s[i]
      /\ \A i \in 1 .. m : left[k + i] = t[i]
  <2>1. /\ left \in Text /\ Len(left) = Len(s) + Len(t)
        /\ \A i \in 1 .. Len(s) : left[i] = s[i]
        /\ \A i \in 1 .. Len(t) : left[Len(s) + i] = t[i]
    BY <1>2, <1>3, TextsJoin
  <2>. HIDE DEF left
  <2>. QED  BY <1>2, <1>3, <2>1
<1>. HIDE DEF left
<1>6. ASSUME NEW i \in 1 .. k + m
      PROVE  left[i] = right[i]
  <2>1. CASE i <= k
    <3>1. i \in 1 .. k
      BY <2>1
    <3>. QED  BY <1>2, <1>4, <1>5, <3>1
  <2>2. CASE ~(i <= k)
    <3>. DEFINE j == i - k
    <3>1. j \in 1 .. m /\ i = k + j /\ q + i = (q + k) + j
      BY <2>2
    <3>. HIDE DEF j
    <3>2. left[i] = t[j] /\ t[j] = text[q + i]
      BY <1>3, <1>5, <3>1
    <3>. QED  BY <1>4, <3>2
  <2>. QED  BY <2>1, <2>2
<1>7. left = right
  BY <1>4, <1>5, <1>6, SameText
<1>. QED  BY <1>7 DEF left, right, s, t

----------------------------------------------------------------------------
(***************************************************************************)
(* A series as the text view showed it, edit by edit.  The state v holds   *)
(* the text and the cursor, and what was true of the edits so far:         *)
(*   placed   every insertion is of some text at the cursor; what is       *)
(*            removed is there; the cursor is moved within the text        *)
(*   typed    a removal ends at the cursor, and the cursor is moved only   *)
(*            at the beginning (began: there was a text edit)              *)
(***************************************************************************)

CursorBehind(edit) ==
  IF edit.type = "INSERT" THEN edit.location + Len(edit.text) ELSE edit.location

IsPlaced(v, edit) ==
  CASE edit.type = "INSERT" ->
         edit.location = v.cursor /\ edit.length = 0 /\ edit.text # <<>>
    [] edit.type = "REMOVE" ->
         /\ InRange(v.text, edit.location, edit.length)
         /\ edit.length > 0
         /\ edit.text = Substring(v.text, edit.location, edit.length)
    [] edit.type = "CURSOR" -> InRange(v.text, edit.location, 0)

IsTyped(v, edit) ==
  CASE edit.type = "INSERT" -> TRUE
    [] edit.type = "REMOVE" -> edit.location + edit.length = v.cursor
    [] edit.type = "CURSOR" -> ~v.began

TextBehind(v, edit) ==
  CASE edit.type = "INSERT" -> Splice(v.text, edit.location, 0, edit.text)
    [] edit.type = "REMOVE" -> Splice(v.text, edit.location, edit.length, <<>>)
    [] edit.type = "CURSOR" -> v.text

Follow(v, edit) ==
  IF v.placed /\ IsPlaced(v, edit)
  THEN [text   |-> TextBehind(v, edit),
        cursor |-> CursorBehind(edit),
        began  |-> v.began \/ ~IsCursor(edit),
        placed |-> TRUE,
        typed  |-> v.typed /\ IsTyped(v, edit)]
  ELSE [v EXCEPT !.placed = FALSE]

FollowNext(p, v, edit) == Follow(v, edit)

Following == INSTANCE FoldProofs WITH Step <- FollowNext

Followed(v, edits) == Following!Looped(0, v, edits)

\* Where the series begins.
Start(text, cursor) ==
  [text |-> text, cursor |-> cursor, began |-> FALSE, placed |-> TRUE, typed |-> TRUE]

Tracks ==
  {v \in [text : Text, cursor : Nat, began : BOOLEAN, placed : BOOLEAN, typed : BOOLEAN] :
     InRange(v.text, v.cursor, 0)}

Sound(v) == v.placed /\ v.typed

LEMMA StartType ==
  ASSUME NEW text \in Text, NEW cursor \in Nat, InRange(text, cursor, 0)
  PROVE  Start(text, cursor) \in Tracks
BY DEF Start, Tracks

LEMMA LocalEditFacts ==
  ASSUME NEW edit \in LocalEdit
  PROVE  /\ edit.text \in Text /\ Len(edit.text) \in Nat
         /\ edit.location \in Nat /\ edit.length \in Nat
         /\ edit.type \in {"INSERT", "REMOVE", "CURSOR"}
         /\ IsCursor(edit) <=> edit.type = "CURSOR"
BY LenProperties DEF LocalEdit, Action, EditType, IsCursor, Text

\* An edit that is placed leaves a text with the cursor in it.
LEMMA PlacedFollows ==
  ASSUME NEW v \in Tracks, NEW edit \in LocalEdit, v.placed, IsPlaced(v, edit)
  PROVE  /\ TextBehind(v, edit) \in Text
         /\ CursorBehind(edit) \in Nat
         /\ InRange(TextBehind(v, edit), CursorBehind(edit), 0)
<1>1. /\ edit.text \in Text /\ Len(edit.text) \in Nat
      /\ edit.location \in Nat /\ edit.length \in Nat
      /\ edit.type \in {"INSERT", "REMOVE", "CURSOR"}
  BY LocalEditFacts
<1>2. /\ v.text \in Text /\ Len(v.text) \in Nat /\ v.cursor \in Nat
      /\ InRange(v.text, v.cursor, 0)
  BY LenProperties DEF Tracks, Text
<1>3. <<>> \in Text /\ Len(<<>>) = 0
  BY EmptySeq DEF Text
<1>4. CASE edit.type = "INSERT"
  <2>. DEFINE t == Splice(v.text, edit.location, 0, edit.text)
  <2>1. edit.location = v.cursor
    BY <1>4 DEF IsPlaced
  <2>2. t \in Text /\ Len(t) = Len(v.text) - 0 + Len(edit.text)
    <3>1. edit.location \in Int /\ 0 \in Int /\ InRange(v.text, edit.location, 0)
      BY <1>1, <1>2, <2>1
    <3>. QED  BY <1>1, <1>2, <3>1, SpliceType
  <2>3. TextBehind(v, edit) = t /\ CursorBehind(edit) = edit.location + Len(edit.text)
    BY <1>4 DEF TextBehind, CursorBehind
  <2>. HIDE DEF t
  <2>4. InRange(t, edit.location + Len(edit.text), 0)
    <3>. DEFINE x == edit.location
                n == Len(v.text)
                k == Len(edit.text)
    <3>1. x \in Nat /\ n \in Nat /\ k \in Nat /\ x + 0 <= n /\ Len(t) = n - 0 + k
      BY <1>1, <1>2, <2>1, <2>2 DEF InRange
    <3>. HIDE DEF x, n, k
    <3>2. 0 <= x + k /\ 0 <= 0 /\ (x + k) + 0 <= Len(t)
      BY <3>1
    <3>. QED  BY <3>2 DEF InRange, x, k
  <2>. QED  BY <1>1, <2>2, <2>3, <2>4
<1>5. CASE edit.type = "REMOVE"
  <2>. DEFINE none == <<>>
              t == Splice(v.text, edit.location, edit.length, none)
  <2>1. InRange(v.text, edit.location, edit.length)
    BY <1>5 DEF IsPlaced
  <2>2. none \in Text /\ Len(none) = 0
    BY <1>3
  <2>3. TextBehind(v, edit) = t /\ CursorBehind(edit) = edit.location
    BY <1>5 DEF TextBehind, CursorBehind
  <2>. HIDE DEF none
  <2>4. t \in Text /\ Len(t) = Len(v.text) - edit.length + Len(none)
    <3>1. edit.location \in Int /\ edit.length \in Int
      BY <1>1
    <3>. QED  BY <1>2, <2>1, <2>2, <3>1, SpliceType
  <2>. HIDE DEF t
  <2>5. InRange(t, edit.location, 0)
    BY <1>1, <1>2, <2>1, <2>2, <2>4 DEF InRange
  <2>. QED  BY <1>1, <2>3, <2>4, <2>5
<1>6. CASE edit.type = "CURSOR"
  <2>1. InRange(v.text, edit.location, 0)
    BY <1>6 DEF IsPlaced
  <2>2. TextBehind(v, edit) = v.text /\ CursorBehind(edit) = edit.location
    BY <1>6 DEF TextBehind, CursorBehind
  <2>. QED  BY <1>1, <1>2, <2>1, <2>2
<1>. QED  BY <1>1, <1>4, <1>5, <1>6

LEMMA FollowType ==
  ASSUME NEW v \in Tracks, NEW edit \in LocalEdit
  PROVE  /\ Follow(v, edit) \in Tracks
         /\ Follow(v, edit).placed <=> v.placed /\ IsPlaced(v, edit)
         /\ Follow(v, edit).placed =>
              Follow(v, edit) =
                [text |-> TextBehind(v, edit), cursor |-> CursorBehind(edit),
                 began |-> v.began \/ ~IsCursor(edit), placed |-> TRUE,
                 typed |-> v.typed /\ IsTyped(v, edit)]
         /\ Sound(Follow(v, edit)) => Sound(v) /\ IsPlaced(v, edit) /\ IsTyped(v, edit)
<1>. DEFINE w == Follow(v, edit)
            text == TextBehind(v, edit)
            cursor == CursorBehind(edit)
            began == v.began \/ ~IsCursor(edit)
            typed == v.typed /\ IsTyped(v, edit)
            next == [text |-> text, cursor |-> cursor, began |-> began, placed |-> TRUE,
                     typed |-> typed]
<1>1. v.began \in BOOLEAN /\ v.typed \in BOOLEAN /\ v.placed \in BOOLEAN
  BY DEF Tracks
<1>2. began \in BOOLEAN /\ typed \in BOOLEAN
  OBVIOUS
<1>3. CASE v.placed /\ IsPlaced(v, edit)
  <2>1. w = next
    BY <1>3 DEF Follow
  <2>2. text \in Text /\ cursor \in Nat /\ InRange(text, cursor, 0)
    BY <1>3, PlacedFollows
  <2>. HIDE DEF text, cursor, began
  <2>3. next.typed = typed /\ next.placed = TRUE
    OBVIOUS
  <2>4. next \in Tracks
    <3>. HIDE DEF typed
    <3>. QED  BY <1>2, <2>2 DEF Tracks
  <2>5. w.typed = typed /\ w.placed = TRUE
    BY <2>1, <2>3
  <2>. HIDE DEF w
  <2>6. Sound(w) => Sound(v) /\ IsPlaced(v, edit) /\ IsTyped(v, edit)
    BY <1>3, <2>5 DEF Sound
  <2>7. w \in Tracks /\ (w.placed <=> v.placed /\ IsPlaced(v, edit)) /\ w = next
    BY <1>3, <2>1, <2>4, <2>5
  <2>. QED  BY <2>6, <2>7 DEF w, text, cursor, began
<1>4. CASE ~(v.placed /\ IsPlaced(v, edit))
  <2>1. w = [v EXCEPT !.placed = FALSE]
    BY <1>4 DEF Follow
  <2>2. w \in Tracks /\ w.placed = FALSE
    BY <2>1 DEF Tracks
  <2>. HIDE DEF w
  <2>3. w \in Tracks /\ ~w.placed /\ ~Sound(w)
    BY <2>2 DEF Sound
  <2>. QED  BY <1>4, <2>3 DEF w
<1>. QED  BY <1>3, <1>4

LEMMA FollowedType ==
  ASSUME NEW v \in Tracks, NEW edits \in Seq(LocalEdit)
  PROVE  Followed(v, edits) \in Tracks
<1>1. \A w \in Tracks, edit \in LocalEdit : FollowNext(0, w, edit) \in Tracks
  BY FollowType DEF FollowNext
<1>. QED  BY <1>1, Following!LoopInvariant DEF Followed

LEMMA FollowedSteps ==
  ASSUME NEW v, NEW edits \in Seq(LocalEdit), NEW edit \in LocalEdit
  PROVE  /\ Followed(v, <<>>) = v
         /\ Followed(v, Append(edits, edit)) = Follow(Followed(v, edits), edit)
<1>1. Following!Looped(0, v, <<>>) = v
  BY Following!LoopOfNothing
<1>2. Following!Looped(0, v, Append(edits, edit))
        = FollowNext(0, Following!Looped(0, v, edits), edit)
  BY Following!LoopOfAppend
<1>. QED  BY <1>1, <1>2 DEF Followed, FollowNext

----------------------------------------------------------------------------
(***************************************************************************)
(* mergeSingleEdits: two neighbours that are joined do what they did one   *)
(* after the other.                                                        *)
(***************************************************************************)

LEMMA JoinedInsertions ==
  ASSUME NEW v \in Tracks, NEW last \in LocalEdit, NEW edit \in LocalEdit,
         last.type = "INSERT", edit.type = "INSERT", Sound(Follow(Follow(v, last), edit))
  PROVE  Follow(v, Join(last, edit)) = Follow(Follow(v, last), edit)
<1>. DEFINE w == Follow(v, last)
            both == Join(last, edit)
            text == last.text \o edit.text
<1>1. /\ last.text \in Text /\ Len(last.text) \in Nat /\ last.location \in Nat
      /\ edit.text \in Text /\ Len(edit.text) \in Nat /\ edit.location \in Nat
  BY LocalEditFacts
<1>2. /\ w \in Tracks /\ Sound(w) /\ IsPlaced(w, edit) /\ Sound(v) /\ IsPlaced(v, last)
      /\ w = [text |-> TextBehind(v, last), cursor |-> CursorBehind(last),
              began |-> v.began \/ ~IsCursor(last), placed |-> TRUE,
              typed |-> v.typed /\ IsTyped(v, last)]
  <2>1. w \in Tracks
    BY FollowType
  <2>. HIDE DEF w
  <2>2. Sound(w) /\ IsPlaced(w, edit)
    BY <2>1, FollowType DEF w
  <2>. QED  BY <2>1, <2>2, FollowType DEF w, Sound
<1>3. Follow(w, edit)
        = [text |-> TextBehind(w, edit), cursor |-> CursorBehind(edit),
           began |-> w.began \/ ~IsCursor(edit), placed |-> TRUE,
           typed |-> w.typed /\ IsTyped(w, edit)]
  BY <1>2, FollowType DEF Sound
<1>4. /\ both \in LocalEdit /\ both.text = text /\ both.type = "INSERT"
      /\ both.location = last.location /\ both.length = last.length
  <2>1. text \in Text
    BY <1>1, JoinedTexts
  <2>2. both = [last EXCEPT !.text = text]
    BY DEF Join
  <2>. HIDE DEF text
  <2>. QED  BY <2>1, <2>2 DEF LocalEdit, Action
<1>5. text \in Text /\ Len(text) = Len(last.text) + Len(edit.text)
  BY <1>1, TextsJoin
<1>6. /\ last.location = v.cursor /\ last.length = 0 /\ last.text # <<>>
      /\ edit.location = w.cursor
  BY <1>2 DEF IsPlaced
<1>7. /\ w.text = Splice(v.text, last.location, 0, last.text)
      /\ w.cursor = last.location + Len(last.text)
      /\ w.began = TRUE /\ w.typed = v.typed
  <2>1. /\ TextBehind(v, last) = Splice(v.text, last.location, 0, last.text)
        /\ CursorBehind(last) = last.location + Len(last.text)
        /\ ~IsCursor(last) /\ IsTyped(v, last)
    BY DEF TextBehind, CursorBehind, IsCursor, IsTyped
  <2>2. v.typed \in BOOLEAN /\ v.began \in BOOLEAN
    BY DEF Tracks
  <2>3. /\ w.text = TextBehind(v, last) /\ w.cursor = CursorBehind(last)
        /\ w.began = (v.began \/ ~IsCursor(last))
        /\ w.typed = (v.typed /\ IsTyped(v, last))
    BY <1>2
  <2>. HIDE DEF w
  <2>. QED  BY <2>1, <2>2, <2>3
<1>. HIDE DEF w, both, text
<1>8. text # <<>>
  <2>. DEFINE n == Len(last.text)
              m == Len(edit.text)
  <2>1. n # 0 /\ n \in Nat /\ m \in Nat /\ Len(text) = n + m
    BY <1>1, <1>5, <1>6, EmptySeq DEF Text
  <2>. HIDE DEF n, m
  <2>2. Len(text) # 0
    BY <2>1
  <2>. QED  BY <2>2, EmptySeq
<1>9. IsPlaced(v, both) /\ IsTyped(v, both) /\ v.placed /\ v.typed
  BY <1>2, <1>4, <1>6, <1>8 DEF IsPlaced, IsTyped, Sound
<1>10. Splice(w.text, edit.location, 0, edit.text) = Splice(v.text, last.location, 0, text)
  <2>. DEFINE k == Len(last.text)
              spliced == Splice(v.text, last.location, 0, last.text)
  <2>1. v.text \in Text /\ InRange(v.text, last.location, 0) /\ last.location \in Int
    BY <1>1, <1>6 DEF Tracks
  <2>2. k \in 0 .. Len(last.text) /\ Len(last.text) - k = 0
    BY <1>1
  <2>. HIDE DEF k
  <2>3. Splice(spliced, last.location + k, Len(last.text) - k, edit.text)
          = Splice(v.text, last.location, 0, Prefix(last.text, k) \o edit.text)
    BY <1>1, <2>1, <2>2, SpliceWithin
  <2>4. Prefix(last.text, k) = last.text
    <3>1. /\ Prefix(last.text, k) \in Text /\ Len(Prefix(last.text, k)) = k
          /\ \A i \in 1 .. k : Prefix(last.text, k)[i] = last.text[i]
      BY <1>1, <2>2, PrefixElements
    <3>. QED  BY <1>1, <3>1, SameText DEF k
  <2>5. edit.location = last.location + k
    BY <1>6, <1>7 DEF k
  <2>. QED  BY <1>7, <2>2, <2>3, <2>4, <2>5 DEF text
<1>11. TextBehind(v, both) = TextBehind(w, edit) /\ CursorBehind(both) = CursorBehind(edit)
  <2>1. /\ TextBehind(v, both) = Splice(v.text, last.location, 0, text)
        /\ CursorBehind(both) = last.location + Len(text)
    BY <1>4 DEF TextBehind, CursorBehind
  <2>2. /\ TextBehind(w, edit) = Splice(w.text, edit.location, 0, edit.text)
        /\ CursorBehind(edit) = edit.location + Len(edit.text)
    BY DEF TextBehind, CursorBehind
  <2>3. last.location + Len(text) = edit.location + Len(edit.text)
    <3>. DEFINE x == last.location
                n == Len(last.text)
                m == Len(edit.text)
    <3>1. /\ x \in Nat /\ n \in Nat /\ m \in Nat
          /\ Len(text) = n + m /\ edit.location = x + n
      BY <1>1, <1>5, <1>6, <1>7
    <3>. HIDE DEF x, n, m
    <3>2. x + Len(text) = edit.location + m
      BY <3>1
    <3>. QED  BY <3>2 DEF x, m
  <2>. QED  BY <1>10, <2>1, <2>2, <2>3
<1>12. Follow(v, both)
         = [text |-> TextBehind(v, both), cursor |-> CursorBehind(both),
            began |-> v.began \/ ~IsCursor(both), placed |-> TRUE,
            typed |-> v.typed /\ IsTyped(v, both)]
  BY <1>9 DEF Follow
<1>13. (v.began \/ ~IsCursor(both)) = (w.began \/ ~IsCursor(edit))
  BY <1>4, <1>7 DEF IsCursor
<1>14. (v.typed /\ IsTyped(v, both)) = (w.typed /\ IsTyped(w, edit))
  <2>1. IsTyped(w, edit) /\ w.typed
    BY <1>2 DEF IsTyped, Sound
  <2>. QED  BY <1>9, <2>1
<1>15. Follow(v, both) = Follow(w, edit)
  BY <1>3, <1>11, <1>12, <1>13, <1>14
<1>. QED  BY <1>15 DEF both, w

LEMMA JoinedRemovals ==
  ASSUME NEW v \in Tracks, NEW last \in LocalEdit, NEW edit \in LocalEdit,
         last.type = "REMOVE", edit.type = "REMOVE", Sound(Follow(Follow(v, last), edit))
  PROVE  Follow(v, Join(last, edit)) = Follow(Follow(v, last), edit)
<1>. DEFINE w == Follow(v, last)
            both == Join(last, edit)
            text == edit.text \o last.text
            sum == last.length + edit.length
            none == <<>>
<1>1. /\ last.text \in Text /\ last.location \in Nat /\ last.length \in Nat
      /\ edit.text \in Text /\ edit.location \in Nat /\ edit.length \in Nat
  BY LocalEditFacts
<1>2. /\ w \in Tracks /\ Sound(w) /\ IsPlaced(w, edit) /\ IsTyped(w, edit)
      /\ Sound(v) /\ IsPlaced(v, last) /\ IsTyped(v, last)
      /\ w = [text |-> TextBehind(v, last), cursor |-> CursorBehind(last),
              began |-> v.began \/ ~IsCursor(last), placed |-> TRUE,
              typed |-> v.typed /\ IsTyped(v, last)]
  <2>1. w \in Tracks
    BY FollowType
  <2>. HIDE DEF w
  <2>2. Sound(w) /\ IsPlaced(w, edit) /\ IsTyped(w, edit)
    BY <2>1, FollowType DEF w
  <2>. QED  BY <2>1, <2>2, FollowType DEF w, Sound
<1>3. Follow(w, edit)
        = [text |-> TextBehind(w, edit), cursor |-> CursorBehind(edit),
           began |-> w.began \/ ~IsCursor(edit), placed |-> TRUE,
           typed |-> w.typed /\ IsTyped(w, edit)]
  BY <1>2, FollowType DEF Sound
<1>4. /\ both \in LocalEdit /\ both.text = text /\ both.type = "REMOVE"
      /\ both.location = edit.location /\ both.length = sum
  <2>1. text \in Text /\ sum \in Nat /\ sum \in Int
    BY <1>1, JoinedTexts
  <2>2. both = [last EXCEPT !.location = edit.location, !.length = sum, !.text = text]
    BY DEF Join
  <2>. HIDE DEF text, sum
  <2>. QED  BY <1>1, <2>1, <2>2 DEF LocalEdit, Action
<1>5. /\ InRange(v.text, last.location, last.length) /\ last.length > 0
      /\ last.text = Substring(v.text, last.location, last.length)
      /\ last.location + last.length = v.cursor
      /\ InRange(w.text, edit.location, edit.length) /\ edit.length > 0
      /\ edit.text = Substring(w.text, edit.location, edit.length)
      /\ edit.location + edit.length = w.cursor
  BY <1>2 DEF IsPlaced, IsTyped
<1>6. /\ w.text = Splice(v.text, last.location, last.length, none)
      /\ w.cursor = last.location /\ w.began = TRUE
  <2>1. /\ TextBehind(v, last) = Splice(v.text, last.location, last.length, <<>>)
        /\ CursorBehind(last) = last.location /\ ~IsCursor(last)
    BY DEF TextBehind, CursorBehind, IsCursor
  <2>2. /\ w.text = TextBehind(v, last) /\ w.cursor = CursorBehind(last)
        /\ w.began = (v.began \/ ~IsCursor(last))
    BY <1>2
  <2>. HIDE DEF w
  <2>. QED  BY <2>1, <2>2
<1>. HIDE DEF w, both
<1>7. none \in Text /\ Len(none) = 0 /\ v.text \in Text /\ Len(v.text) \in Nat
  BY EmptySeq, LenProperties DEF Text, Tracks
<1>. HIDE DEF none
<1>8. text = Substring(v.text, edit.location, sum)
  <2>1. Substring(w.text, edit.location, edit.length)
          = Substring(v.text, edit.location, edit.length)
    <3>1. edit.location + edit.length <= last.location /\ 0 <= edit.location
          /\ 0 <= edit.length
      BY <1>1, <1>5, <1>6
    <3>. QED  BY <1>1, <1>5, <1>6, <1>7, <3>1, SubstringBefore
  <2>2. /\ last.location = edit.location + edit.length
        /\ InRange(v.text, edit.location, edit.length + last.length)
        /\ sum = edit.length + last.length
    BY <1>1, <1>5, <1>6, <1>7 DEF InRange
  <2>3. Substring(v.text, edit.location, edit.length)
          \o Substring(v.text, edit.location + edit.length, last.length)
        = Substring(v.text, edit.location, edit.length + last.length)
    <3>1. edit.location \in Int /\ edit.length \in Nat /\ last.length \in Nat
      BY <1>1
    <3>. QED  BY <1>7, <2>2, <3>1, SubstringsJoin
  <2>. QED  BY <1>5, <2>1, <2>2, <2>3
<1>9. IsPlaced(v, both) /\ IsTyped(v, both) /\ v.placed /\ v.typed
  <2>1. /\ InRange(v.text, edit.location, sum) /\ sum > 0
        /\ edit.location + sum = v.cursor
    BY <1>1, <1>5, <1>6, <1>7 DEF InRange
  <2>. HIDE DEF sum, text
  <2>. QED  BY <1>2, <1>4, <1>8, <2>1 DEF IsPlaced, IsTyped, Sound
<1>10. Splice(w.text, edit.location, edit.length, none)
         = Splice(v.text, edit.location, sum, none)
  <2>1. /\ edit.location \in 0 .. last.location
        /\ edit.location + edit.length = last.location + Len(none)
        /\ last.location + last.length - edit.location = sum
    BY <1>1, <1>5, <1>6, <1>7
  <2>2. Splice(Splice(v.text, last.location, last.length, none),
               edit.location, edit.length, none)
          = Splice(v.text, edit.location, last.location + last.length - edit.location, none)
    <3>. DEFINE b == v.text
                x == last.location
                n == last.length
                q == edit.location
                m == edit.length
    <3>1. /\ b \in Text /\ x \in Int /\ n \in Int /\ m \in Int /\ InRange(b, x, n)
          /\ none \in Text /\ q \in 0 .. x /\ q + m = x + Len(none)
      BY <1>1, <1>5, <1>7, <2>1
    <3>. HIDE DEF b, x, n, q, m
    <3>2. Splice(Splice(b, x, n, none), q, m, none) = Splice(b, q, x + n - q, none)
      BY <3>1, SpliceOver
    <3>. QED  BY <3>2 DEF b, x, n, q, m
  <2>. QED  BY <1>6, <2>1, <2>2
<1>11. TextBehind(v, both) = TextBehind(w, edit) /\ CursorBehind(both) = CursorBehind(edit)
  <2>1. /\ TextBehind(v, both) = Splice(v.text, edit.location, sum, none)
        /\ CursorBehind(both) = edit.location
    BY <1>4 DEF TextBehind, CursorBehind, none
  <2>2. /\ TextBehind(w, edit) = Splice(w.text, edit.location, edit.length, none)
        /\ CursorBehind(edit) = edit.location
    BY DEF TextBehind, CursorBehind, none
  <2>. QED  BY <1>10, <2>1, <2>2
<1>12. Follow(v, both)
         = [text |-> TextBehind(v, both), cursor |-> CursorBehind(both),
            began |-> v.began \/ ~IsCursor(both), placed |-> TRUE,
            typed |-> v.typed /\ IsTyped(v, both)]
  BY <1>9 DEF Follow
<1>13. (v.began \/ ~IsCursor(both)) = (w.began \/ ~IsCursor(edit))
  BY <1>4, <1>6 DEF IsCursor
<1>14. (v.typed /\ IsTyped(v, both)) = (w.typed /\ IsTyped(w, edit))
  <2>1. IsTyped(w, edit) /\ w.typed
    BY <1>2 DEF Sound
  <2>. QED  BY <1>9, <2>1
<1>15. Follow(v, both) = Follow(w, edit)
  BY <1>3, <1>11, <1>12, <1>13, <1>14
<1>. QED  BY <1>15 DEF both, w

\* All but the last, and the last.
LEMMA MergingOneFollows ==
  ASSUME NEW v \in Tracks, NEW merged \in Seq(LocalEdit), NEW edit \in LocalEdit,
         Sound(Follow(Followed(v, merged), edit))
  PROVE  Followed(v, MergeSingleEdit(merged, edit)) = Follow(Followed(v, merged), edit)
<1>1. CASE merged # <<>> /\ ~IsCursor(edit) /\ Last(merged).type = edit.type
  <2>. DEFINE last == Last(merged)
              front == Front(merged)
              w == Followed(v, front)
              both == Join(last, edit)
  <2>1. front \in Seq(LocalEdit) /\ last \in LocalEdit /\ merged = Append(front, last)
    BY <1>1, FrontAndLast
  <2>2. MergeSingleEdit(merged, edit) = Append(front, both)
    BY <1>1 DEF MergeSingleEdit, ReplaceLast
  <2>3. both \in LocalEdit
    <3>1. MergeSingleEdit(merged, edit) \in Seq(LocalEdit)
      BY MergeSingleEditType
    <3>. HIDE DEF front, both
    <3>2. Append(front, both) \in Seq(LocalEdit)
      BY <2>2, <3>1
    <3>3. Len(front) \in Nat
      BY <2>1, LenProperties
    <3>4. Append(front, both)[Len(front) + 1] = both /\ Len(Append(front, both)) = Len(front) + 1
      <4>1. front \in Seq(LocalEdit \cup {both}) /\ both \in LocalEdit \cup {both}
        BY <2>1
      <4>. QED  BY <4>1, AppendProperties
    <3>5. Append(front, both)[Len(front) + 1] \in LocalEdit
      BY <3>2, <3>3, <3>4, ElementOfSeq
    <3>. QED  BY <3>4, <3>5
  <2>. HIDE DEF last, front, both
  <2>4. Followed(v, merged) = Follow(w, last) /\ w \in Tracks
    BY <2>1, FollowedSteps, FollowedType
  <2>5. Followed(v, Append(front, both)) = Follow(w, both)
    BY <2>1, <2>3, FollowedSteps
  <2>. HIDE DEF w
  <2>6. last.type = edit.type /\ edit.type \in {"INSERT", "REMOVE"}
    BY <1>1, LocalEditFacts DEF last
  <2>7. Follow(w, both) = Follow(Follow(w, last), edit)
    BY <2>1, <2>4, <2>6, JoinedInsertions, JoinedRemovals DEF both
  <2>. QED  BY <2>2, <2>4, <2>5, <2>7
<1>2. CASE ~(merged # <<>> /\ ~IsCursor(edit) /\ Last(merged).type = edit.type)
  <2>1. MergeSingleEdit(merged, edit) = Append(merged, edit)
    BY <1>2 DEF MergeSingleEdit
  <2>. QED  BY <2>1, FollowedSteps
<1>. QED  BY <1>1, <1>2

LEMMA MergedFollows ==
  ASSUME NEW v \in Tracks, NEW edits \in Seq(LocalEdit), Sound(Followed(v, edits))
  PROVE  Followed(v, MergeSingleEdits(edits)) = Followed(v, edits)
<1>. DEFINE T == {s \in Seq(LocalEdit) : Sound(Followed(v, s)) =>
                    Followed(v, MergeSingleEdits(s)) = Followed(v, s)}
<1>1. <<>> \in T
  <2>1. MergeSingleEdits(<<>>) = <<>>
    BY MergingNothing
  <2>. QED  BY <2>1, EmptySeq
<1>2. ASSUME NEW s \in Seq(LocalEdit), s \in T, NEW edit \in LocalEdit
      PROVE  Append(s, edit) \in T
  <2>1. Append(s, edit) \in Seq(LocalEdit)
    BY AppendProperties
  <2>2. Followed(v, Append(s, edit)) = Follow(Followed(v, s), edit)
    BY FollowedSteps
  <2>3. MergeSingleEdits(Append(s, edit)) = MergeSingleEdit(MergeSingleEdits(s), edit)
    BY MergingSteps
  <2>4. SUFFICES ASSUME Sound(Follow(Followed(v, s), edit))
                 PROVE  Followed(v, MergeSingleEdit(MergeSingleEdits(s), edit))
                          = Follow(Followed(v, s), edit)
    BY <2>1, <2>2, <2>3
  <2>5. Sound(Followed(v, s))
    BY <2>4, FollowedType, FollowType
  <2>6. Followed(v, MergeSingleEdits(s)) = Followed(v, s)
    BY <1>2, <2>5
  <2>7. MergeSingleEdits(s) \in Seq(LocalEdit)
    BY MergedType
  <2>. QED  BY <2>4, <2>6, <2>7, MergingOneFollows
<1>. HIDE DEF T
<1>3. Seq(LocalEdit) \subseteq T
  BY <1>1, <1>2, Following!AllSequences
<1>. QED  BY <1>3 DEF T

----------------------------------------------------------------------------
(***************************************************************************)
(* resolveMergedEdits.  Behind the first movements a series removes a      *)
(* stretch that ends where the cursor was, and puts a text in its place:   *)
(* that is what the actions found say, after every edit.                   *)
(***************************************************************************)

Describes(final, removed, inserted) ==
  \/ removed = <<>> /\ inserted = <<>> /\ final = <<>>
  \/ /\ removed = <<>> /\ inserted # <<>>
     /\ \E y \in Insertion : y.text = inserted /\ final = <<y>>
  \/ /\ removed # <<>> /\ inserted = <<>>
     /\ \E x \in Removal : x.text = removed /\ final = <<x>>
  \/ /\ removed # <<>> /\ inserted # <<>>
     /\ \E x \in Removal, y \in Insertion :
          x.text = removed /\ y.text = inserted /\ final = <<x, y>>

\* The text began as b with the cursor at c; left is where the stretch begins.
ResolvesTo(v, r, b, c, left, inserted) ==
  /\ ~r.raised
  /\ v.text = Splice(b, left, c - left, inserted)
  /\ v.cursor = left + Len(inserted)
  /\ v.began = TRUE
  /\ r.smallest = left
  /\ left = c => r.og = c
  /\ Describes(r.final, Substring(b, left, c - left), inserted)

Resolves(v, r, b, c) ==
  \E left \in 0 .. c, inserted \in Text : ResolvesTo(v, r, b, c, left, inserted)

LEMMA EmptyText ==
  ASSUME NEW t \in Text
  PROVE  t = <<>> <=> Len(t) = 0
BY EmptySeq DEF Text

LEMMA DescribedInsertion ==
  ASSUME NEW r \in Resolutions, NEW removed \in Text, NEW inserted \in Text,
         Describes(r.final, removed, inserted), NEW edit \in Insertion, edit.text # <<>>
  PROVE  LET s == ResolveInsertion(r, edit)
         IN /\ s.raised = r.raised /\ s.og = r.og /\ s.smallest = r.smallest
            /\ Describes(s.final, removed, inserted \o edit.text)
<1>. DEFINE s == ResolveInsertion(r, edit)
            t == edit.text
            longer(y) == [y EXCEPT !.text = y.text \o t]
<1>1. t \in Text /\ t # <<>>
  BY DEF Insertion, LocalEdit, Action
<1>2. /\ inserted \o t \in Text /\ inserted \o t # <<>>
      /\ inserted = <<>> => inserted \o t = t
  <2>1. Len(t) # 0 /\ Len(t) \in Nat /\ Len(inserted) \in Nat
    BY <1>1, EmptyText, LenProperties DEF Text
  <2>2. inserted \o t \in Text /\ Len(inserted \o t) = Len(inserted) + Len(t)
    BY <1>1, TextsJoin
  <2>. HIDE DEF t
  <2>3. Len(inserted \o t) # 0
    <3>. DEFINE whole == inserted \o t
    <3>1. Len(whole) = Len(inserted) + Len(t)
      BY <2>2
    <3>. HIDE DEF whole
    <3>2. Len(whole) # 0
      BY <2>1, <3>1
    <3>. QED  BY <3>2 DEF whole
  <2>4. <<>> \o t = t
    BY <1>1, ConcatEmptySeq DEF Text
  <2>. QED  BY <2>2, <2>3, <2>4, EmptyText
<1>3. ASSUME NEW y \in Insertion, y.text = inserted
      PROVE  longer(y) \in Insertion /\ longer(y).text = inserted \o t
  <2>. DEFINE whole == inserted \o t
  <2>1. whole \in Text
    BY <1>2
  <2>. HIDE DEF whole
  <2>2. [y EXCEPT !.text = whole] \in Insertion /\ [y EXCEPT !.text = whole].text = whole
    BY <2>1 DEF Insertion, LocalEdit, Action
  <2>. QED  BY <1>3, <2>2 DEF whole
<1>4. ASSUME NEW final, s = [r EXCEPT !.final = final]
      PROVE  /\ s.raised = r.raised /\ s.og = r.og /\ s.smallest = r.smallest
             /\ s.final = final
  BY <1>4 DEF Resolutions
<1>5. /\ \A x \in Removal : x.type = "REMOVE"
      /\ \A y \in Insertion : y.type = "INSERT"
  BY DEF Removal, Insertion
<1>6. /\ r.final = <<>> \/ Last(r.final).type = "REMOVE" =>
           s = [r EXCEPT !.final = Append(r.final, edit)]
      /\ ~(r.final = <<>> \/ Last(r.final).type = "REMOVE") =>
           s = [r EXCEPT !.final = ReplaceLast(r.final, longer(Last(r.final)))]
  BY DEF ResolveInsertion
<1>7. \A x, y : <<x>> # <<>> /\ <<x, y>> # <<>>
  <2>1. \A x, y : Len(<<x>>) = 1 /\ Len(<<x, y>>) = 2 /\ Len(<<>>) = 0
    OBVIOUS
  <2>. QED  BY <2>1
<1>. HIDE DEF s, t, longer
<1>8. CASE removed = <<>> /\ inserted = <<>> /\ r.final = <<>>
  <2>1. Append(r.final, edit) = <<edit>>
    BY <1>8, ShortSequences
  <2>2. s = [r EXCEPT !.final = <<edit>>]
    BY <1>6, <1>8, <2>1
  <2>3. s.final = <<edit>> /\ edit.text = inserted \o t
    BY <1>2, <1>4, <1>8, <2>2 DEF t
  <2>. QED  BY <1>2, <1>4, <1>8, <2>2, <2>3 DEF Describes, s, t
<1>9. CASE /\ removed = <<>> /\ inserted # <<>>
           /\ \E y \in Insertion : y.text = inserted /\ r.final = <<y>>
  <2>1. PICK y \in Insertion : y.text = inserted /\ r.final = <<y>>
    BY <1>9
  <2>2. Last(r.final) = y /\ r.final # <<>> /\ y.type # "REMOVE"
    BY <1>5, <1>7, <2>1, ShortSequences
  <2>3. ReplaceLast(r.final, longer(y)) = <<longer(y)>>
    BY <2>1, ShortSequences DEF ReplaceLast
  <2>4. s = [r EXCEPT !.final = <<longer(y)>>]
    BY <1>6, <2>2, <2>3
  <2>5. s.final = <<longer(y)>> /\ longer(y) \in Insertion
        /\ longer(y).text = inserted \o t
    BY <1>3, <1>4, <2>1, <2>4
  <2>. QED  BY <1>2, <1>4, <1>9, <2>4, <2>5 DEF Describes, s, t
<1>10. CASE /\ removed # <<>> /\ inserted = <<>>
            /\ \E x \in Removal : x.text = removed /\ r.final = <<x>>
  <2>1. PICK x \in Removal : x.text = removed /\ r.final = <<x>>
    BY <1>10
  <2>2. Last(r.final).type = "REMOVE" /\ Append(r.final, edit) = <<x, edit>>
    BY <1>5, <2>1, ShortSequences
  <2>3. s = [r EXCEPT !.final = <<x, edit>>]
    BY <1>6, <2>2
  <2>4. s.final = <<x, edit>> /\ edit.text = inserted \o t
    BY <1>2, <1>4, <1>10, <2>3 DEF t
  <2>. QED  BY <1>2, <1>4, <1>10, <2>1, <2>3, <2>4 DEF Describes, s, t
<1>11. CASE /\ removed # <<>> /\ inserted # <<>>
            /\ \E x \in Removal, y \in Insertion :
                 x.text = removed /\ y.text = inserted /\ r.final = <<x, y>>
  <2>1. PICK x \in Removal, y \in Insertion :
          x.text = removed /\ y.text = inserted /\ r.final = <<x, y>>
    BY <1>11
  <2>2. Last(r.final) = y /\ r.final # <<>> /\ y.type # "REMOVE"
    <3>1. Last(<<x, y>>) = y
      BY ShortSequences
    <3>2. <<x, y>> # <<>> /\ y.type = "INSERT"
      BY <1>5, <1>7
    <3>. QED  BY <2>1, <3>1, <3>2
  <2>3. ReplaceLast(r.final, longer(y)) = <<x, longer(y)>>
    <3>. DEFINE z == longer(y)
    <3>1. Front(<<x, y>>) = <<x>> /\ Append(<<x>>, z) = <<x, z>>
      BY ShortSequences
    <3>. HIDE DEF z
    <3>2. ReplaceLast(r.final, z) = <<x, z>>
      BY <2>1, <3>1 DEF ReplaceLast
    <3>. QED  BY <3>2 DEF z
  <2>4. s = [r EXCEPT !.final = <<x, longer(y)>>]
    BY <1>6, <2>2, <2>3
  <2>5. s.final = <<x, longer(y)>> /\ longer(y) \in Insertion
        /\ longer(y).text = inserted \o t
    BY <1>3, <1>4, <2>1, <2>4
  <2>. QED  BY <1>2, <1>4, <1>11, <2>1, <2>4, <2>5 DEF Describes, s, t
<1>. QED  BY <1>8, <1>9, <1>10, <1>11 DEF Describes

\* Taking the end off the insertion, or all of it.
LEMMA DescribedInnerRemoval ==
  ASSUME NEW r \in Resolutions, NEW removed \in Text, NEW inserted \in Text,
         Describes(r.final, removed, inserted), inserted # <<>>,
         NEW edit \in Removal, NEW k \in Nat, k + edit.length = Len(inserted)
  PROVE  LET s == ResolveInnerRemoval(r, edit)
         IN /\ s.raised = r.raised /\ s.og = r.og /\ s.smallest = r.smallest
            /\ Describes(s.final, removed, Prefix(inserted, k))
<1>. DEFINE s == ResolveInnerRemoval(r, edit)
            last == Last(r.final)
            kept == Len(last.text) - edit.length
            shorter == [last EXCEPT !.text = Prefix(@, kept)]
            rest == Prefix(inserted, k)
<1>1. edit.length \in Nat /\ Len(inserted) \in Nat
  BY LenProperties DEF Removal, LocalEdit, Text
<1>2. k \in 0 .. Len(inserted)
  BY <1>1
<1>3. rest \in Text /\ Len(rest) = k
  BY <1>2, PrefixElements
<1>4. rest = <<>> <=> k = 0
  BY <1>3, EmptyText
<1>5. ASSUME NEW final, s = [r EXCEPT !.final = final]
      PROVE  /\ s.raised = r.raised /\ s.og = r.og /\ s.smallest = r.smallest
             /\ s.final = final
  BY <1>5 DEF Resolutions
<1>6. \A x, y : <<x>> # <<>> /\ <<x, y>> # <<>>
  <2>1. \A x, y : Len(<<x>>) = 1 /\ Len(<<x, y>>) = 2 /\ Len(<<>>) = 0
    OBVIOUS
  <2>. QED  BY <2>1
<1>. HIDE DEF rest
<1>7. ASSUME NEW y \in Insertion, y.text = inserted, last = y, r.final # <<>>
      PROVE  /\ k = 0 => s = [r EXCEPT !.final = Front(r.final)]
             /\ k # 0 => \E z \in Insertion :
                  /\ z.text = rest
                  /\ s = [r EXCEPT !.final = ReplaceLast(r.final, z)]
  <2>1. s = CASE kept < 0 -> [r EXCEPT !.raised = TRUE]
              [] kept = 0 -> [r EXCEPT !.final = Front(r.final)]
              [] kept > 0 -> [r EXCEPT !.final = ReplaceLast(r.final, shorter)]
    BY <1>7 DEF ResolveInnerRemoval
  <2>2. kept = k
    BY <1>1, <1>7
  <2>3. shorter = [y EXCEPT !.text = rest]
    BY <1>7, <2>2 DEF rest
  <2>4. shorter \in Insertion /\ shorter.text = rest
    BY <1>3, <2>3 DEF Insertion, LocalEdit, Action
  <2>. HIDE DEF s, last, kept, shorter
  <2>5. CASE k = 0
    <3>1. ~(kept < 0) /\ kept = 0 /\ ~(kept > 0)
      BY <2>2, <2>5
    <3>. QED  BY <2>1, <2>5, <3>1
  <2>6. CASE k # 0
    <3>1. ~(kept < 0) /\ ~(kept = 0) /\ kept > 0
      BY <2>2, <2>6
    <3>2. s = [r EXCEPT !.final = ReplaceLast(r.final, shorter)]
      BY <2>1, <3>1
    <3>. QED  BY <2>4, <2>6, <3>2
  <2>. QED  BY <2>5, <2>6
<1>. HIDE DEF s
<1>8. CASE /\ removed = <<>>
           /\ \E y \in Insertion : y.text = inserted /\ r.final = <<y>>
  <2>1. PICK y \in Insertion : y.text = inserted /\ r.final = <<y>>
    BY <1>8
  <2>2. last = y /\ r.final # <<>> /\ Front(r.final) = <<>>
        /\ \A z : ReplaceLast(r.final, z) = <<z>>
    BY <1>6, <2>1, ShortSequences DEF ReplaceLast
  <2>. HIDE DEF last
  <2>3. CASE k = 0
    <3>1. s = [r EXCEPT !.final = <<>>]
      BY <1>7, <2>1, <2>2, <2>3
    <3>. QED  BY <1>4, <1>5, <1>8, <2>3, <3>1 DEF Describes, s, rest
  <2>4. CASE k # 0
    <3>1. PICK z \in Insertion :
            z.text = rest /\ s = [r EXCEPT !.final = ReplaceLast(r.final, z)]
      BY <1>7, <2>1, <2>2, <2>4
    <3>2. s = [r EXCEPT !.final = <<z>>]
      BY <2>2, <3>1
    <3>. QED  BY <1>4, <1>5, <1>8, <2>4, <3>1, <3>2 DEF Describes, s, rest
  <2>. QED  BY <2>3, <2>4
<1>9. CASE /\ removed # <<>>
           /\ \E x \in Removal, y \in Insertion :
                x.text = removed /\ y.text = inserted /\ r.final = <<x, y>>
  <2>1. PICK x \in Removal, y \in Insertion :
          x.text = removed /\ y.text = inserted /\ r.final = <<x, y>>
    BY <1>9
  <2>2. last = y /\ r.final # <<>> /\ Front(r.final) = <<x>>
        /\ \A z : ReplaceLast(r.final, z) = <<x, z>>
    <3>1. Last(<<x, y>>) = y /\ Front(<<x, y>>) = <<x>>
      BY ShortSequences
    <3>2. \A z : Append(<<x>>, z) = <<x, z>>
      BY ShortSequences
    <3>3. <<x, y>> # <<>>
      BY <1>6
    <3>. QED  BY <2>1, <3>1, <3>2, <3>3 DEF ReplaceLast
  <2>. HIDE DEF last
  <2>3. CASE k = 0
    <3>1. s = [r EXCEPT !.final = <<x>>]
      BY <1>7, <2>1, <2>2, <2>3
    <3>. QED  BY <1>4, <1>5, <1>9, <2>1, <2>3, <3>1 DEF Describes, s, rest
  <2>4. CASE k # 0
    <3>1. PICK z \in Insertion :
            z.text = rest /\ s = [r EXCEPT !.final = ReplaceLast(r.final, z)]
      BY <1>7, <2>1, <2>2, <2>4
    <3>2. s = [r EXCEPT !.final = <<x, z>>]
      BY <2>2, <3>1
    <3>. QED  BY <1>4, <1>5, <1>9, <2>1, <2>4, <3>1, <3>2 DEF Describes, s, rest
  <2>. QED  BY <2>3, <2>4
<1>. QED  BY <1>8, <1>9 DEF Describes

\* Removing more than everything found so far.
LEMMA DescribedOuterRemoval ==
  ASSUME NEW r \in Resolutions, NEW removed \in Text, NEW inserted \in Text,
         Describes(r.final, removed, inserted),
         NEW edit \in Removal, NEW k \in Nat, 0 < k, k <= Len(edit.text),
         removed # <<>> => r.smallest - edit.location = k,
         removed = <<>> => r.og - edit.location = k
  PROVE  LET s == ResolveOuterRemoval(r, edit)
         IN /\ s.raised = r.raised /\ s.og = r.og /\ s.smallest = edit.location
            /\ Describes(s.final, Prefix(edit.text, k) \o removed, <<>>)
<1>. DEFINE s == ResolveOuterRemoval(r, edit)
            deletedBefore == r.final # <<>> /\ r.final[1].type = "REMOVE"
            kept == IF deletedBefore THEN r.smallest - edit.location
                                     ELSE r.og - edit.location
            text == IF deletedBefore THEN Prefix(edit.text, kept) \o r.final[1].text
                                     ELSE Prefix(edit.text, kept)
            removal == [edit EXCEPT !.text = text, !.length = Len(text)]
            whole == Prefix(edit.text, k) \o removed
<1>1. s = IF kept > Len(edit.text) THEN [r EXCEPT !.raised = TRUE]
          ELSE [r EXCEPT !.final = <<removal>>, !.smallest = edit.location]
  BY DEF ResolveOuterRemoval
<1>2. edit.text \in Text /\ Len(edit.text) \in Nat /\ edit.location \in Int
  BY LenProperties DEF Removal, LocalEdit, Action, Text
<1>3. k \in 0 .. Len(edit.text)
  BY <1>2
<1>4. Prefix(edit.text, k) \in Text /\ Len(Prefix(edit.text, k)) = k
  BY <1>2, <1>3, PrefixElements
<1>5. whole \in Text /\ Len(whole) = k + Len(removed) /\ Len(removed) \in Nat
  BY <1>4, TextsJoin, LenProperties DEF Text
<1>. HIDE DEF whole
<1>6. whole # <<>>
  <2>1. Len(whole) # 0
    BY <1>5
  <2>. QED  BY <1>5, <2>1, EmptyText
<1>7. \A x, y : /\ <<x>> # <<>> /\ <<x, y>> # <<>> /\ <<x>>[1] = x /\ <<x, y>>[1] = x
  <2>1. \A x, y : Len(<<x>>) = 1 /\ Len(<<x, y>>) = 2 /\ Len(<<>>) = 0
    OBVIOUS
  <2>2. \A x, y : <<x>>[1] = x /\ <<x, y>>[1] = x
    OBVIOUS
  <2>. QED  BY <2>1, <2>2
<1>8. /\ deletedBefore <=> removed # <<>>
      /\ removed # <<>> => r.final[1].text = removed
  <2>1. /\ \A x \in Removal : x.type = "REMOVE"
        /\ \A y \in Insertion : y.type # "REMOVE"
    BY DEF Removal, Insertion
  <2>2. CASE removed = <<>>
    <3>1. r.final = <<>> \/ \E y \in Insertion : r.final = <<y>>
      BY <2>2 DEF Describes
    <3>. QED  BY <1>7, <2>1, <2>2, <3>1
  <2>3. CASE removed # <<>>
    <3>1. PICK x \in Removal : x.text = removed /\ (r.final = <<x>> \/ \E y : r.final = <<x, y>>)
      BY <2>3 DEF Describes
    <3>2. r.final # <<>> /\ r.final[1] = x
      BY <1>7, <3>1
    <3>. QED  BY <2>1, <2>3, <3>1, <3>2
  <2>. QED  BY <2>2, <2>3
<1>9. kept = k
  BY <1>8
<1>10. text = whole
  <2>1. CASE removed # <<>>
    BY <1>8, <1>9, <2>1 DEF whole
  <2>2. CASE removed = <<>>
    <3>1. Prefix(edit.text, k) \o <<>> = Prefix(edit.text, k)
      BY <1>4, ConcatEmptySeq DEF Text
    <3>. QED  BY <1>8, <1>9, <2>2, <3>1 DEF whole
  <2>. QED  BY <2>1, <2>2
<1>. HIDE DEF kept, text, deletedBefore
<1>11. removal \in Removal /\ removal.text = whole
  <2>. DEFINE n == Len(whole)
              shortened == [edit EXCEPT !.text = whole, !.length = n]
  <2>1. n \in Nat /\ n \in Int
    BY <1>5
  <2>. HIDE DEF n
  <2>2. shortened \in Removal /\ shortened.text = whole
    BY <1>5, <2>1 DEF Removal, LocalEdit, Action
  <2>. QED  BY <1>10, <2>2 DEF n
<1>. HIDE DEF removal, s
<1>12. s = [r EXCEPT !.final = <<removal>>, !.smallest = edit.location]
  <2>1. ~(kept > Len(edit.text))
    BY <1>2, <1>9
  <2>. QED  BY <1>1, <2>1
<1>13. /\ s.raised = r.raised /\ s.og = r.og /\ s.smallest = edit.location
       /\ s.final = <<removal>>
  BY <1>12 DEF Resolutions
<1>14. Describes(s.final, whole, <<>>)
  BY <1>6, <1>11, <1>13 DEF Describes
<1>. QED  BY <1>13, <1>14 DEF s, whole

LEMMA NoSubstring ==
  ASSUME NEW b \in Text, NEW left \in Int, NEW n \in Int, InRange(b, left, n)
  PROVE  /\ Substring(b, left, n) \in Text
         /\ Substring(b, left, n) = <<>> <=> n = 0
<1>1. Substring(b, left, n) \in Text /\ Len(Substring(b, left, n)) = n
  BY SubstringElements
<1>. QED  BY <1>1, EmptyText

\* The first text edit of a series, at the cursor.
LEMMA FirstResolves ==
  ASSUME NEW v \in Tracks, NEW edit \in LocalEdit, ~IsCursor(edit), Sound(Follow(v, edit))
  PROVE  /\ StartResolving(edit) \in Resolutions
         /\ Resolves(Follow(v, edit), StartResolving(edit), v.text, v.cursor)
<1>. DEFINE r == StartResolving(edit)
            w == Follow(v, edit)
            b == v.text
            c == v.cursor
<1>1. /\ edit.text \in Text /\ Len(edit.text) \in Nat
      /\ edit.location \in Nat /\ edit.length \in Nat
      /\ edit.type = "INSERT" \/ edit.type = "REMOVE"
  BY LocalEditFacts
<1>2. b \in Text /\ c \in Nat /\ Len(b) \in Nat /\ InRange(b, c, 0)
  BY LenProperties DEF Tracks, Text
<1>3. /\ r.final = <<edit>> /\ r.og = edit.location /\ r.smallest = edit.location
      /\ r.raised = FALSE
  BY DEF StartResolving
<1>4. r \in Resolutions
  <2>1. edit \in Removal \cup Insertion /\ edit.location \in Int
    BY <1>1 DEF Removal, Insertion
  <2>2. <<edit>> \in Found
    BY <2>1 DEF Found
  <2>. QED  BY <2>1, <2>2 DEF StartResolving, Resolutions
<1>5. /\ IsPlaced(v, edit) /\ IsTyped(v, edit)
      /\ w.text = TextBehind(v, edit) /\ w.cursor = CursorBehind(edit) /\ w.began = TRUE
  <2>1. IsPlaced(v, edit) /\ IsTyped(v, edit) /\ Follow(v, edit).placed
    BY FollowType DEF Sound
  <2>2. w = [text |-> TextBehind(v, edit), cursor |-> CursorBehind(edit),
             began |-> v.began \/ ~IsCursor(edit), placed |-> TRUE,
             typed |-> v.typed /\ IsTyped(v, edit)]
    BY <2>1, FollowType
  <2>3. (v.began \/ ~IsCursor(edit)) = TRUE
    OBVIOUS
  <2>. HIDE DEF w
  <2>. QED  BY <2>1, <2>2, <2>3
<1>. HIDE DEF r, w, b, c
<1>6. CASE edit.type = "INSERT"
  <2>1. edit.location = c /\ edit.text # <<>>
    BY <1>5, <1>6 DEF IsPlaced, c
  <2>2. w.text = Splice(b, c, 0, edit.text) /\ w.cursor = c + Len(edit.text)
    BY <1>5, <1>6, <2>1 DEF TextBehind, CursorBehind, b
  <2>3. c - c = 0 /\ c \in 0 .. c
    BY <1>2
  <2>4. Substring(b, c, c - c) = <<>>
    BY <1>2, <2>3, NoSubstring
  <2>5. edit \in Insertion
    BY <1>6 DEF Insertion
  <2>6. Describes(r.final, <<>>, edit.text)
    BY <1>3, <2>1, <2>5 DEF Describes
  <2>7. ResolvesTo(w, r, b, c, c, edit.text)
    BY <1>3, <1>5, <2>1, <2>2, <2>3, <2>4, <2>6 DEF ResolvesTo
  <2>8. Resolves(w, r, b, c)
    BY <1>1, <2>3, <2>7 DEF Resolves
  <2>. QED  BY <1>4, <2>8 DEF r, w, b, c
<1>7. CASE edit.type = "REMOVE"
  <2>. DEFINE left == edit.location
              n == edit.length
              none == <<>>
  <2>1. /\ InRange(b, left, n) /\ n > 0 /\ edit.text = Substring(b, left, n)
        /\ left + n = c
    BY <1>5, <1>7 DEF IsPlaced, IsTyped, b, c
  <2>2. w.text = Splice(b, left, n, none) /\ w.cursor = left
    BY <1>5, <1>7 DEF TextBehind, CursorBehind, b
  <2>3. none \in Text /\ Len(none) = 0
    BY EmptySeq DEF Text
  <2>4. left \in Nat /\ n \in Nat /\ r.smallest = left /\ r.og = left
    BY <1>1, <1>3
  <2>5. edit \in Removal
    BY <1>7 DEF Removal
  <2>. HIDE DEF left, n
  <2>6. c - left = n /\ left \in 0 .. c /\ left # c
    BY <1>2, <2>1, <2>4
  <2>7. edit.text # <<>>
    BY <1>2, <2>1, <2>4, NoSubstring
  <2>8. Describes(r.final, Substring(b, left, n), none)
    BY <1>3, <2>1, <2>5, <2>7 DEF Describes
  <2>. HIDE DEF none
  <2>9. left + Len(none) = left
    BY <2>3, <2>4
  <2>10. ResolvesTo(w, r, b, c, left, none)
    BY <1>3, <1>5, <2>2, <2>4, <2>6, <2>8, <2>9 DEF ResolvesTo
  <2>11. Resolves(w, r, b, c)
    BY <2>3, <2>6, <2>10 DEF Resolves
  <2>. QED  BY <1>4, <2>11 DEF r, w, b, c
<1>. QED  BY <1>1, <1>6, <1>7

\* What holds of a state that follows a text edit.
LEMMA SoundStep ==
  ASSUME NEW v \in Tracks, NEW edit \in LocalEdit, Sound(Follow(v, edit)), v.began
  PROVE  LET w == Follow(v, edit)
         IN /\ Sound(v) /\ IsPlaced(v, edit) /\ IsTyped(v, edit) /\ ~IsCursor(edit)
            /\ w.text = TextBehind(v, edit) /\ w.cursor = CursorBehind(edit)
            /\ w.began = TRUE
<1>. DEFINE w == Follow(v, edit)
<1>1. Sound(v) /\ IsPlaced(v, edit) /\ IsTyped(v, edit) /\ w.placed
  BY FollowType DEF Sound
<1>2. ~IsCursor(edit)
  BY <1>1 DEF IsTyped, IsCursor
<1>3. w = [text |-> TextBehind(v, edit), cursor |-> CursorBehind(edit),
           began |-> v.began \/ ~IsCursor(edit), placed |-> TRUE,
           typed |-> v.typed /\ IsTyped(v, edit)]
  BY <1>1, FollowType
<1>4. (v.began \/ ~IsCursor(edit)) = TRUE
  BY <1>2
<1>. HIDE DEF w
<1>5. w.text = TextBehind(v, edit) /\ w.cursor = CursorBehind(edit) /\ w.began = TRUE
  BY <1>3, <1>4
<1>. QED  BY <1>1, <1>2, <1>5 DEF w

LEMMA InsertionResolves ==
  ASSUME NEW b \in Text, NEW c \in Nat, InRange(b, c, 0),
         NEW v \in Tracks, NEW r \in Resolutions, Resolves(v, r, b, c),
         NEW edit \in Insertion, Sound(Follow(v, edit))
  PROVE  Resolves(Follow(v, edit), ResolveInsertion(r, edit), b, c)
<1>. DEFINE w == Follow(v, edit)
            s == ResolveInsertion(r, edit)
            t == edit.text
<1>1. PICK left \in 0 .. c, inserted \in Text : ResolvesTo(v, r, b, c, left, inserted)
  BY DEF Resolves
<1>2. /\ edit \in LocalEdit /\ edit.type = "INSERT" /\ t \in Text /\ Len(t) \in Nat
      /\ v.began
  BY <1>1, LocalEditFacts DEF Insertion, ResolvesTo
<1>3. /\ IsPlaced(v, edit) /\ w.text = TextBehind(v, edit) /\ w.cursor = CursorBehind(edit)
      /\ w.began = TRUE
  BY <1>2, SoundStep
<1>4. /\ edit.location = v.cursor /\ t # <<>>
      /\ w.text = Splice(v.text, v.cursor, 0, t)
      /\ w.cursor = v.cursor + Len(t)
  BY <1>2, <1>3 DEF IsPlaced, TextBehind, CursorBehind
<1>. HIDE DEF w, t
<1>. DEFINE n == c - left
            k == Len(inserted)
            whole == inserted \o t
            removed == Substring(b, left, n)
<1>5. /\ v.text = Splice(b, left, n, inserted) /\ v.cursor = left + k
      /\ ~r.raised /\ r.smallest = left /\ (left = c => r.og = c)
      /\ Describes(r.final, removed, inserted)
  BY <1>1 DEF ResolvesTo
<1>6. left \in Int /\ n \in Int /\ k \in 0 .. Len(inserted) /\ k - k = 0 /\ InRange(b, left, n)
      /\ k \in Nat
  BY LenProperties DEF Text, InRange
<1>7. removed \in Text /\ whole \in Text /\ Len(whole) = k + Len(t)
  BY <1>2, <1>6, NoSubstring, TextsJoin
<1>8. w.text = Splice(b, left, n, whole)
  <2>1. Prefix(inserted, k) = inserted
    <3>1. Prefix(inserted, k) \in Text /\ Len(Prefix(inserted, k)) = Len(inserted)
          /\ \A i \in 1 .. k : Prefix(inserted, k)[i] = inserted[i]
      BY <1>6, PrefixElements
    <3>. QED  BY <3>1, SameText
  <2>. HIDE DEF n, k
  <2>2. Splice(Splice(b, left, n, inserted), left + k, Len(inserted) - k, t)
          = Splice(b, left, n, Prefix(inserted, k) \o t)
    BY <1>2, <1>6, SpliceWithin
  <2>3. Len(inserted) - k = 0
    BY <1>6 DEF k
  <2>. QED  BY <1>4, <1>5, <2>1, <2>2, <2>3
<1>9. /\ s.raised = r.raised /\ s.og = r.og /\ s.smallest = r.smallest
      /\ Describes(s.final, removed, whole)
  <2>1. edit.text # <<>>
    BY <1>4 DEF t
  <2>. HIDE DEF removed
  <2>. QED  BY <1>5, <1>7, <2>1, DescribedInsertion DEF t
<1>. HIDE DEF whole, s
<1>10. w.cursor = left + Len(whole)
  <2>. HIDE DEF k
  <2>. QED  BY <1>2, <1>4, <1>5, <1>6, <1>7
<1>11. ResolvesTo(w, s, b, c, left, whole)
  BY <1>3, <1>5, <1>8, <1>9, <1>10 DEF ResolvesTo
<1>. QED  BY <1>7, <1>11 DEF Resolves, w, s

LEMMA RemovalResolves ==
  ASSUME NEW b \in Text, NEW c \in Nat, InRange(b, c, 0),
         NEW v \in Tracks, NEW r \in Resolutions, Resolves(v, r, b, c),
         NEW edit \in Removal, Sound(Follow(v, edit))
  PROVE  Resolves(Follow(v, edit),
                  IF edit.location < r.smallest THEN ResolveOuterRemoval(r, edit)
                                                ELSE ResolveInnerRemoval(r, edit), b, c)
<1>. DEFINE w == Follow(v, edit)
            t == edit.text
            q == edit.location
            m == edit.length
            none == <<>>
<1>1. PICK left \in 0 .. c, inserted \in Text : ResolvesTo(v, r, b, c, left, inserted)
  BY DEF Resolves
<1>2. /\ edit \in LocalEdit /\ edit.type = "REMOVE" /\ t \in Text /\ Len(t) \in Nat
      /\ q \in Nat /\ m \in Nat /\ v.began
  BY <1>1, LocalEditFacts DEF Removal, ResolvesTo
<1>3. /\ IsPlaced(v, edit) /\ IsTyped(v, edit)
      /\ w.text = TextBehind(v, edit) /\ w.cursor = CursorBehind(edit)
      /\ w.began = TRUE
  BY <1>2, SoundStep
<1>4. /\ InRange(v.text, q, m) /\ m > 0 /\ t = Substring(v.text, q, m)
      /\ q + m = v.cursor
      /\ w.text = Splice(v.text, q, m, none) /\ w.cursor = q
  BY <1>2, <1>3 DEF IsPlaced, IsTyped, TextBehind, CursorBehind
<1>. DEFINE n == c - left
            k == Len(inserted)
            removed == Substring(b, left, n)
<1>5. /\ v.text = Splice(b, left, n, inserted) /\ v.cursor = left + k
      /\ ~r.raised /\ r.smallest = left /\ (left = c => r.og = c)
      /\ Describes(r.final, removed, inserted)
  BY <1>1 DEF ResolvesTo
<1>6. /\ left \in Nat /\ n \in Nat /\ left + n = c /\ InRange(b, left, n)
      /\ k \in Nat /\ Len(b) \in Nat /\ c <= Len(b)
  BY LenProperties DEF Text, InRange
<1>7. removed \in Text /\ (removed = <<>> <=> n = 0)
  BY <1>6, NoSubstring
<1>8. none \in Text /\ Len(none) = 0
  BY EmptySeq DEF Text
<1>9. v.text \in Text
  BY DEF Tracks
<1>. HIDE DEF w, t, q, m, none, n, removed
<1>10. CASE q < left
  <2>. DEFINE s == ResolveOuterRemoval(r, edit)
              j == left - q
              whole == Prefix(t, j) \o removed
  <2>1. /\ j \in Nat /\ 0 < j /\ j <= m /\ q + j = left /\ j \in 0 .. m
        /\ q \in 0 .. left /\ q + m = left + k
    <3>. HIDE DEF k
    <3>. QED  BY <1>2, <1>4, <1>5, <1>6, <1>10
  <2>2. Len(t) = m
    BY <1>2, <1>4, <1>9, SubstringElements
  <2>3. Prefix(t, j) = Substring(b, q, j)
    <3>1. q \in Int /\ m \in Int /\ j \in Int
      BY <1>2, <2>1
    <3>2. Prefix(Substring(v.text, q, m), j) = Substring(v.text, q, j)
      <4>. DEFINE text == v.text
      <4>. HIDE DEF j, text
      <4>1. text \in Text /\ InRange(text, q, m) /\ j \in 0 .. m
        BY <1>4, <1>9, <2>1 DEF text
      <4>2. Prefix(Substring(text, q, m), j) = Substring(text, q, j)
        BY <3>1, <4>1, PrefixOfSubstring
      <4>. QED  BY <4>2 DEF text
    <3>3. Substring(Splice(b, left, n, inserted), q, j) = Substring(b, q, j)
      <4>1. 0 <= q /\ 0 <= j /\ q + j <= left /\ left \in Int /\ n \in Int
        BY <1>2, <1>6, <2>1
      <4>. HIDE DEF j
      <4>. QED  BY <1>6, <3>1, <4>1, SubstringBefore
    <3>. QED  BY <1>4, <1>5, <3>2, <3>3
  <2>4. whole = Substring(b, q, c - q)
    <3>1. /\ InRange(b, q, j + n) /\ q \in Int /\ j + n = c - q
      <4>. HIDE DEF j
      <4>. QED  BY <1>2, <1>6, <2>1 DEF InRange
    <3>. HIDE DEF j
    <3>2. Substring(b, q, j) \o Substring(b, q + j, n) = Substring(b, q, j + n)
      <4>1. q \in Int /\ j \in Nat /\ n \in Nat
        BY <1>6, <2>1, <3>1
      <4>2. InRange(b, q, j + n)
        BY <3>1
      <4>. HIDE DEF q, n
      <4>. QED  BY <4>1, <4>2, SubstringsJoin
    <3>. QED  BY <2>1, <2>3, <3>1, <3>2 DEF removed
  <2>5. /\ s.raised = r.raised /\ s.og = r.og /\ s.smallest = q
        /\ Describes(s.final, whole, none)
    <3>1. removed # <<>> => r.smallest - edit.location = j
      BY <1>5 DEF q
    <3>2. removed = <<>> => r.og - edit.location = j
      BY <1>5, <1>6, <1>7 DEF q
    <3>3. j <= Len(edit.text)
      BY <1>2, <2>1, <2>2 DEF t
    <3>. HIDE DEF j, s, whole
    <3>4. LET z == ResolveOuterRemoval(r, edit)
          IN /\ z.raised = r.raised /\ z.og = r.og /\ z.smallest = edit.location
             /\ Describes(z.final, Prefix(edit.text, j) \o removed, <<>>)
      BY <1>5, <1>7, <2>1, <3>1, <3>2, <3>3, DescribedOuterRemoval
    <3>. QED  BY <3>4 DEF s, whole, t, q, none
  <2>6. w.text = Splice(b, q, c - q, none)
    <3>1. left + n - q = c - q /\ left \in Int /\ n \in Int /\ m \in Int
          /\ q + m = left + Len(inserted)
      BY <1>2, <1>6, <2>1
    <3>2. Splice(Splice(b, left, n, inserted), q, m, none)
            = Splice(b, q, left + n - q, none)
      BY <1>6, <1>8, <2>1, <3>1, SpliceOver
    <3>. QED  BY <1>4, <1>5, <3>1, <3>2
  <2>7. q \in 0 .. c /\ q # c /\ q + Len(none) = q
    BY <1>2, <1>6, <1>8, <1>10
  <2>. HIDE DEF s, j, whole
  <2>8. ResolvesTo(w, s, b, c, q, none)
    BY <1>3, <1>4, <1>5, <2>4, <2>5, <2>6, <2>7 DEF ResolvesTo
  <2>9. Resolves(w, s, b, c)
    BY <1>8, <2>7, <2>8 DEF Resolves
  <2>10. edit.location < r.smallest
    BY <1>5, <1>10 DEF q
  <2>. QED  BY <2>9, <2>10 DEF w, s
<1>11. CASE ~(q < left)
  <2>. DEFINE s == ResolveInnerRemoval(r, edit)
              j == q - left
              rest == Prefix(inserted, j)
  <2>1. /\ j \in Nat /\ j + m = k /\ left + j = q /\ j \in 0 .. k /\ k # 0
    <3>. HIDE DEF q, m, k
    <3>1. /\ q \in Nat /\ m \in Nat /\ m > 0 /\ left \in Nat /\ k \in Nat
          /\ q + m = left + k
      BY <1>2, <1>4, <1>5, <1>6
    <3>2. left <= q
      BY <1>11, <3>1
    <3>. QED  BY <3>1, <3>2
  <2>2. rest \in Text /\ Len(rest) = j
    BY <2>1, PrefixElements
  <2>3. inserted # <<>>
    BY <2>1, EmptyText
  <2>4. /\ s.raised = r.raised /\ s.og = r.og /\ s.smallest = r.smallest
        /\ Describes(s.final, removed, rest)
    <3>1. j + edit.length = Len(inserted)
      BY <2>1 DEF m
    <3>. HIDE DEF j
    <3>. QED  BY <1>5, <1>7, <2>1, <2>3, <3>1, DescribedInnerRemoval
  <2>5. w.text = Splice(b, left, n, rest)
    <3>. HIDE DEF j
    <3>1. left \in Int /\ n \in Int /\ Len(inserted) - j = m
      BY <1>2, <1>6, <2>1
    <3>2. Splice(Splice(b, left, n, inserted), left + j, Len(inserted) - j, none)
            = Splice(b, left, n, Prefix(inserted, j) \o none)
      <4>1. InRange(b, left, n) /\ none \in Text /\ j \in 0 .. Len(inserted)
        BY <1>6, <1>8, <2>1
      <4>. QED  BY <3>1, <4>1, SpliceWithin
    <3>3. rest \o none = rest
      BY <2>2, ConcatEmptySeq DEF none, Text
    <3>. QED  BY <1>4, <1>5, <2>1, <3>1, <3>2, <3>3
  <2>6. w.cursor = left + Len(rest)
    BY <1>4, <2>1, <2>2
  <2>. HIDE DEF s, j, rest
  <2>7. ResolvesTo(w, s, b, c, left, rest)
    BY <1>3, <1>5, <2>4, <2>5, <2>6 DEF ResolvesTo, n, removed
  <2>8. Resolves(w, s, b, c)
    BY <2>2, <2>7 DEF Resolves
  <2>9. ~(edit.location < r.smallest)
    BY <1>5, <1>11 DEF q
  <2>. QED  BY <2>8, <2>9 DEF w, s
<1>. QED  BY <1>10, <1>11

LEMMA NextResolves ==
  ASSUME NEW b \in Text, NEW c \in Nat, InRange(b, c, 0),
         NEW v \in Tracks, NEW r \in Resolutions, Resolves(v, r, b, c),
         NEW edit \in LocalEdit, Sound(Follow(v, edit))
  PROVE  Resolves(Follow(v, edit), ResolveEdit(r, edit), b, c)
<1>1. ~r.raised /\ v.began
  BY DEF Resolves, ResolvesTo
<1>2. ~IsCursor(edit)
  BY <1>1, SoundStep
<1>3. edit.type = "INSERT" \/ edit.type = "REMOVE"
  BY <1>2, LocalEditFacts
<1>4. CASE edit.type = "INSERT"
  <2>1. ResolveEdit(r, edit) = ResolveInsertion(r, edit)
    BY <1>1, <1>2, <1>4 DEF ResolveEdit
  <2>2. edit \in Insertion
    BY <1>4 DEF Insertion
  <2>. QED  BY <2>1, <2>2, InsertionResolves
<1>5. CASE edit.type = "REMOVE"
  <2>1. ResolveEdit(r, edit) = IF edit.location < r.smallest
                               THEN ResolveOuterRemoval(r, edit)
                               ELSE ResolveInnerRemoval(r, edit)
    BY <1>1, <1>2, <1>5 DEF ResolveEdit
  <2>2. edit \in Removal
    BY <1>5 DEF Removal
  <2>. QED  BY <2>1, <2>2, RemovalResolves
<1>. QED  BY <1>3, <1>4, <1>5

----------------------------------------------------------------------------
(***************************************************************************)
(* The whole series: the movements it begins with, then the text edits     *)
(***************************************************************************)

LEMMA FollowedConcat ==
  ASSUME NEW v, NEW s \in Seq(LocalEdit), NEW t \in Seq(LocalEdit)
  PROVE  Followed(v, s \o t) = Followed(Followed(v, s), t)
BY Following!LoopOfConcat DEF Followed

\* Nothing mends a series that is not sound.
LEMMA SoundBefore ==
  ASSUME NEW v \in Tracks, NEW edits \in Seq(LocalEdit), Sound(Followed(v, edits))
  PROVE  Sound(v)
<1>. DEFINE T == {s \in Seq(LocalEdit) : Sound(Followed(v, s)) => Sound(v)}
<1>1. <<>> \in T
  <2>1. Followed(v, <<>>) = v
    BY Following!LoopOfNothing DEF Followed
  <2>. QED  BY <2>1, EmptySeq
<1>2. ASSUME NEW s \in Seq(LocalEdit), s \in T, NEW edit \in LocalEdit
      PROVE  Append(s, edit) \in T
  <2>1. Append(s, edit) \in Seq(LocalEdit)
    BY AppendProperties
  <2>2. Followed(v, Append(s, edit)) = Follow(Followed(v, s), edit)
    BY FollowedSteps
  <2>3. Sound(Follow(Followed(v, s), edit)) => Sound(Followed(v, s))
    BY FollowedType, FollowType
  <2>. QED  BY <1>2, <2>1, <2>2, <2>3
<1>. HIDE DEF T
<1>3. Seq(LocalEdit) \subseteq T
  BY <1>1, <1>2, Following!AllSequences
<1>. QED  BY <1>3 DEF T

\* Of the movements that a series begins with the last one counts.
LEMMA MovesFollow ==
  ASSUME NEW v \in Tracks, NEW edits \in Seq(LocalEdit), Sound(Followed(v, edits)),
         \A i \in 1 .. Len(edits) : IsCursor(edits[i])
  PROVE  LET w == Followed(v, edits)
         IN /\ w.text = v.text
            /\ w.cursor = IF edits = <<>> THEN v.cursor ELSE edits[Len(edits)].location
<1>. DEFINE Cursors(s) == \A i \in 1 .. Len(s) : IsCursor(s[i])
            T == {s \in Seq(LocalEdit) : Sound(Followed(v, s)) /\ Cursors(s) =>
                    /\ Followed(v, s).text = v.text
                    /\ Followed(v, s).cursor
                         = IF s = <<>> THEN v.cursor ELSE s[Len(s)].location}
<1>1. <<>> \in T
  <2>1. Followed(v, <<>>) = v
    BY Following!LoopOfNothing DEF Followed
  <2>. QED  BY <2>1, EmptySeq
<1>2. ASSUME NEW s \in Seq(LocalEdit), s \in T, NEW edit \in LocalEdit
      PROVE  Append(s, edit) \in T
  <2>. DEFINE t == Append(s, edit)
              n == Len(s)
  <2>1. /\ t \in Seq(LocalEdit) /\ t # <<>> /\ Len(t) = n + 1 /\ n \in Nat
        /\ t[n + 1] = edit /\ \A i \in 1 .. n : t[i] = s[i]
    BY AppendProperties, LenProperties
  <2>2. Followed(v, t) = Follow(Followed(v, s), edit) /\ Followed(v, s) \in Tracks
    BY FollowedSteps, FollowedType
  <2>. HIDE DEF t, n
  <2>3. SUFFICES ASSUME Sound(Followed(v, t)), \A i \in 1 .. n + 1 : IsCursor(t[i])
                 PROVE  /\ Followed(v, t).text = v.text
                        /\ Followed(v, t).cursor = edit.location
    BY <2>1 DEF t
  <2>4. IsCursor(edit) /\ \A i \in 1 .. n : IsCursor(s[i])
    <3>1. \A i \in 1 .. n : i \in 1 .. n + 1
      BY <2>1
    <3>2. n + 1 \in 1 .. n + 1
      BY <2>1
    <3>. QED  BY <2>1, <2>3, <3>1, <3>2
  <2>. DEFINE u == Followed(v, s)
              w == Follow(u, edit)
  <2>5. Sound(u) /\ w.placed
    <3>. HIDE DEF u
    <3>. QED  BY <2>2, <2>3, FollowType DEF u, Sound
  <2>6. u.text = v.text
    BY <1>2, <2>4, <2>5 DEF n
  <2>7. w = [text |-> TextBehind(u, edit), cursor |-> CursorBehind(edit),
             began |-> u.began \/ ~IsCursor(edit), placed |-> TRUE,
             typed |-> u.typed /\ IsTyped(u, edit)]
    BY <2>2, <2>5, FollowType
  <2>8. TextBehind(u, edit) = u.text /\ CursorBehind(edit) = edit.location
    BY <2>4 DEF TextBehind, CursorBehind, IsCursor
  <2>9. w.text = u.text /\ w.cursor = edit.location
    <3>. HIDE DEF u, w
    <3>. QED  BY <2>7, <2>8
  <2>. QED  BY <2>2, <2>6, <2>9
<1>. HIDE DEF T
<1>3. Seq(LocalEdit) \subseteq T
  BY <1>1, <1>2, Following!AllSequences
<1>. QED  BY <1>3 DEF T

\* The loop of resolveMergedEdits, next to the text view.
LEMMA TextsResolve ==
  ASSUME NEW v \in Tracks, NEW first \in LocalEdit, ~IsCursor(first),
         NEW rest \in Seq(LocalEdit), Sound(Followed(Follow(v, first), rest))
  PROVE  Resolves(Followed(Follow(v, first), rest),
                  FoldLeft(ResolveEdit, StartResolving(first), rest), v.text, v.cursor)
<1>. DEFINE w == Follow(v, first)
            start == StartResolving(first)
            b == v.text
            c == v.cursor
            R(s) == Resolving!Looped(0, start, s)
            T == {s \in Seq(LocalEdit) : Sound(Followed(w, s)) =>
                    R(s) \in Resolutions /\ Resolves(Followed(w, s), R(s), b, c)}
<1>1. w \in Tracks
  BY FollowType
<1>2. b \in Text /\ c \in Nat /\ InRange(b, c, 0)
  BY DEF Tracks
<1>3. <<>> \in T
  <2>1. Followed(w, <<>>) = w /\ R(<<>>) = start
    BY Following!LoopOfNothing, Resolving!LoopOfNothing DEF Followed
  <2>2. Sound(w) => start \in Resolutions /\ Resolves(w, start, b, c)
    BY FirstResolves
  <2>. HIDE DEF w, start, R, b, c
  <2>. QED  BY <2>1, <2>2, EmptySeq
<1>. HIDE DEF w, b, c
<1>4. ASSUME NEW s \in Seq(LocalEdit), s \in T, NEW edit \in LocalEdit
      PROVE  Append(s, edit) \in T
  <2>1. Append(s, edit) \in Seq(LocalEdit)
    BY AppendProperties
  <2>2. /\ Followed(w, Append(s, edit)) = Follow(Followed(w, s), edit)
        /\ Followed(w, s) \in Tracks
    BY <1>1, FollowedSteps, FollowedType
  <2>3. R(Append(s, edit)) = ResolveEdit(R(s), edit)
    <3>1. Resolving!Looped(0, start, Append(s, edit))
            = Resolve(0, Resolving!Looped(0, start, s), edit)
      <4>. HIDE DEF start
      <4>. QED  BY Resolving!LoopOfAppend
    <3>. QED  BY <3>1 DEF Resolve
  <2>. HIDE DEF R
  <2>4. SUFFICES ASSUME Sound(Follow(Followed(w, s), edit))
                 PROVE  /\ ResolveEdit(R(s), edit) \in Resolutions
                        /\ Resolves(Follow(Followed(w, s), edit),
                                    ResolveEdit(R(s), edit), b, c)
    BY <2>1, <2>2, <2>3
  <2>5. Sound(Followed(w, s))
    BY <2>2, <2>4, FollowType
  <2>6. R(s) \in Resolutions /\ Resolves(Followed(w, s), R(s), b, c)
    BY <1>4, <2>5
  <2>. QED  BY <1>2, <2>2, <2>4, <2>6, NextResolves, ResolveEditFound
<1>. HIDE DEF T
<1>5. Seq(LocalEdit) \subseteq T
  BY <1>3, <1>4, Following!AllSequences
<1>6. FoldLeft(ResolveEdit, start, rest) = R(rest)
  BY DEF Resolving!Looped, Resolve, FoldLeft, Resolving!FoldLeft,
         MapThenFoldSet, Resolving!MapThenFoldSet, Max, Resolving!Max
<1>. HIDE DEF R, start
<1>7. Resolves(Followed(w, rest), R(rest), b, c)
  <2>1. Sound(Followed(w, rest))
    BY DEF w
  <2>. QED  BY <1>5, <2>1 DEF T
<1>. QED  BY <1>6, <1>7 DEF w, b, c, start

----------------------------------------------------------------------------
(***************************************************************************)
(* What a client that rendered all before makes of the actions.            *)
(***************************************************************************)

RenderNext(p, d, a) == Render(d, a)

Rendering == INSTANCE FoldProofs WITH Step <- RenderNext

Rendered(d, edits) == FoldLeft(Render, d, OnTheWireAll(User1, edits))

Shows(d, text, cursor) ==
  d \in Document /\ d.text = text /\ d.cursors[User1] = cursor

LEMMA PairIsConcat ==
  ASSUME NEW x, NEW y
  PROVE  <<x>> \o <<y>> = <<x, y>>
<1>. DEFINE S == {x, y}
            s == <<x>> \o <<y>>
            t == <<x, y>>
<1>1. <<x>> \in Seq(S) /\ <<y>> \in Seq(S) /\ t \in Seq(S)
  OBVIOUS
<1>2. /\ Len(<<x>>) = 1 /\ Len(<<y>>) = 1 /\ Len(t) = 2
      /\ <<x>>[1] = x /\ <<y>>[1] = y /\ t[1] = x /\ t[2] = y
  OBVIOUS
<1>. HIDE DEF S, t
<1>3. s \in Seq(S) /\ Len(s) = 2 /\ s[1] = x /\ s[2] = y
  BY <1>1, <1>2, ConcatProperties
<1>. HIDE DEF s
<1>4. \A i \in 1 .. 2 : s[i] = t[i]
  BY <1>2, <1>3
<1>. QED  BY <1>1, <1>2, <1>3, <1>4, SeqEqual DEF s, t

LEMMA RenderedIsLoop ==
  ASSUME NEW d, NEW edits
  PROVE  Rendered(d, edits) = Rendering!Looped(0, d, OnTheWireAll(User1, edits))
BY DEF Rendered, Rendering!Looped, RenderNext, FoldLeft, Rendering!FoldLeft,
       MapThenFoldSet, Rendering!MapThenFoldSet, Max, Rendering!Max

LEMMA RenderedSteps ==
  ASSUME NEW d
  PROVE  /\ Rendered(d, <<>>) = d
         /\ \A edit : Rendered(d, <<edit>>) = Render(d, OnTheWire(User1, edit))
<1>1. Rendered(d, <<>>) = d
  <2>1. OnTheWireAll(User1, <<>>) = <<>>
    BY DEF OnTheWireAll
  <2>. QED  BY <2>1, RenderedIsLoop, Rendering!LoopOfNothing
<1>2. ASSUME NEW edit
      PROVE  Rendered(d, <<edit>>) = Render(d, OnTheWire(User1, edit))
  <2>. DEFINE a == OnTheWire(User1, edit)
              none == <<>>
              S == {a}
  <2>1. OnTheWireAll(User1, <<edit>>) = <<a>>
    BY DEF OnTheWireAll
  <2>. HIDE DEF a
  <2>2. Append(none, a) = <<a>>
    BY ShortSequences
  <2>3. none \in Seq(S) /\ a \in S
    BY EmptySeq
  <2>. HIDE DEF S, none
  <2>4. Rendering!Looped(0, d, Append(none, a))
          = RenderNext(0, Rendering!Looped(0, d, none), a)
    BY <2>3, Rendering!LoopOfAppend
  <2>5. Rendering!Looped(0, d, none) = d
    BY Rendering!LoopOfNothing DEF none
  <2>6. Rendering!Looped(0, d, <<a>>) = Render(d, a)
    BY <2>2, <2>4, <2>5 DEF RenderNext
  <2>. QED  BY <2>1, <2>6, RenderedIsLoop DEF a
<1>. QED  BY <1>1, <1>2

LEMMA RenderedConcat ==
  ASSUME NEW d, NEW s \in Seq(LocalEdit), NEW t \in Seq(LocalEdit)
  PROVE  Rendered(d, s \o t) = Rendered(Rendered(d, s), t)
<1>. DEFINE Wire(r) == OnTheWireAll(User1, r)
<1>1. \A r \in Seq(LocalEdit) : Wire(r) \in Seq(SentAction)
  BY User1Assumption, LocalEditsAreActions, OnTheWireAllType
<1>2. Wire(s \o t) = Wire(s) \o Wire(t)
  BY User1Assumption, LocalEditsAreActions, WireOfConcat
<1>. HIDE DEF Wire
<1>3. Wire(s) \in Seq(SentAction) /\ Wire(t) \in Seq(SentAction)
  BY <1>1
<1>4. Rendering!Looped(0, d, Wire(s) \o Wire(t))
        = Rendering!Looped(0, Rendering!Looped(0, d, Wire(s)), Wire(t))
  BY <1>3, Rendering!LoopOfConcat
<1>5. \A e, r : Rendered(e, r) = Rendering!Looped(0, e, Wire(r))
  BY RenderedIsLoop DEF Wire
<1>. QED  BY <1>2, <1>4, <1>5

LEMMA MovementRendered ==
  ASSUME NEW d, NEW text \in Text, NEW cursor, Shows(d, text, cursor),
         NEW edit \in LocalEdit, IsCursor(edit)
  PROVE  Shows(Rendered(d, <<edit>>), text, edit.location)
<1>. DEFINE a == OnTheWire(User1, edit)
            e == Render(d, a)
<1>1. /\ d = [text |-> d.text, cursors |-> d.cursors] /\ d.cursors \in CursorMap
      /\ d.text = text /\ d \in Document
  BY DEF Shows, Document
<1>2. a \in SentAction /\ a.type = "CURSOR" /\ a.user = User1 /\ a.location = edit.location
  <2>1. edit \in Action /\ a = CursorAction(edit.location, User1)
    BY DEF LocalEdit, OnTheWire
  <2>2. a \in SentAction
    BY <2>1, User1Assumption, OnTheWireType
  <2>3. a.type = "CURSOR" /\ a.user = User1 /\ a.location = edit.location
    BY <2>1 DEF CursorAction
  <2>. QED  BY <2>2, <2>3
<1>. HIDE DEF a
<1>3. e = [text |-> d.text, cursors |-> [d.cursors EXCEPT ![User1] = edit.location]]
  BY <1>1, <1>2 DEF Render, IsCursor
<1>4. e \in Document
  BY <1>1, <1>2, RenderType
<1>. HIDE DEF e
<1>5. e.text = text /\ e.cursors[User1] = edit.location
  BY <1>1, <1>3, User1Assumption DEF CursorMap
<1>6. Rendered(d, <<edit>>) = e
  BY RenderedSteps DEF e, a
<1>. QED  BY <1>4, <1>5, <1>6 DEF Shows

\* A text edit is put at the author's cursor, and moves it.
LEMMA TextRendered ==
  ASSUME NEW d, NEW text \in Text, NEW cursor \in Nat, Shows(d, text, cursor),
         NEW edit \in Removal \cup Insertion,
         NEW p, p = [OnTheWire(User1, edit)
                       EXCEPT !.location = cursor,
                              !.length = IF edit.type = "REMOVE" THEN Len(edit.text) ELSE 0],
         VerifyEdit(text, p) = "accept", CanSplice(text, p)
  PROVE  Shows(Rendered(d, <<edit>>), EditedText(text, p), MovedCursor(cursor, p))
<1>. DEFINE a == OnTheWire(User1, edit)
            e == Render(d, a)
            cursors == d.cursors
            known == [cursors EXCEPT ![User1] = IF @ = NoCursor THEN LeftIndex(p) ELSE @]
<1>1. cursors \in CursorMap /\ cursors[User1] = cursor /\ d.text = text /\ d \in Document
  BY DEF Shows, Document
<1>2. edit \in LocalEdit /\ edit.type \in {"REMOVE", "INSERT"} /\ ~edit.isUndo /\ ~edit.isRedo
  BY DEF Removal, Insertion, LocalEdit
<1>3. /\ a = [type |-> edit.type, user |-> User1, text |-> edit.text,
              location |-> edit.location, length |-> 0,
              isUndo |-> edit.isUndo, isRedo |-> edit.isRedo]
      /\ a \in SentAction
  <2>1. edit \in Action
    BY <1>2 DEF LocalEdit
  <2>. QED  BY <1>2, <2>1, User1Assumption, OnTheWireType DEF OnTheWire, IsCursor
<1>. HIDE DEF a
<1>4. cursor # NoCursor
  BY NoCursorAssumption
<1>5. p = Placed(cursors, a) /\ p.user = User1
  <2>. DEFINE n == IF edit.type = "REMOVE" THEN Len(edit.text) ELSE 0
  <2>1. a.type = edit.type /\ a.text = edit.text /\ a.user = User1 /\ ~a.isUndo /\ ~a.isRedo
    BY <1>2, <1>3
  <2>2. p = [a EXCEPT !.location = cursor, !.length = n]
    BY DEF a
  <2>3. Placed(cursors, a) = [a EXCEPT !.location = cursor, !.length = n]
    BY <1>1, <1>4, <2>1 DEF Placed
  <2>4. p.user = User1
    <3>. HIDE DEF n
    <3>. QED  BY <1>3, <2>2
  <2>. QED  BY <2>2, <2>3, <2>4
<1>6. ~IsCursor(a) /\ Outcome(d, a) = "accept"
  BY <1>1, <1>2, <1>3, <1>5 DEF IsCursor, Outcome
<1>7. e = [text |-> EditedText(text, p), cursors |-> UpdateCursors(cursors, p)]
  BY <1>1, <1>5, <1>6 DEF Render, RenderText
<1>8. UpdateCursors(cursors, p)[User1] = MovedCursor(cursor, p)
  <2>1. known[User1] = cursor
    BY <1>1, <1>4, User1Assumption DEF CursorMap
  <2>2. UpdateCursors(cursors, p)
          = [u \in Client |-> IF known[u] = NoCursor THEN NoCursor ELSE MovedCursor(known[u], p)]
    BY <1>5 DEF UpdateCursors
  <2>. HIDE DEF known
  <2>. QED  BY <1>4, <2>1, <2>2, User1Assumption
<1>9. e \in Document
  BY <1>1, <1>3, RenderType
<1>. HIDE DEF e
<1>10. Rendered(d, <<edit>>) = e
  BY RenderedSteps DEF e, a
<1>. QED  BY <1>7, <1>8, <1>9, <1>10 DEF Shows

LEMMA InsertionRendered ==
  ASSUME NEW d, NEW text \in Text, NEW cursor \in Nat, Shows(d, text, cursor),
         InRange(text, cursor, 0), NEW edit \in Insertion
  PROVE  Shows(Rendered(d, <<edit>>), Splice(text, cursor, 0, edit.text),
               cursor + Len(edit.text))
<1>. DEFINE p == [OnTheWire(User1, edit)
                    EXCEPT !.location = cursor,
                           !.length = IF edit.type = "REMOVE" THEN Len(edit.text) ELSE 0]
<1>1. edit.type = "INSERT" /\ Len(edit.text) \in Nat
  BY LenProperties DEF Insertion, LocalEdit, Action, Text
<1>2. p.type = "INSERT" /\ p.text = edit.text /\ p.location = cursor /\ p.length = 0
  BY <1>1 DEF OnTheWire, IsCursor
<1>. HIDE DEF p
<1>3. VerifyEdit(text, p) = "accept" /\ CanSplice(text, p)
  BY <1>2 DEF VerifyEdit, CanSplice
<1>4. EditedText(text, p) = Splice(text, cursor, 0, edit.text)
  BY <1>2 DEF EditedText
<1>5. MovedCursor(cursor, p) = cursor + Len(edit.text)
  BY <1>1, <1>2 DEF MovedCursor, LeftIndex
<1>6. edit \in Removal \cup Insertion
  OBVIOUS
<1>. QED  BY <1>3, <1>4, <1>5, <1>6, TextRendered DEF p

LEMMA RemovalRendered ==
  ASSUME NEW d, NEW text \in Text, NEW cursor \in Nat, Shows(d, text, cursor),
         InRange(text, cursor, 0), NEW left \in Nat, left < cursor,
         NEW edit \in Removal, edit.text = Substring(text, left, cursor - left)
  PROVE  Shows(Rendered(d, <<edit>>), Splice(text, left, cursor - left, <<>>), left)
<1>. DEFINE p == [OnTheWire(User1, edit)
                    EXCEPT !.location = cursor,
                           !.length = IF edit.type = "REMOVE" THEN Len(edit.text) ELSE 0]
            n == cursor - left
<1>1. n \in Nat /\ InRange(text, left, n) /\ Len(text) \in Nat
  BY LenProperties DEF InRange, Text
<1>2. Len(edit.text) = n
  <2>1. left \in Int /\ n \in Int
    BY <1>1
  <2>. QED  BY <1>1, <2>1, SubstringElements
<1>3. edit.type = "REMOVE"
  BY DEF Removal
<1>4. p.type = "REMOVE" /\ p.text = edit.text /\ p.location = cursor /\ p.length = n
  BY <1>2, <1>3 DEF OnTheWire, IsCursor
<1>. HIDE DEF p
<1>5. LeftIndex(p) = left /\ RightIndex(p) = cursor
  BY <1>4 DEF LeftIndex, RightIndex
<1>6. VerifyEdit(text, p) = "accept" /\ CanSplice(text, p)
  BY <1>1, <1>4, <1>5 DEF VerifyEdit, CanSplice
<1>7. EditedText(text, p) = Splice(text, left, n, <<>>)
  BY <1>4, <1>5 DEF EditedText
<1>8. MovedCursor(cursor, p) = left
  BY <1>4, <1>5 DEF MovedCursor
<1>9. edit \in Removal \cup Insertion
  OBVIOUS
<1>. QED  BY <1>6, <1>7, <1>8, <1>9, TextRendered DEF p, n

\* A stretch is replaced by removing it and putting a text in its place.
LEMMA CutAndPut ==
  ASSUME NEW b \in Text, NEW left \in Int, NEW n \in Int, InRange(b, left, n),
         NEW inserted \in Text
  PROVE  LET cut == Splice(b, left, n, <<>>)
         IN /\ cut \in Text /\ InRange(cut, left, 0)
            /\ Splice(cut, left, 0, inserted) = Splice(b, left, n, inserted)
<1>. DEFINE none == <<>>
            cut == Splice(b, left, n, none)
            k == 0
            m == Len(none) - k
<1>1. none \in Text /\ Len(none) = 0 /\ Len(b) \in Nat
  BY EmptySeq, LenProperties DEF Text
<1>2. k \in 0 .. Len(none) /\ m = 0 /\ left + k = left
  BY <1>1
<1>3. Prefix(none, k) \o inserted = inserted
  <2>1. Prefix(none, k) = <<>>
    BY <1>1, SubSeqEmpty DEF Prefix
  <2>. QED  BY <2>1, ConcatEmptySeq DEF Text
<1>. HIDE DEF none, k
<1>4. cut \in Text /\ Len(cut) = Len(b) - n + Len(none)
  BY <1>1, SpliceType
<1>5. Splice(cut, left + k, m, inserted) = Splice(b, left, n, Prefix(none, k) \o inserted)
  BY <1>1, <1>2, SpliceWithin
<1>. HIDE DEF cut, m
<1>6. InRange(cut, left, 0)
  <2>1. 0 <= left /\ left + n <= Len(b)
    BY DEF InRange
  <2>2. left + 0 <= Len(cut)
    BY <1>1, <1>4, <2>1
  <2>. QED  BY <2>1, <2>2 DEF InRange
<1>. QED  BY <1>2, <1>3, <1>4, <1>5, <1>6 DEF cut, none

\* Actions that describe a removal that ends at the cursor and what is put in its
\* place, do just that.
LEMMA DescribedRendered ==
  ASSUME NEW d, NEW b \in Text, NEW c \in Nat, Shows(d, b, c), InRange(b, c, 0),
         NEW left \in 0 .. c, NEW inserted \in Text, NEW final,
         Describes(final, Substring(b, left, c - left), inserted)
  PROVE  Shows(Rendered(d, final), Splice(b, left, c - left, inserted),
               left + Len(inserted))
<1>. DEFINE n == c - left
            removed == Substring(b, left, n)
            none == <<>>
<1>1. /\ n \in Nat /\ n \in Int /\ left \in Nat /\ left \in Int /\ InRange(b, left, n)
      /\ Len(b) \in Nat
  BY LenProperties DEF InRange, Text
<1>2. removed \in Text /\ Len(removed) = n
  BY <1>1, SubstringElements
<1>3. none \in Text /\ Len(none) = 0 /\ Len(inserted) \in Nat
  BY EmptySeq, LenProperties DEF Text
<1>4. (removed = none <=> n = 0) /\ (inserted = none <=> Len(inserted) = 0)
  <2>1. removed = <<>> <=> Len(removed) = 0
    BY <1>2, EmptyText
  <2>2. inserted = <<>> <=> Len(inserted) = 0
    BY EmptyText
  <2>. QED  BY <1>2, <2>1, <2>2
<1>. HIDE DEF removed
<1>5. CASE removed = none /\ inserted = none /\ final = none
  <2>1. Rendered(d, final) = d
    BY <1>5, RenderedSteps
  <2>2. n = 0 /\ left = c
    BY <1>1, <1>4, <1>5
  <2>3. Splice(b, left, n, inserted) = b
    <3>1. Splice(b, left, 0, <<>>) = b
      BY <1>1, <2>2, NothingSpliced
    <3>. HIDE DEF n
    <3>. QED  BY <1>5, <2>2, <3>1
  <2>4. left + Len(inserted) = c
    BY <1>3, <1>5, <2>2
  <2>. QED  BY <2>1, <2>3, <2>4
<1>6. CASE removed = none /\ \E y \in Insertion : y.text = inserted /\ final = <<y>>
  <2>1. PICK y \in Insertion : y.text = inserted /\ final = <<y>>
    BY <1>6
  <2>2. n = 0 /\ left = c
    BY <1>1, <1>4, <1>6
  <2>3. Shows(Rendered(d, <<y>>), Splice(b, c, 0, y.text), c + Len(y.text))
    BY InsertionRendered
  <2>. HIDE DEF n
  <2>. QED  BY <2>1, <2>2, <2>3 DEF n
<1>7. CASE /\ removed # none /\ inserted = none
           /\ \E x \in Removal : x.text = removed /\ final = <<x>>
  <2>1. PICK x \in Removal : x.text = removed /\ final = <<x>>
    BY <1>7
  <2>2. left < c
    BY <1>1, <1>4, <1>7
  <2>3. Shows(Rendered(d, <<x>>), Splice(b, left, c - left, <<>>), left)
    BY <1>1, <2>1, <2>2, RemovalRendered DEF removed
  <2>4. left + Len(inserted) = left
    BY <1>1, <1>3, <1>7
  <2>. QED  BY <1>7, <2>1, <2>3, <2>4
<1>8. CASE /\ removed # none
           /\ \E x \in Removal, y \in Insertion :
                x.text = removed /\ y.text = inserted /\ final = <<x, y>>
  <2>1. PICK x \in Removal, y \in Insertion :
          x.text = removed /\ y.text = inserted /\ final = <<x, y>>
    BY <1>8
  <2>2. left < c
    BY <1>1, <1>4, <1>8
  <2>. DEFINE e == Rendered(d, <<x>>)
              cut == Splice(b, left, n, none)
  <2>3. Shows(e, cut, left)
    BY <1>1, <2>1, <2>2, RemovalRendered DEF removed
  <2>4. cut \in Text /\ InRange(cut, left, 0)
    <3>. HIDE DEF n
    <3>. QED  BY <1>1, CutAndPut
  <2>. HIDE DEF e
  <2>5. Shows(Rendered(e, <<y>>), Splice(cut, left, 0, y.text), left + Len(y.text))
    <3>. HIDE DEF cut
    <3>. QED  BY <1>1, <2>3, <2>4, InsertionRendered
  <2>6. Splice(cut, left, 0, inserted) = Splice(b, left, n, inserted)
    <3>. HIDE DEF n
    <3>. QED  BY <1>1, CutAndPut
  <2>7. Rendered(d, final) = Rendered(e, <<y>>)
    <3>1. <<x>> \in Seq(LocalEdit) /\ <<y>> \in Seq(LocalEdit)
      <4>1. x \in LocalEdit /\ y \in LocalEdit
        BY DEF Removal, Insertion
      <4>. QED  BY <4>1
    <3>2. <<x, y>> = <<x>> \o <<y>>
      BY PairIsConcat
    <3>. DEFINE s == <<x>>
                t == <<y>>
    <3>3. s \in Seq(LocalEdit) /\ t \in Seq(LocalEdit) /\ final = s \o t
      BY <2>1, <3>1, <3>2
    <3>. HIDE DEF s, t
    <3>4. Rendered(d, s \o t) = Rendered(Rendered(d, s), t)
      BY <3>3, RenderedConcat
    <3>. QED  BY <3>3, <3>4 DEF e, s, t
  <2>. QED  BY <2>1, <2>5, <2>6, <2>7
<1>. HIDE DEF n
<1>9. Describes(final, removed, inserted)
  BY DEF removed, n
<1>. QED  BY <1>5, <1>6, <1>7, <1>8, <1>9 DEF Describes, n

LEMMA DescribedType ==
  ASSUME NEW final, NEW removed, NEW inserted, Describes(final, removed, inserted)
  PROVE  final \in Seq(LocalEdit)
<1>1. <<>> \in Seq(LocalEdit)
  BY EmptySeq
<1>2. \A x \in LocalEdit : <<x>> \in Seq(LocalEdit) /\ \A y \in LocalEdit : <<x, y>> \in Seq(LocalEdit)
  OBVIOUS
<1>3. Removal \subseteq LocalEdit /\ Insertion \subseteq LocalEdit
  BY DEF Removal, Insertion
<1>. QED  BY <1>1, <1>2, <1>3 DEF Describes

\* A series that is sound, in which every insertion is at the cursor and every removal
\* ends there, and in which the cursor is moved at the beginning only, is merged and
\* resolved without an exception; and a client whose document was the text view when the
\* series began makes the text and the cursor of it that the series left on the screen
\* (mergeSingleEdits, resolveMergedEdits, sendActions and renderIncomingEdits).
THEOREM SoundSeriesIsRepresented ==
  ASSUME NEW text \in Text, NEW cursor \in Nat, InRange(text, cursor, 0),
         NEW edits \in Seq(LocalEdit), Sound(Followed(Start(text, cursor), edits)),
         NEW d, Shows(d, text, cursor)
  PROVE  LET w == Followed(Start(text, cursor), edits)
         IN /\ ~Resolved(edits).raised
            /\ Shows(Rendered(d, FinalEdits(edits)), w.text, w.cursor)
<1>. DEFINE v == Start(text, cursor)
            w == Followed(v, edits)
            merged == MergeSingleEdits(edits)
            moves == Cardinality(LeadingCursors(merged))
            moved == IF moves = 0 THEN <<>> ELSE <<merged[moves]>>
            lead == SubSeq(merged, 1, moves)
            texts == SubSeq(merged, moves + 1, Len(merged))
            start == StartResolving(Head(texts))
            r == FoldLeft(ResolveEdit, start, Tail(texts))
            u == Followed(v, lead)
            e == Rendered(d, moved)
<1>1. v \in Tracks /\ v.text = text /\ v.cursor = cursor
  BY StartType DEF Start
<1>2. Resolved(edits) = IF texts = <<>> THEN [final |-> moved, raised |-> FALSE]
                        ELSE [final |-> moved \o r.final, raised |-> r.raised]
  BY DEF Resolved, ResolveMergedEdits
<1>3. merged \in Seq(LocalEdit)
  BY MergedType
<1>4. Sound(w)
  OBVIOUS
<1>. HIDE DEF v
<1>5. w = Followed(v, merged)
  BY <1>1, <1>4, MergedFollows
<1>. HIDE DEF merged, w
<1>6. /\ moves \in 0 .. Len(merged) /\ Len(merged) \in Nat
      /\ \A i \in 1 .. moves : IsCursor(merged[i])
      /\ moves < Len(merged) => ~IsCursor(merged[moves + 1])
  BY <1>3, LeadingCursorsAreFirst, LenProperties
<1>. HIDE DEF moves
<1>7. /\ lead \in Seq(LocalEdit) /\ Len(lead) = moves
      /\ \A i \in 1 .. moves : lead[i] = merged[i]
      /\ texts \in Seq(LocalEdit)
      /\ merged = lead \o texts
  BY <1>3, <1>6, SplitSequence
<1>8. texts # <<>> => ~IsCursor(Head(texts))
  <2>1. CASE moves < Len(merged)
    <3>1. Head(texts) = merged[moves + 1]
      BY <1>3, <1>6, <2>1, HeadTailOfSubSeq
    <3>. QED  BY <1>6, <2>1, <3>1
  <2>2. CASE ~(moves < Len(merged))
    BY <1>6, <2>2, SubSeqEmpty
  <2>. QED  BY <2>1, <2>2
<1>. HIDE DEF lead, texts
<1>9. w = Followed(u, texts) /\ u \in Tracks
  <2>1. Followed(v, lead \o texts) = Followed(u, texts)
    BY <1>7, FollowedConcat
  <2>. QED  BY <1>1, <1>5, <1>7, <2>1, FollowedType
<1>10. Sound(u)
  <2>. HIDE DEF u
  <2>. QED  BY <1>4, <1>7, <1>9, SoundBefore
<1>11. Shows(e, u.text, u.cursor) /\ moved \in Seq(LocalEdit)
  <2>1. \A i \in 1 .. Len(lead) : IsCursor(lead[i])
    BY <1>6, <1>7
  <2>2. /\ u.text = text
        /\ u.cursor = IF lead = <<>> THEN cursor ELSE lead[Len(lead)].location
    BY <1>1, <1>7, <1>10, <2>1, MovesFollow
  <2>. HIDE DEF u
  <2>3. CASE moves = 0
    <3>1. moved = <<>> /\ lead = <<>>
      BY <1>7, <2>3, EmptySeq
    <3>2. e = d
      BY <3>1, RenderedSteps
    <3>3. u.cursor = cursor
      BY <2>2, <3>1
    <3>. HIDE DEF e
    <3>. QED  BY <2>2, <3>1, <3>2, <3>3, EmptySeq
  <2>4. CASE moves # 0
    <3>. DEFINE edit == merged[moves]
    <3>1. moved = <<edit>>
      BY <2>4
    <3>2. moves \in 1 .. moves /\ moves \in 1 .. Len(merged)
      BY <1>6, <2>4
    <3>3. edit \in LocalEdit /\ IsCursor(edit) /\ lead[moves] = edit
      BY <1>3, <1>6, <1>7, <3>2, ElementOfSeq
    <3>. HIDE DEF edit
    <3>4. lead # <<>>
      BY <1>7, <2>4, EmptySeq
    <3>5. u.cursor = edit.location
      BY <1>7, <2>2, <3>3, <3>4
    <3>6. Shows(Rendered(d, <<edit>>), text, edit.location)
      BY <3>3, MovementRendered
    <3>7. <<edit>> \in Seq(LocalEdit)
      BY <3>3
    <3>. QED  BY <2>2, <3>1, <3>5, <3>6, <3>7
  <2>. QED  BY <2>3, <2>4
<1>. HIDE DEF moved
<1>12. CASE texts = <<>>
  <2>1. ~Resolved(edits).raised /\ FinalEdits(edits) = moved
    BY <1>2, <1>12 DEF FinalEdits
  <2>2. w = u
    BY <1>9, <1>12, FollowedSteps, Following!LoopOfNothing DEF Followed
  <2>. QED  BY <1>11, <2>1, <2>2 DEF w, v
<1>13. CASE texts # <<>>
  <2>. DEFINE first == Head(texts)
              rest == Tail(texts)
              x == Follow(u, first)
  <2>1. first \in LocalEdit /\ rest \in Seq(LocalEdit) /\ texts = <<first>> \o rest
    BY <1>7, <1>13, HeadAndTail
  <2>2. ~IsCursor(first)
    BY <1>8, <1>13
  <2>3. Resolved(edits).raised = r.raised /\ FinalEdits(edits) = moved \o r.final
    <3>. HIDE DEF r
    <3>1. Resolved(edits) = [final |-> moved \o r.final, raised |-> r.raised]
      BY <1>2, <1>13 DEF r
    <3>. QED  BY <3>1 DEF FinalEdits
  <2>4. r = FoldLeft(ResolveEdit, StartResolving(first), rest)
    OBVIOUS
  <2>. HIDE DEF first, rest, r, u
  <2>5. w = Followed(x, rest)
    <3>. DEFINE none == <<>>
                one == <<first>>
    <3>1. none \in Seq(LocalEdit) /\ one \in Seq(LocalEdit) /\ one = Append(none, first)
      BY <2>1, ShortSequences, EmptySeq
    <3>2. Followed(u, none) = u
      BY <3>1, FollowedSteps, <2>1
    <3>. HIDE DEF none, one
    <3>3. Followed(u, Append(none, first)) = Follow(Followed(u, none), first)
      BY <2>1, <3>1, FollowedSteps
    <3>4. Followed(u, one \o rest) = Followed(Followed(u, one), rest)
      BY <2>1, <3>1, FollowedConcat
    <3>5. texts = one \o rest
      BY <2>1 DEF one
    <3>. QED  BY <1>9, <3>1, <3>2, <3>3, <3>4, <3>5
  <2>6. Resolves(w, r, u.text, u.cursor)
    <3>1. Sound(Followed(x, rest))
      BY <1>4, <2>5
    <3>2. Resolves(Followed(x, rest), r, u.text, u.cursor)
      BY <1>9, <2>1, <2>2, <2>4, <3>1, TextsResolve
    <3>. HIDE DEF x
    <3>. QED  BY <2>5, <3>2
  <2>. HIDE DEF x
  <2>7. u.text \in Text /\ u.cursor \in Nat /\ InRange(u.text, u.cursor, 0)
    BY <1>9 DEF Tracks
  <2>8. PICK left \in 0 .. u.cursor, inserted \in Text :
          ResolvesTo(w, r, u.text, u.cursor, left, inserted)
    BY <2>6 DEF Resolves
  <2>9. /\ ~r.raised
        /\ w.text = Splice(u.text, left, u.cursor - left, inserted)
        /\ w.cursor = left + Len(inserted)
        /\ Describes(r.final, Substring(u.text, left, u.cursor - left), inserted)
    BY <2>8 DEF ResolvesTo
  <2>. DEFINE found == r.final
  <2>10. found \in Seq(LocalEdit)
    BY <2>9, DescribedType
  <2>. HIDE DEF e
  <2>11. Shows(Rendered(e, found), w.text, w.cursor)
    <3>. DEFINE b == u.text
                c == u.cursor
    <3>1. /\ b \in Text /\ c \in Nat /\ InRange(b, c, 0) /\ Shows(e, b, c)
          /\ left \in 0 .. c /\ inserted \in Text
          /\ Describes(found, Substring(b, left, c - left), inserted)
      BY <1>11, <2>7, <2>9
    <3>2. w.text = Splice(b, left, c - left, inserted) /\ w.cursor = left + Len(inserted)
      BY <2>9
    <3>. HIDE DEF b, c, found
    <3>3. Shows(Rendered(e, found), Splice(b, left, c - left, inserted), left + Len(inserted))
      BY <3>1, DescribedRendered
    <3>. QED  BY <3>2, <3>3
  <2>. HIDE DEF found
  <2>12. Rendered(d, moved \o found) = Rendered(e, found)
    BY <1>11, <2>10, RenderedConcat DEF e
  <2>13. FinalEdits(edits) = moved \o found
    BY <2>3 DEF found
  <2>14. ~Resolved(edits).raised
    BY <2>3, <2>9
  <2>15. Shows(Rendered(d, FinalEdits(edits)), w.text, w.cursor)
    BY <2>11, <2>12, <2>13
  <2>. QED  BY <2>14, <2>15 DEF w, v
<1>. QED  BY <1>12, <1>13

----------------------------------------------------------------------------
(***************************************************************************)
(* What was recorded since the series began led from the text view of then *)
(* to the text view of now.  A series that meets the conditions of         *)
(* SeriesRepresentsTyping is then sound.                                   *)
(***************************************************************************)

CursorAt(cursor, edits, n) == IF n = 0 THEN cursor ELSE CursorBehind(edits[n])

EndsAtCursor(cursor, edits) ==
  \A i \in 1 .. Len(edits) :
    edits[i].type = "REMOVE" =>
      edits[i].location + edits[i].length = CursorAt(cursor, edits, i - 1)

LEMMA PlacedSeriesIsSound ==
  ASSUME NEW v \in Tracks, ~v.began, v.typed, NEW edits \in Seq(LocalEdit),
         Followed(v, edits).placed, ~Intertwined(edits), EndsAtCursor(v.cursor, edits)
  PROVE  Sound(Followed(v, edits))
<1>. DEFINE c == v.cursor
            Begins(s) == \E i \in 1 .. Len(s) : ~IsCursor(s[i])
            T == {s \in Seq(LocalEdit) :
                    LET w == Followed(v, s)
                    IN w.placed =>
                         /\ w.cursor = CursorAt(c, s, Len(s))
                         /\ w.began => Begins(s)
                         /\ ~Intertwined(s) /\ EndsAtCursor(c, s) => w.typed}
<1>1. <<>> \in T
  <2>1. Followed(v, <<>>) = v
    BY Following!LoopOfNothing DEF Followed
  <2>2. <<>> \in Seq(LocalEdit) /\ Len(<<>>) = 0
    BY EmptySeq
  <2>. QED  BY <2>1, <2>2 DEF CursorAt
<1>2. ASSUME NEW s \in Seq(LocalEdit), s \in T, NEW edit \in LocalEdit
      PROVE  Append(s, edit) \in T
  <2>. DEFINE t == Append(s, edit)
              n == Len(s)
              w == Followed(v, s)
              x == Follow(w, edit)
  <2>1. /\ t \in Seq(LocalEdit) /\ Len(t) = n + 1 /\ n \in Nat
        /\ t[n + 1] = edit /\ \A i \in 1 .. n : t[i] = s[i]
        /\ DOMAIN t = 1 .. n + 1 /\ DOMAIN s = 1 .. n
    BY AppendProperties, LenProperties
  <2>2. Followed(v, t) = x /\ w \in Tracks
    BY FollowedSteps, FollowedType
  <2>3. w.placed => /\ w.cursor = CursorAt(c, s, n)
                    /\ w.began => Begins(s)
                    /\ ~Intertwined(s) /\ EndsAtCursor(c, s) => w.typed
    BY <1>2
  <2>. HIDE DEF t, n, w, c
  <2>4. SUFFICES ASSUME x.placed
                 PROVE  /\ x.cursor = CursorAt(c, t, n + 1)
                        /\ x.began => Begins(t)
                        /\ ~Intertwined(t) /\ EndsAtCursor(c, t) => x.typed
    BY <2>1, <2>2 DEF t
  <2>. DEFINE began == w.began \/ ~IsCursor(edit)
              typed == w.typed /\ IsTyped(w, edit)
  <2>5. /\ w.placed /\ IsPlaced(w, edit)
        /\ x = [text |-> TextBehind(w, edit), cursor |-> CursorBehind(edit),
                began |-> began, placed |-> TRUE, typed |-> typed]
    BY <2>2, <2>4, FollowType
  <2>. HIDE DEF x, began, typed
  <2>6. x.cursor = CursorBehind(edit) /\ x.began = began /\ x.typed = typed
    BY <2>5
  <2>7. x.cursor = CursorAt(c, t, n + 1)
    BY <2>1, <2>6 DEF CursorAt
  <2>8. ASSUME x.began PROVE Begins(t)
    <3>1. began
      BY <2>6, <2>8
    <3>2. CASE w.began
      <4>1. PICK i \in 1 .. n : ~IsCursor(s[i])
        BY <2>3, <2>5, <3>2 DEF n
      <4>2. i \in 1 .. n + 1 /\ t[i] = s[i]
        BY <2>1
      <4>. QED  BY <2>1, <4>1, <4>2
    <3>3. CASE ~IsCursor(edit)
      <4>1. n + 1 \in 1 .. n + 1
        BY <2>1
      <4>. QED  BY <2>1, <3>3, <4>1
    <3>. QED  BY <3>1, <3>2, <3>3 DEF began
  <2>9. ASSUME ~Intertwined(t), EndsAtCursor(c, t) PROVE x.typed
    <3>1. \A i \in 1 .. n : i \in 1 .. n + 1
      BY <2>1
    <3>2. ~Intertwined(s)
      BY <2>1, <2>9, <3>1 DEF Intertwined
    <3>3. EndsAtCursor(c, s)
      <4>1. SUFFICES ASSUME NEW i \in 1 .. n, s[i].type = "REMOVE"
                     PROVE  s[i].location + s[i].length = CursorAt(c, s, i - 1)
        BY DEF EndsAtCursor, n
      <4>2. t[i] = s[i] /\ i \in 1 .. n + 1
        BY <2>1, <3>1
      <4>3. s[i].location + s[i].length = CursorAt(c, t, i - 1)
        BY <2>1, <2>9, <4>1, <4>2 DEF EndsAtCursor
      <4>4. CursorAt(c, t, i - 1) = CursorAt(c, s, i - 1)
        <5>1. i - 1 = 0 \/ i - 1 \in 1 .. n
          BY <2>1
        <5>. QED  BY <2>1, <5>1 DEF CursorAt
      <4>. QED  BY <4>3, <4>4
    <3>4. w.typed
      BY <2>3, <2>5, <3>2, <3>3
    <3>5. IsTyped(w, edit)
      <4>1. edit.type \in {"INSERT", "REMOVE", "CURSOR"} /\ (IsCursor(edit) <=> edit.type = "CURSOR")
        BY LocalEditFacts
      <4>2. CASE edit.type = "REMOVE"
        <5>1. n + 1 \in 1 .. n + 1 /\ (n + 1) - 1 = n
          BY <2>1
        <5>2. edit.location + edit.length = CursorAt(c, t, n)
          BY <2>1, <2>9, <4>2, <5>1 DEF EndsAtCursor
        <5>3. CursorAt(c, t, n) = CursorAt(c, s, n)
          <6>1. n = 0 \/ n \in 1 .. n
            BY <2>1
          <6>. QED  BY <2>1, <6>1 DEF CursorAt
        <5>. QED  BY <2>3, <2>5, <4>2, <5>2, <5>3 DEF IsTyped
      <4>3. CASE edit.type = "CURSOR"
        <5>1. ASSUME w.began PROVE FALSE
          <6>1. PICK i \in 1 .. n : ~IsCursor(s[i])
            BY <2>3, <2>5, <5>1 DEF n
          <6>2. i \in 1 .. n + 1 /\ n + 1 \in 1 .. n + 1 /\ i < n + 1 /\ t[i] = s[i]
            BY <2>1
          <6>. QED  BY <2>1, <2>9, <4>1, <4>3, <6>1, <6>2 DEF Intertwined
        <5>. QED  BY <4>3, <5>1 DEF IsTyped
      <4>. QED  BY <4>1, <4>2, <4>3 DEF IsTyped
    <3>. QED  BY <2>6, <3>4, <3>5 DEF typed
  <2>. QED  BY <2>7, <2>8, <2>9
<1>. HIDE DEF T
<1>3. Seq(LocalEdit) \subseteq T
  BY <1>1, <1>2, Following!AllSequences
<1>. QED  BY <1>3 DEF T, Sound

----------------------------------------------------------------------------
(***************************************************************************)
(* What the inputs record                                                  *)
(***************************************************************************)

Views == {b \in [text : Text, cursor : Nat] : InRange(b.text, b.cursor, 0)}

From(b) == Start(b.text, b.cursor)

\* From b the edits of the current series lead to what the text view shows.
LeadsTo(b, u) ==
  LET w == Followed(From(b), u.currentEdit)
  IN w.placed /\ w.text = u.text /\ w.cursor = u.selected

\* No selection change is still to be ignored.
Settled(u) == u.fromInput = 0 /\ u.lastSelected = u.selected

LEMMA FromType ==
  ASSUME NEW b \in Views
  PROVE  From(b) \in Tracks /\ ~From(b).began /\ From(b).typed /\ From(b).placed
         /\ From(b).text = b.text /\ From(b).cursor = b.cursor
BY StartType DEF From, Start, Views

LEMMA ViewType ==
  ASSUME NEW u, IsTextView(u)
  PROVE  View(u) \in Views /\ View(u).text = u.text /\ View(u).cursor = u.selected
<1>1. u.text \in Text /\ Len(u.text) \in Nat /\ u.selected \in Nat
  BY LenProperties DEF IsTextView, Text
<1>2. InRange(u.text, u.selected, 0)
  BY <1>1 DEF IsTextView, InRange
<1>. QED  BY <1>1, <1>2 DEF View, Views

LEMMA NothingLeadsOn ==
  ASSUME NEW u, IsTextView(u), u.currentEdit = <<>>
  PROVE  LeadsTo(View(u), u)
<1>1. Followed(From(View(u)), <<>>) = From(View(u))
  BY Following!LoopOfNothing DEF Followed
<1>2. From(View(u)).placed /\ From(View(u)).text = u.text /\ From(View(u)).cursor = u.selected
  BY ViewType, FromType
<1>. QED  BY <1>1, <1>2 DEF LeadsTo

\* A replacement that is recorded: the one or two selection changes that it expects
\* are reported at once.
LEMMA ReplacingRecordsEdits ==
  ASSUME NEW u, AtRest(u), Settled(u), NEW location \in Nat, NEW length \in Nat,
         InRange(u.text, location, length), NEW text \in Text, length > 0 \/ text # <<>>
  PROVE  LET v == ReplaceRange(u, location, length, text)
         IN /\ v.text = Splice(u.text, location, length, text)
            /\ v.selected = location + Len(text)
            /\ v.currentEdit = u.currentEdit \o RecordedEdits(u, location, length, text)
            /\ Settled(v)
<1>. DEFINE n == ReportedChanges(length, text)
            series == u.currentEdit \o RecordedEdits(u, location, length, text)
            spliced == Splice(u.text, location, length, text)
            cursor == location + Len(text)
            asked == ShouldChangeText(u, location, length, text)
            changed == [asked EXCEPT !.text = spliced, !.selected = cursor,
                                     !.selectedLength = 0]
            once == DidChangeSelection(changed)
            twice == DidChangeSelection(once)
            v == ReplaceRange(u, location, length, text)
<1>1. /\ DOMAIN u = Fields /\ ~u.isSyncing /\ u.fromInput = 0
      /\ n \in {1, 2} /\ ~(location = 0 /\ length = 0 /\ text = <<>>)
      /\ ~(length = 0 /\ text = <<>>)
  BY DEF AtRest, IsTextView, Settled, ReportedChanges
<1>2. v = IF n = 2 THEN twice ELSE once
  <2>1. asked.text = u.text
    <3>1. IsTextView(u)
      BY DEF AtRest
    <3>. QED  BY <3>1, AskingRecords
  <2>2. v = LET c == [asked EXCEPT !.text = Splice(@, location, length, text),
                                   !.selected = location + Len(text),
                                   !.selectedLength = 0]
            IN IF n = 2 THEN DidChangeSelection(DidChangeSelection(c))
               ELSE DidChangeSelection(c)
    BY <1>1 DEF ReplaceRange, AllowsChange
  <2>3. [asked EXCEPT !.text = Splice(@, location, length, text),
                      !.selected = location + Len(text), !.selectedLength = 0] = changed
    <3>. HIDE DEF asked
    <3>. QED  BY <2>1
  <2>. HIDE DEF changed, asked
  <2>. QED  BY <2>2, <2>3
<1>3. asked = [u EXCEPT !.currentEdit = series, !.timer = TRUE, !.fromInput = 0 + n,
                        !.redoStack = <<>>]
  BY <1>1 DEF ShouldChangeText, Fields
<1>. HIDE DEF series, spliced, cursor, n, v
<1>4. /\ DOMAIN changed = Fields /\ changed.text = spliced /\ changed.selected = cursor
      /\ changed.currentEdit = series /\ changed.fromInput = n
  <2>1. /\ DOMAIN asked = Fields /\ asked.currentEdit = series /\ asked.fromInput = n
    <3>. HIDE DEF asked
    <3>. QED  BY <1>1, <1>3 DEF Fields
  <2>. HIDE DEF asked
  <2>. QED  BY <2>1 DEF Fields
<1>. HIDE DEF changed
<1>5. \A w : DOMAIN w = Fields /\ w.fromInput \in {1, 2} =>
        LET z == DidChangeSelection(w)
        IN /\ DOMAIN z = Fields /\ z.text = w.text /\ z.selected = w.selected
           /\ z.currentEdit = w.currentEdit /\ z.fromInput = w.fromInput - 1
           /\ z.lastSelected = w.selected
  <2>. SUFFICES ASSUME NEW w, DOMAIN w = Fields, w.fromInput \in {1, 2}
                PROVE  LET z == DidChangeSelection(w)
                       IN /\ DOMAIN z = Fields /\ z.text = w.text /\ z.selected = w.selected
                          /\ z.currentEdit = w.currentEdit /\ z.fromInput = w.fromInput - 1
                          /\ z.lastSelected = w.selected
    OBVIOUS
  <2>1. DidChangeSelection(w) = [w EXCEPT !.fromInput = w.fromInput - 1,
                                          !.lastSelected = w.selected]
    <3>. DEFINE fewer == IF w.fromInput > 0 THEN w.fromInput - 1 ELSE w.fromInput
    <3>1. w.fromInput > 0 /\ fewer = w.fromInput - 1
      OBVIOUS
    <3>2. DidChangeSelection(w) = [w EXCEPT !.fromInput = fewer, !.lastSelected = w.selected]
      BY <3>1 DEF DidChangeSelection
    <3>. HIDE DEF fewer
    <3>. QED  BY <3>1, <3>2
  <2>. QED  BY <2>1 DEF Fields
<1>6. /\ DOMAIN once = Fields /\ once.text = spliced /\ once.selected = cursor
      /\ once.currentEdit = series /\ once.fromInput = n - 1
      /\ once.lastSelected = cursor
  BY <1>1, <1>4, <1>5
<1>. HIDE DEF once
<1>7. n = 2 => /\ twice.text = spliced /\ twice.selected = cursor
               /\ twice.currentEdit = series /\ twice.fromInput = 0
               /\ twice.lastSelected = cursor
  <2>1. SUFFICES ASSUME n = 2
                 PROVE  /\ twice.text = spliced /\ twice.selected = cursor
                        /\ twice.currentEdit = series /\ twice.fromInput = 0
                        /\ twice.lastSelected = cursor
    OBVIOUS
  <2>2. once.fromInput = 1 /\ once.fromInput - 1 = 0
    BY <1>6, <2>1
  <2>. QED  BY <1>5, <1>6, <2>2
<1>. HIDE DEF twice
<1>8. /\ v.text = spliced /\ v.selected = cursor /\ v.currentEdit = series
      /\ v.fromInput = 0 /\ v.lastSelected = cursor
  BY <1>1, <1>2, <1>6, <1>7
<1>. QED  BY <1>8 DEF v, spliced, cursor, series, Settled

\* What is recorded of it does what it did.
LEMMA RecordedEditsFollow ==
  ASSUME NEW u, IsTextView(u), NEW location \in Nat, NEW length \in Nat,
         InRange(u.text, location, length), NEW text \in Text, length > 0 \/ text # <<>>,
         NEW v \in Tracks, v.placed, v.text = u.text,
         length > 0 \/ v.cursor = location
  PROVE  LET edits == RecordedEdits(u, location, length, text)
             w == Followed(v, edits)
         IN /\ edits \in Seq(LocalEdit)
            /\ w.placed
            /\ w.text = Splice(u.text, location, length, text)
            /\ w.cursor = location + Len(text)
<1>. DEFINE cut == Substring(u.text, location, length)
            deleted == RangeAction(location, length, cut)
            added == RangeAction(location, 0, text)
            edits == RecordedEdits(u, location, length, text)
            none == <<>>
<1>1. /\ u.text \in Text /\ location \in Int /\ length \in Int
      /\ none \in Text /\ Len(none) = 0 /\ Len(text) \in Nat
  BY EmptySeq, LenProperties DEF IsTextView, Text
<1>2. cut \in Text
  BY <1>1, SubstringElements
<1>3. /\ deleted.type = IF length = 0 THEN "INSERT" ELSE "REMOVE"
      /\ deleted.location = location /\ deleted.length = length /\ deleted.text = cut
      /\ added.type = "INSERT" /\ added.location = location /\ added.length = 0
      /\ added.text = text
  BY DEF RangeAction, TextAction
<1>4. deleted \in LocalEdit /\ added \in LocalEdit
  <2>. HIDE DEF cut
  <2>1. 0 \in Nat
    OBVIOUS
  <2>. QED  BY <1>2, <2>1, RangeActionType
<1>5. edits = IF length > 0 THEN (IF text = <<>> THEN <<deleted>> ELSE <<deleted, added>>)
              ELSE <<added>>
  BY DEF RecordedEdits
<1>6. \A x \in LocalEdit : Followed(v, <<x>>) = Follow(v, x) /\ <<x>> \in Seq(LocalEdit)
  <2>. TAKE x \in LocalEdit
  <2>0. <<x>> \in Seq(LocalEdit)
    OBVIOUS
  <2>1. none \in Seq(LocalEdit) /\ <<x>> = Append(none, x)
    BY EmptySeq, ShortSequences
  <2>2. Followed(v, none) = v
    BY Following!LoopOfNothing DEF Followed
  <2>. HIDE DEF none
  <2>3. Followed(v, Append(none, x)) = Follow(Followed(v, none), x)
    BY <2>1, FollowedSteps
  <2>4. Followed(v, <<x>>) = Follow(v, x)
    BY <2>1, <2>2, <2>3
  <2>. QED  BY <2>0, <2>4
<1>. HIDE DEF edits, deleted, added
<1>7. CASE length > 0
  <2>. DEFINE x == Follow(v, deleted)
              shorter == Splice(u.text, location, length, none)
  <2>1. x.placed /\ x.text = shorter /\ x.cursor = location /\ x \in Tracks
    <3>1. deleted.type = "REMOVE"
      BY <1>3, <1>7
    <3>2. IsPlaced(v, deleted)
      BY <1>3, <1>7, <3>1 DEF IsPlaced, cut
    <3>3. TextBehind(v, deleted) = shorter /\ CursorBehind(deleted) = location
      BY <1>3, <3>1 DEF TextBehind, CursorBehind
    <3>. HIDE DEF shorter
    <3>. QED  BY <1>4, <3>2, <3>3, FollowType
  <2>2. CASE text = <<>>
    <3>1. edits = <<deleted>>
      BY <1>5, <1>7, <2>2
    <3>2. edits \in Seq(LocalEdit) /\ Followed(v, edits) = x
      BY <1>4, <1>6, <3>1
    <3>3. location + Len(text) = location
      BY <1>1, <2>2
    <3>. HIDE DEF x
    <3>. QED  BY <2>1, <2>2, <3>2, <3>3 DEF edits
  <2>3. CASE text # <<>>
    <3>. DEFINE y == Follow(x, added)
                one == <<deleted>>
    <3>1. edits = Append(one, added) /\ one \in Seq(LocalEdit)
      BY <1>4, <1>5, <1>6, <1>7, <2>3, ShortSequences
    <3>2. Followed(v, edits) = y /\ edits \in Seq(LocalEdit)
      <4>1. Followed(v, one) = x
        BY <1>4, <1>6
      <4>. HIDE DEF one, x
      <4>2. Followed(v, Append(one, added)) = Follow(Followed(v, one), added)
        BY <1>4, <3>1, FollowedSteps
      <4>. QED  BY <1>4, <3>1, <4>1, <4>2, AppendProperties
    <3>. HIDE DEF x
    <3>3. IsPlaced(x, added)
      BY <1>3, <2>1, <2>3 DEF IsPlaced
    <3>4. TextBehind(x, added) = Splice(x.text, location, 0, text)
          /\ CursorBehind(added) = location + Len(text)
      BY <1>3 DEF TextBehind, CursorBehind
    <3>5. Splice(shorter, location, 0, text) = Splice(u.text, location, length, text)
      BY <1>1, CutAndPut
    <3>. HIDE DEF shorter
    <3>6. y.placed /\ y.text = TextBehind(x, added) /\ y.cursor = CursorBehind(added)
      BY <1>4, <2>1, <3>3, FollowType
    <3>. HIDE DEF y
    <3>. QED  BY <2>1, <3>2, <3>4, <3>5, <3>6 DEF edits
  <2>. QED  BY <2>2, <2>3
<1>8. CASE ~(length > 0)
  <2>. DEFINE y == Follow(v, added)
  <2>1. length = 0 /\ text # <<>> /\ v.cursor = location
    BY <1>8
  <2>2. edits \in Seq(LocalEdit) /\ Followed(v, edits) = y
    BY <1>4, <1>5, <1>6, <1>8
  <2>3. IsPlaced(v, added)
    BY <1>3, <2>1 DEF IsPlaced
  <2>4. TextBehind(v, added) = Splice(u.text, location, 0, text)
        /\ CursorBehind(added) = location + Len(text)
    BY <1>3 DEF TextBehind, CursorBehind
  <2>5. y.placed /\ y.text = TextBehind(v, added) /\ y.cursor = CursorBehind(added)
    BY <1>4, <2>3, FollowType
  <2>. HIDE DEF y
  <2>. QED  BY <2>1, <2>2, <2>4, <2>5 DEF edits
<1>. QED  BY <1>7, <1>8

----------------------------------------------------------------------------
(***************************************************************************)
(* The steps                                                               *)
(***************************************************************************)

\* At the end of the user's input or of the timer's call.
AfterInput(u) ==
  /\ IsTextView(u)
  /\ ~u.crashed => TimerHasEdits(u) /\ (~u.isSyncing \/ u.sent # <<>>)

LEMMA RestIsAfterInput ==
  ASSUME NEW u, AtRest(u)
  PROVE  AfterInput(u)
BY DEF AtRest, AfterInput

\* A series that was sent has come back at the end of the turn, so that nothing is
\* held back any more.
LEMMA TurnEndsAtRest ==
  ASSUME NEW u, AfterInput(u), Turn(u)
  PROVE  TypingInv'
<1>. DEFINE syncing == IF u.sent # <<>> THEN FALSE ELSE u.isSyncing
            v == [u EXCEPT !.sent = <<>>, !.isSyncing = syncing]
<1>1. IsTextView(u)
  BY DEF AfterInput
<1>2. ui' = v
  BY <1>1 DEF Turn, IsTextView, Fields
<1>3. ~u.crashed => ~syncing
  BY DEF AfterInput
<1>. HIDE DEF syncing
<1>4. IsTextView(v) /\ v.crashed = u.crashed /\ v.sent = <<>>
      /\ v.isSyncing = syncing /\ v.timer = u.timer /\ v.currentEdit = u.currentEdit
  BY <1>1 DEF IsTextView, Fields
<1>. HIDE DEF v
<1>5. ~v.crashed => AtRest(v)
  BY <1>3, <1>4 DEF AfterInput, AtRest, TimerHasEdits
<1>. QED  BY <1>2, <1>4, <1>5 DEF TypingInv

LEMMA SelectingEndsInput ==
  ASSUME NEW u, AtRest(u), ~u.crashed, NEW location \in Nat, NEW length \in Nat,
         InRange(u.text, location, length)
  PROVE  AfterInput(Select(u, location, length))
<1>. DEFINE v == Select(u, location, length)
<1>1. /\ IsTextView(v)
      /\ \/ v.crashed
         \/ RecordsNothing(u, v) /\ Alike(u, v)
         \/ RecordsInto(v) /\ (v.sent # <<>> \/ v.isSyncing = u.isSyncing)
  BY SelectingRecords DEF AtRest
<1>. HIDE DEF v
<1>2. AfterInput(v)
  BY <1>1 DEF AtRest, AfterInput, TimerHasEdits, RecordsNothing, RecordsInto, Alike
<1>. QED  BY <1>2 DEF v

LEMMA ReplacingEndsAtRest ==
  ASSUME NEW u, AtRest(u), NEW location \in Nat, NEW length \in Nat,
         InRange(u.text, location, length), NEW text \in Text
  PROVE  AtRest(ReplaceRange(u, location, length, text))
<1>. DEFINE v == ReplaceRange(u, location, length, text)
<1>1. IsTextView(v) /\ Alike(u, v) /\ (RecordsNothing(u, v) \/ RecordsInto(v))
  BY ReplacingRecords DEF AtRest
<1>. HIDE DEF v
<1>2. AtRest(v)
  BY <1>1 DEF AtRest, TimerHasEdits, RecordsNothing, RecordsInto, Alike
<1>. QED  BY <1>2 DEF v

LEMMA TimerEndsInput ==
  ASSUME NEW u, AtRest(u), u.timer
  PROVE  AfterInput(TimerFired(u))
<1>. DEFINE v == TimerFired(u)
<1>1. /\ IsTextView(v) /\ v.timer = FALSE /\ v.currentEdit = <<>>
      /\ v.crashed \/ v.sent # <<>>
  BY TimerSendsAll DEF AtRest, TimerHasEdits
<1>. HIDE DEF v
<1>2. AfterInput(v)
  BY <1>1 DEF AfterInput, TimerHasEdits
<1>. QED  BY <1>2 DEF v

LEMMA TypingInvInit == Init => TypingInv
<1>. DEFINE u == FreshTextView
<1>1. /\ IsTextView(u) /\ u.currentEdit = <<>> /\ u.timer = FALSE
      /\ u.isSyncing = FALSE /\ u.sent = <<>>
  BY FreshIsTextView
<1>. HIDE DEF u
<1>2. AtRest(u)
  BY <1>1 DEF AtRest, TimerHasEdits
<1>. QED  BY <1>1, <1>2 DEF Init, TypingInv, u

LEMMA TypingInvNext == TypingInv /\ [Next]_typingVars => TypingInv'
<1>. SUFFICES ASSUME TypingInv, [Next]_typingVars
              PROVE  TypingInv'
  OBVIOUS
<1>1. CASE UNCHANGED typingVars
  BY <1>1 DEF typingVars, TypingInv
<1>2. CASE Next
  <2>1. AtRest(ui) /\ ~ui.crashed
    BY <1>2 DEF Next, TypingInv
  <2>2. /\ ui.text \in Text /\ Len(ui.text) \in Nat
        /\ ui.selected \in Nat /\ ui.selectedLength \in Nat
        /\ InRange(ui.text, ui.selected, ui.selectedLength)
    BY <2>1, LenProperties DEF AtRest, IsTextView, Text
  <2>3. <<>> \in Text /\ \A ch \in Char : <<ch>> \in Text
    BY EmptySeq DEF Text
  <2>4. CASE TypeKey
    <3>1. PICK ch \in Char : Turn(TypeText(ui, <<ch>>))
      BY <2>4 DEF TypeKey
    <3>2. AtRest(TypeText(ui, <<ch>>))
      BY <2>1, <2>2, <2>3, ReplacingEndsAtRest DEF TypeText
    <3>. QED  BY <3>1, <3>2, RestIsAfterInput, TurnEndsAtRest
  <2>5. CASE PressBackspace
    <3>1. ui.selected # 0 =>
            ui.selected - 1 \in Nat /\ InRange(ui.text, ui.selected - 1, 1)
      BY <2>2 DEF InRange
    <3>2. AtRest(Backspace(ui))
      BY <2>1, <2>2, <2>3, <3>1, ReplacingEndsAtRest DEF Backspace
    <3>. QED  BY <2>5, <3>2, RestIsAfterInput, TurnEndsAtRest DEF PressBackspace
  <2>6. CASE AutocorrectWord
    <3>1. PICK n \in 1 .. 2, text \in {<<ch>> : ch \in Char} :
            n <= ui.selected /\ Turn(Autocorrect(ui, n, text))
      BY <2>6 DEF AutocorrectWord
    <3>2. ui.selected - n \in Nat /\ n \in Nat /\ InRange(ui.text, ui.selected - n, n)
      BY <2>2, <3>1 DEF InRange
    <3>3. AtRest(Autocorrect(ui, n, text))
      BY <2>1, <2>3, <3>2, ReplacingEndsAtRest DEF Autocorrect
    <3>. QED  BY <3>1, <3>3, RestIsAfterInput, TurnEndsAtRest
  <2>7. CASE Tap
    <3>1. PICK location \in 0 .. Len(ui.text) : Turn(Select(ui, location, 0))
      BY <2>7 DEF Tap
    <3>2. location \in Nat /\ InRange(ui.text, location, 0)
      BY <2>2 DEF InRange
    <3>3. AfterInput(Select(ui, location, 0))
      BY <2>1, <3>2, SelectingEndsInput
    <3>. QED  BY <3>1, <3>3, TurnEndsAtRest
  <2>8. CASE SelectText
    <3>0. PICK location \in 0 .. Len(ui.text) :
            \E length \in 1 .. Len(ui.text) - location : Turn(Select(ui, location, length))
      BY <2>8 DEF SelectText
    <3>1. PICK length \in 1 .. Len(ui.text) - location : Turn(Select(ui, location, length))
      BY <3>0
    <3>2. location \in Nat /\ length \in Nat /\ InRange(ui.text, location, length)
      BY <2>2 DEF InRange
    <3>3. AfterInput(Select(ui, location, length))
      BY <2>1, <3>2, SelectingEndsInput
    <3>. QED  BY <3>1, <3>3, TurnEndsAtRest
  <2>9. CASE TimerExpires
    <3>1. AfterInput(TimerFired(ui))
      BY <2>1, <2>9, TimerEndsInput DEF TimerExpires
    <3>. QED  BY <2>9, <3>1, TurnEndsAtRest DEF TimerExpires
  <2>. QED  BY <1>2, <2>4, <2>5, <2>6, <2>7, <2>8, <2>9 DEF Next
<1>. QED  BY <1>1, <1>2

----------------------------------------------------------------------------
(***************************************************************************)
(* The invariant that the series is what was done since base.  An input    *)
(* that sends the series begins a new one where the text view was; one     *)
(* that does not, goes on with it.                                         *)
(***************************************************************************)

SeriesInv ==
  /\ TypingInv
  /\ ui.crashed => ui.currentEdit = <<>>
  /\ ~ui.crashed => Settled(ui) /\ base \in Views /\ LeadsTo(base, ui)

GoesOn(u, v) ==
  \/ v.crashed /\ v.currentEdit = <<>>
  \/ /\ ~v.crashed /\ Settled(v) /\ v.sent = <<>>
     /\ \A b \in Views : LeadsTo(b, u) => LeadsTo(b, v)
  \/ ~v.crashed /\ Settled(v) /\ v.sent # <<>> /\ LeadsTo(View(u), v)

LEMMA ReplacingGoesOn ==
  ASSUME NEW u, AtRest(u), Settled(u), ~u.crashed,
         NEW location \in Nat, NEW length \in Nat, InRange(u.text, location, length),
         NEW text \in Text, length > 0 \/ text # <<>>, length > 0 \/ location = u.selected
  PROVE  GoesOn(u, ReplaceRange(u, location, length, text))
<1>. DEFINE v == ReplaceRange(u, location, length, text)
            edits == RecordedEdits(u, location, length, text)
<1>1. IsTextView(u) /\ u.sent = <<>> /\ u.currentEdit \in Seq(LocalEdit)
  BY DEF AtRest, IsTextView
<1>2. ~v.crashed /\ v.sent = <<>>
  BY <1>1, ReplacingRecords DEF Alike
<1>3. /\ v.text = Splice(u.text, location, length, text)
      /\ v.selected = location + Len(text)
      /\ v.currentEdit = u.currentEdit \o edits
      /\ Settled(v)
  BY ReplacingRecordsEdits
<1>. HIDE DEF v
<1>4. ASSUME NEW b \in Views, LeadsTo(b, u)
      PROVE  LeadsTo(b, v)
  <2>. DEFINE w == Followed(From(b), u.currentEdit)
              x == Followed(w, edits)
  <2>1. w \in Tracks /\ w.placed /\ w.text = u.text /\ w.cursor = u.selected
    BY <1>1, <1>4, FromType, FollowedType DEF LeadsTo
  <2>. HIDE DEF w
  <2>2. /\ edits \in Seq(LocalEdit) /\ x.placed
        /\ x.text = Splice(u.text, location, length, text)
        /\ x.cursor = location + Len(text)
    BY <1>1, <2>1, RecordedEditsFollow
  <2>. HIDE DEF edits, x
  <2>3. Followed(From(b), u.currentEdit \o edits) = x
    BY <1>1, <2>2, FollowedConcat DEF w, x
  <2>. QED  BY <1>3, <2>2, <2>3 DEF LeadsTo
<1>. QED  BY <1>2, <1>3, <1>4 DEF GoesOn, v

LEMMA UnchangedGoesOn ==
  ASSUME NEW u, AtRest(u), Settled(u), ~u.crashed
  PROVE  GoesOn(u, u)
BY DEF GoesOn, AtRest

LEMMA MergingKeeps ==
  ASSUME NEW u, IsTextView(u), u.currentEdit # <<>>
  PROVE  LET v == MergeCurrentEdit(u)
         IN v.fromInput = u.fromInput /\ v.lastSelected = u.lastSelected
<1>. DEFINE raised == Resolved(u.currentEdit).raised
            sent == IF raised THEN u.sent ELSE Append(u.sent, FinalEdits(u.currentEdit))
<1>1. MergeCurrentEdit(u) = [u EXCEPT !.isSyncing = TRUE, !.currentEdit = <<>>,
                                      !.crashed = raised, !.sent = sent]
  BY DEF MergeCurrentEdit, IsTextView, Fields
<1>. HIDE DEF raised, sent
<1>. QED  BY <1>1 DEF IsTextView, Fields

\* A movement that is recorded leads from where the series was to where the cursor is.
LEMMA MovementLeadsOn ==
  ASSUME NEW u, IsTextView(u), NEW location \in Nat, InRange(u.text, location, 0),
         NEW b \in Views, LeadsTo(b, u),
         NEW v, v.text = u.text, v.selected = location,
         v.currentEdit = Append(u.currentEdit, CursorAction(location, NoUser))
  PROVE  LeadsTo(b, v)
<1>. DEFINE w == Followed(From(b), u.currentEdit)
            edit == CursorAction(location, NoUser)
            x == Follow(w, edit)
<1>1. u.currentEdit \in Seq(LocalEdit)
  BY DEF IsTextView
<1>2. w \in Tracks /\ w.placed /\ w.text = u.text
  BY <1>1, FromType, FollowedType DEF LeadsTo
<1>3. edit \in LocalEdit
  BY CursorActionType
<1>4. edit.type = "CURSOR" /\ edit.location = location
  BY DEF CursorAction
<1>. HIDE DEF edit
<1>5. Followed(From(b), Append(u.currentEdit, edit)) = x
  BY <1>1, <1>3, FollowedSteps
<1>. HIDE DEF w
<1>6. IsPlaced(w, edit)
  BY <1>2, <1>4 DEF IsPlaced
<1>7. TextBehind(w, edit) = u.text /\ CursorBehind(edit) = location
  BY <1>2, <1>4 DEF TextBehind, CursorBehind
<1>8. x.placed /\ x.text = u.text /\ x.cursor = location
  BY <1>2, <1>3, <1>6, <1>7, FollowType
<1>. HIDE DEF x
<1>. QED  BY <1>5, <1>8 DEF LeadsTo, edit

LEMMA SelectingGoesOn ==
  ASSUME NEW u, AtRest(u), Settled(u), ~u.crashed, NEW location \in Nat,
         NEW length \in Nat, InRange(u.text, location, length)
  PROVE  GoesOn(u, Select(u, location, length))
<1>. DEFINE changed == [u EXCEPT !.selected = location, !.selectedLength = length]
            v == DidChangeSelection(changed)
            flushed == MergeCurrentEdit(changed)
            cursor == CursorAction(location, NoUser)
<1>1. Select(u, location, length) = v
  BY DEF Select
<1>2. /\ IsTextView(u) /\ DOMAIN u = Fields /\ u.sent = <<>>
      /\ u.fromInput = 0 /\ u.lastSelected = u.selected
      /\ u.text \in Text /\ Len(u.text) \in Nat
  BY LenProperties DEF AtRest, IsTextView, Settled, Text
<1>3. /\ IsTextView(changed) /\ DOMAIN changed = Fields
      /\ changed.selected = location /\ changed.text = u.text
      /\ changed.currentEdit = u.currentEdit /\ changed.fromInput = 0
      /\ changed.lastSelected = u.selected /\ changed.sent = <<>>
      /\ ~changed.crashed
  BY <1>2 DEF IsTextView, Fields
<1>4. InRange(u.text, location, 0)
  BY <1>2 DEF InRange
<1>5. cursor \in LocalEdit
  BY CursorActionType
<1>. HIDE DEF changed, cursor
<1>6. CASE location = u.selected
  <2>. DEFINE z == changed.fromInput
              w == [changed EXCEPT !.fromInput = z, !.lastSelected = location]
  <2>1. v = w
    <3>1. changed.selected = changed.lastSelected /\ ~(changed.fromInput > 0)
      BY <1>3, <1>6
    <3>. QED  BY <1>3, <3>1 DEF DidChangeSelection
  <2>2. /\ v.text = u.text /\ v.selected = u.selected /\ v.currentEdit = u.currentEdit
        /\ v.sent = <<>> /\ ~v.crashed /\ v.fromInput = 0 /\ v.lastSelected = v.selected
    <3>. HIDE DEF v, z
    <3>1. z = 0
      BY <1>3 DEF z
    <3>. QED  BY <1>3, <1>6, <2>1, <3>1 DEF Fields
  <2>. HIDE DEF v
  <2>3. \A b \in Views : LeadsTo(b, u) => LeadsTo(b, v)
    BY <2>2 DEF LeadsTo
  <2>. QED  BY <1>1, <2>2, <2>3 DEF GoesOn, Settled
<1>7. CASE location # u.selected
  <2>. DEFINE flushes == changed.currentEdit # <<>> /\ ~IsCursor(Head(changed.currentEdit))
              w == IF flushes THEN flushed ELSE changed
              r == [w EXCEPT !.timer = TRUE,
                             !.currentEdit = Append(w.currentEdit, cursor),
                             !.lastSelected = location]
  <2>1. v = IF w.crashed THEN w ELSE r
    <3>1. ~(changed.fromInput > 0 \/ changed.selected = changed.lastSelected)
      BY <1>3, <1>7
    <3>2. v = IF w.crashed THEN w
              ELSE [w EXCEPT !.timer = TRUE,
                             !.currentEdit = Append(@, CursorAction(changed.selected, NoUser)),
                             !.lastSelected = changed.selected]
      BY <3>1 DEF DidChangeSelection
    <3>3. DOMAIN w = Fields
      BY <1>3, MergingSends DEF IsTextView
    <3>. HIDE DEF w
    <3>. QED  BY <1>3, <3>2, <3>3 DEF cursor, Fields
  <2>2. CASE flushes
    <3>1. /\ IsTextView(w) /\ w.currentEdit = <<>> /\ w.selected = location
          /\ w.text = u.text /\ (w.crashed \/ w.sent # <<>>) /\ w.fromInput = 0
      BY <1>3, <2>2, MergingSends, MergingKeeps
    <3>2. DOMAIN w = Fields
      BY <3>1 DEF IsTextView
    <3>. HIDE DEF w, v
    <3>3. CASE w.crashed
      <4>1. v = w
        BY <2>1, <3>3
      <4>. QED  BY <1>1, <3>1, <3>3, <4>1 DEF GoesOn
    <3>4. CASE ~w.crashed
      <4>1. v = r
        BY <2>1, <3>4
      <4>2. /\ v.text = u.text /\ v.selected = location /\ v.sent # <<>> /\ ~v.crashed
            /\ v.fromInput = 0 /\ v.lastSelected = location
            /\ v.currentEdit = Append(w.currentEdit, cursor)
        BY <3>1, <3>2, <3>4, <4>1 DEF Fields
      <4>. HIDE DEF r
      <4>. DEFINE none == <<>>
                  x == From(View(u))
                  y == Follow(x, cursor)
      <4>3. x \in Tracks /\ x.placed /\ x.text = u.text
        BY <1>2, ViewType, FromType
      <4>. HIDE DEF x
      <4>4. Followed(x, Append(none, cursor)) = y
        <5>1. none \in Seq(LocalEdit)
          BY EmptySeq
        <5>2. Followed(x, none) = x
          BY Following!LoopOfNothing DEF Followed
        <5>. HIDE DEF none
        <5>3. Followed(x, Append(none, cursor)) = Follow(Followed(x, none), cursor)
          BY <1>5, <5>1, FollowedSteps
        <5>. QED  BY <5>2, <5>3
      <4>5. cursor.type = "CURSOR" /\ cursor.location = location
        BY DEF cursor, CursorAction
      <4>6. IsPlaced(x, cursor)
        BY <1>4, <4>3, <4>5 DEF IsPlaced
      <4>7. TextBehind(x, cursor) = u.text /\ CursorBehind(cursor) = location
        BY <4>3, <4>5 DEF TextBehind, CursorBehind
      <4>8. y.placed /\ y.text = u.text /\ y.cursor = location
        BY <1>5, <4>3, <4>6, <4>7, FollowType
      <4>. HIDE DEF y
      <4>9. LeadsTo(View(u), v)
        BY <3>1, <4>2, <4>4, <4>8 DEF LeadsTo, x
      <4>. QED  BY <1>1, <4>2, <4>9 DEF GoesOn, Settled
    <3>. QED  BY <3>3, <3>4
  <2>3. CASE ~flushes
    <3>1. w = changed
      BY <2>3
    <3>2. v = [changed EXCEPT !.timer = TRUE,
                              !.currentEdit = Append(changed.currentEdit, cursor),
                              !.lastSelected = location]
      BY <1>3, <2>1, <3>1
    <3>. HIDE DEF v
    <3>3. /\ v.text = u.text /\ v.selected = location /\ v.sent = <<>> /\ ~v.crashed
          /\ v.fromInput = 0 /\ v.lastSelected = location
          /\ v.currentEdit = Append(u.currentEdit, cursor)
      BY <1>3, <3>2 DEF Fields
    <3>4. \A b \in Views : LeadsTo(b, u) => LeadsTo(b, v)
      BY <1>2, <1>4, <3>3, MovementLeadsOn DEF cursor
    <3>. QED  BY <1>1, <3>3, <3>4 DEF GoesOn, Settled
  <2>. QED  BY <2>2, <2>3
<1>. QED  BY <1>6, <1>7

LEMMA TimerGoesOn ==
  ASSUME NEW u, AtRest(u), Settled(u), ~u.crashed, u.timer
  PROVE  GoesOn(u, TimerFired(u))
<1>. DEFINE stopped == [u EXCEPT !.timer = FALSE]
            v == TimerFired(u)
<1>1. /\ IsTextView(u) /\ u.sent = <<>> /\ u.currentEdit # <<>>
      /\ u.fromInput = 0 /\ u.lastSelected = u.selected
  BY DEF AtRest, TimerHasEdits, Settled
<1>2. /\ IsTextView(v) /\ v.text = u.text /\ v.currentEdit = <<>>
      /\ v.crashed \/ v.sent # <<>>
  BY <1>1, TimerSendsAll
<1>3. /\ IsTextView(stopped) /\ stopped.sent = <<>> /\ stopped.currentEdit # <<>>
      /\ stopped.fromInput = 0 /\ stopped.lastSelected = u.selected
      /\ stopped.selected = u.selected
  BY <1>1 DEF IsTextView, Fields
<1>4. v = MergeCurrentEdit(stopped)
  BY DEF TimerFired
<1>. HIDE DEF stopped, v
<1>5. v.selected = u.selected /\ Settled(v)
  BY <1>3, <1>4, MergingSends, MergingKeeps DEF Settled
<1>6. View(u) = View(v)
  BY <1>2, <1>5 DEF View
<1>7. LeadsTo(View(u), v)
  BY <1>2, <1>6, NothingLeadsOn
<1>. QED  BY <1>2, <1>5, <1>7 DEF GoesOn, v

LEMMA TurnKeepsSeries ==
  ASSUME SeriesInv, ~ui.crashed, NEW u, AfterInput(u), GoesOn(ui, u), Turn(u)
  PROVE  SeriesInv'
<1>. DEFINE syncing == IF u.sent # <<>> THEN FALSE ELSE u.isSyncing
            v == [u EXCEPT !.sent = <<>>, !.isSyncing = syncing]
            b == IF u.sent # <<>> \/ ui.currentEdit = <<>> THEN View(ui) ELSE base
<1>1. IsTextView(u) /\ IsTextView(ui)
  BY DEF AfterInput, SeriesInv, TypingInv
<1>2. ui' = v /\ base' = b
  BY <1>1 DEF Turn, IsTextView, Fields
<1>3. TypingInv'
  BY TurnEndsAtRest
<1>. HIDE DEF syncing
<1>4. /\ v.text = u.text /\ v.selected = u.selected /\ v.currentEdit = u.currentEdit
      /\ v.crashed = u.crashed /\ v.fromInput = u.fromInput
      /\ v.lastSelected = u.lastSelected
  BY <1>1 DEF IsTextView, Fields
<1>. HIDE DEF v
<1>5. CASE u.crashed
  <2>1. v.crashed /\ v.currentEdit = <<>>
    BY <1>4, <1>5 DEF GoesOn
  <2>. QED  BY <1>2, <1>3, <2>1 DEF SeriesInv
<1>6. CASE ~u.crashed
  <2>1. Settled(v) /\ ~v.crashed
    BY <1>4, <1>6 DEF GoesOn, Settled
  <2>2. b \in Views /\ LeadsTo(b, u)
    <3>1. base \in Views /\ LeadsTo(base, ui) /\ View(ui) \in Views
      BY <1>1, ViewType DEF SeriesInv
    <3>2. CASE u.sent # <<>>
      BY <1>6, <3>1, <3>2 DEF GoesOn
    <3>3. CASE u.sent = <<>>
      <4>1. LeadsTo(b, ui)
        BY <1>1, <3>1, <3>3, NothingLeadsOn
      <4>2. b \in Views
        BY <3>1
      <4>. HIDE DEF b
      <4>. QED  BY <1>6, <3>3, <4>1, <4>2 DEF GoesOn
    <3>. QED  BY <3>2, <3>3
  <2>. HIDE DEF b
  <2>3. LeadsTo(b, v)
    BY <1>4, <2>2 DEF LeadsTo
  <2>. QED  BY <1>2, <1>3, <2>1, <2>2, <2>3 DEF SeriesInv
<1>. QED  BY <1>5, <1>6

LEMMA SeriesInvInit == Init => SeriesInv
<1>. DEFINE u == FreshTextView
<1>1. IsTextView(u) /\ u.currentEdit = <<>>
  BY FreshIsTextView
<1>2. u.fromInput = 0 /\ u.lastSelected = u.selected
  BY DEF FreshTextView
<1>. HIDE DEF u
<1>3. View(u) \in Views /\ LeadsTo(View(u), u)
  BY <1>1, ViewType, NothingLeadsOn
<1>4. Init => TypingInv /\ ui = u /\ base = View(u)
  BY TypingInvInit DEF Init, u
<1>. QED  BY <1>1, <1>2, <1>3, <1>4 DEF SeriesInv, Settled

LEMMA SeriesInvNext == SeriesInv /\ [Next]_typingVars => SeriesInv'
<1>. SUFFICES ASSUME SeriesInv, [Next]_typingVars
              PROVE  SeriesInv'
  OBVIOUS
<1>1. CASE UNCHANGED typingVars
  BY <1>1 DEF typingVars, SeriesInv, TypingInv
<1>2. CASE Next
  <2>1. AtRest(ui) /\ Settled(ui) /\ ~ui.crashed
    BY <1>2 DEF Next, SeriesInv, TypingInv
  <2>2. /\ ui.text \in Text /\ Len(ui.text) \in Nat
        /\ ui.selected \in Nat /\ ui.selectedLength \in Nat
        /\ InRange(ui.text, ui.selected, ui.selectedLength)
    BY <2>1, LenProperties DEF AtRest, IsTextView, Text
  <2>3. <<>> \in Text /\ \A ch \in Char : <<ch>> \in Text /\ <<ch>> # <<>>
    BY EmptySeq DEF Text
  <2>4. CASE TypeKey
    <3>1. PICK ch \in Char : Turn(TypeText(ui, <<ch>>))
      BY <2>4 DEF TypeKey
    <3>. DEFINE u == ReplaceRange(ui, ui.selected, ui.selectedLength, <<ch>>)
    <3>2. AtRest(u)
      BY <2>1, <2>2, <2>3, ReplacingEndsAtRest
    <3>3. GoesOn(ui, u)
      BY <2>1, <2>2, <2>3, ReplacingGoesOn
    <3>4. Turn(u)
      BY <3>1 DEF TypeText
    <3>. HIDE DEF u
    <3>. QED  BY <2>1, <3>2, <3>3, <3>4, RestIsAfterInput, TurnKeepsSeries
  <2>5. CASE PressBackspace
    <3>. DEFINE u == Backspace(ui)
    <3>1. ui.selected # 0 =>
            ui.selected - 1 \in Nat /\ InRange(ui.text, ui.selected - 1, 1)
      BY <2>2 DEF InRange
    <3>2. AtRest(u)
      BY <2>1, <2>2, <2>3, <3>1, ReplacingEndsAtRest DEF Backspace
    <3>3. GoesOn(ui, u)
      <4>1. CASE ui.selectedLength > 0
        <5>1. u = ReplaceRange(ui, ui.selected, ui.selectedLength, <<>>)
          BY <4>1 DEF Backspace
        <5>. HIDE DEF u
        <5>. QED  BY <2>1, <2>2, <2>3, <4>1, <5>1, ReplacingGoesOn
      <4>2. CASE ~(ui.selectedLength > 0) /\ ui.selected # 0
        <5>1. u = ReplaceRange(ui, ui.selected - 1, 1, <<>>)
          BY <4>2 DEF Backspace
        <5>. HIDE DEF u
        <5>2. 1 \in Nat /\ 1 > 0
          OBVIOUS
        <5>. QED  BY <2>1, <2>2, <2>3, <3>1, <4>2, <5>1, <5>2, ReplacingGoesOn
      <4>3. CASE ~(ui.selectedLength > 0) /\ ui.selected = 0
        <5>1. ui.selectedLength = 0 /\ ~ui.isSyncing
          BY <2>1, <2>2, <4>3 DEF AtRest
        <5>2. u = ReplaceRange(ui, 0, 0, <<>>)
          BY <4>3, <5>1 DEF Backspace
        <5>3. u = ui
          BY <5>1, <5>2 DEF ReplaceRange, ShouldChangeText, AllowsChange
        <5>. QED  BY <2>1, <5>3, UnchangedGoesOn
      <4>. QED  BY <4>1, <4>2, <4>3
    <3>4. Turn(u)
      BY <2>5 DEF PressBackspace
    <3>. HIDE DEF u
    <3>. QED  BY <2>1, <3>2, <3>3, <3>4, RestIsAfterInput, TurnKeepsSeries
  <2>6. CASE AutocorrectWord
    <3>1. PICK n \in 1 .. 2, text \in {<<ch>> : ch \in Char} :
            n <= ui.selected /\ Turn(Autocorrect(ui, n, text))
      BY <2>6 DEF AutocorrectWord
    <3>. DEFINE u == ReplaceRange(ui, ui.selected - n, n, text)
    <3>2. /\ ui.selected - n \in Nat /\ n \in Nat /\ n > 0
          /\ InRange(ui.text, ui.selected - n, n)
      BY <2>2, <3>1 DEF InRange
    <3>3. text \in Text
      BY <2>3
    <3>4. AtRest(u)
      BY <2>1, <3>2, <3>3, ReplacingEndsAtRest
    <3>5. GoesOn(ui, u)
      BY <2>1, <3>2, <3>3, ReplacingGoesOn
    <3>6. Turn(u)
      BY <3>1 DEF Autocorrect
    <3>. HIDE DEF u
    <3>. QED  BY <2>1, <3>4, <3>5, <3>6, RestIsAfterInput, TurnKeepsSeries
  <2>7. CASE Tap
    <3>1. PICK location \in 0 .. Len(ui.text) : Turn(Select(ui, location, 0))
      BY <2>7 DEF Tap
    <3>2. location \in Nat /\ 0 \in Nat /\ InRange(ui.text, location, 0)
      BY <2>2 DEF InRange
    <3>3. AfterInput(Select(ui, location, 0)) /\ GoesOn(ui, Select(ui, location, 0))
      BY <2>1, <3>2, SelectingEndsInput, SelectingGoesOn
    <3>. QED  BY <2>1, <3>1, <3>3, TurnKeepsSeries
  <2>8. CASE SelectText
    <3>0. PICK location \in 0 .. Len(ui.text) :
            \E length \in 1 .. Len(ui.text) - location : Turn(Select(ui, location, length))
      BY <2>8 DEF SelectText
    <3>1. PICK length \in 1 .. Len(ui.text) - location : Turn(Select(ui, location, length))
      BY <3>0
    <3>2. location \in Nat /\ length \in Nat /\ InRange(ui.text, location, length)
      BY <2>2 DEF InRange
    <3>3. /\ AfterInput(Select(ui, location, length))
          /\ GoesOn(ui, Select(ui, location, length))
      BY <2>1, <3>2, SelectingEndsInput, SelectingGoesOn
    <3>. QED  BY <2>1, <3>1, <3>3, TurnKeepsSeries
  <2>9. CASE TimerExpires
    <3>1. ui.timer /\ Turn(TimerFired(ui))
      BY <2>9 DEF TimerExpires
    <3>2. AfterInput(TimerFired(ui)) /\ GoesOn(ui, TimerFired(ui))
      BY <2>1, <3>1, TimerEndsInput, TimerGoesOn
    <3>. QED  BY <2>1, <3>1, <3>2, TurnKeepsSeries
  <2>. QED  BY <1>2, <2>4, <2>5, <2>6, <2>7, <2>8, <2>9 DEF Next
<1>. QED  BY <1>1, <1>2

----------------------------------------------------------------------------
\* Whatever the user types, removes, corrects, taps and selects, and whenever the
\* timer fires: what was recorded and not yet sent has a running timer, which
\* shouldChangeTextInRange and textViewDidChangeSelection started, and a timer that
\* fires has something to send.
THEOREM TimerAlwaysHasEdits == Spec => []TimerRunsIffEdits
<1>1. TypingInv => TimerRunsIffEdits
  BY DEF TypingInv, AtRest, TimerHasEdits, TimerRunsIffEdits
<1>. QED  BY <1>1, TypingInvInit, TypingInvNext, PTL DEF Spec

\* A series of any length and of any edits is resolved to a movement, a removal and
\* an insertion at most, in this order (resolveMergedEdits), so that a broadcast
\* never carries more; also when resolving raises, and nothing is broadcast.
THEOREM SeriesAlwaysMinimal == Spec => []SeriesIsMinimal
<1>1. ASSUME TypingInv
      PROVE  SeriesIsMinimal
  <2>. DEFINE types == [i \in DOMAIN FinalEdits(ui.currentEdit) |->
                          FinalEdits(ui.currentEdit)[i].type]
  <2>1. ui.currentEdit \in Seq(LocalEdit)
    BY <1>1 DEF TypingInv, IsTextView
  <2>2. types \in { <<>>, <<"CURSOR">>, <<"REMOVE">>, <<"INSERT">>,
                    <<"REMOVE", "INSERT">>, <<"CURSOR", "REMOVE">>,
                    <<"CURSOR", "INSERT">>, <<"CURSOR", "REMOVE", "INSERT">> }
    BY <2>1, TypesOfResolved
  <2>. QED  BY <2>2 DEF SeriesIsMinimal
<1>. QED  BY <1>1, TypingInvInit, TypingInvNext, PTL DEF Spec


\* A series of any length that the user typed, backspaced and autocorrected, and that at
\* most begins with moving the cursor: what mergeSingleEdits and resolveMergedEdits make
\* of it does not raise, and renderIncomingEdits makes of that, on every client, the text
\* and the cursor that the user saw when the series was sent.
THEOREM SeriesAlwaysRepresents == Spec => []SeriesRepresentsTyping
<1>1. ASSUME SeriesInv
      PROVE  SeriesRepresentsTyping
  <2>. DEFINE edits == ui.currentEdit
              v == From(base)
              w == Followed(v, edits)
              cursors == [EmptyDocument.cursors EXCEPT ![User1] = base.cursor]
  <2>1. SUFFICES ASSUME edits # <<>>, ~Intertwined(edits), RemovesBeforeCursor
                 PROVE  RepresentsEdits(edits)
    BY DEF SeriesRepresentsTyping
  <2>2. edits \in Seq(LocalEdit) /\ base \in Views /\ LeadsTo(base, ui)
    BY <1>1, <2>1 DEF SeriesInv, TypingInv, IsTextView
  <2>3. /\ v \in Tracks /\ ~v.began /\ v.typed /\ v.cursor = base.cursor
        /\ base.text \in Text /\ base.cursor \in Nat /\ InRange(base.text, base.cursor, 0)
    BY <2>2, FromType DEF Views
  <2>4. w.placed /\ w.text = ui.text /\ w.cursor = ui.selected
    BY <2>2 DEF LeadsTo
  <2>5. EndsAtCursor(v.cursor, edits)
    <3>1. DOMAIN edits = 1 .. Len(edits)
      BY <2>2, LenProperties
    <3>2. \A n : CursorAfter(n) = CursorAt(base.cursor, edits, n)
      BY DEF CursorAfter, CursorAt, CursorBehind
    <3>. HIDE DEF v
    <3>3. \A i \in 1 .. Len(edits) :
            edits[i].type = "REMOVE" =>
              edits[i].location + edits[i].length = CursorAfter(i - 1)
      BY <2>1, <3>1 DEF RemovesBeforeCursor
    <3>. HIDE DEF edits
    <3>. QED  BY <2>3, <3>2, <3>3 DEF EndsAtCursor
  <2>. HIDE DEF edits
  <2>6. Sound(w)
    <3>. HIDE DEF v
    <3>. QED  BY <2>1, <2>2, <2>3, <2>4, <2>5, PlacedSeriesIsSound
  <2>7. Shows(BaseDocument, base.text, base.cursor)
    <3>1. EmptyDocument.cursors \in CursorMap
      BY DEF EmptyDocument, CursorMap
    <3>2. cursors \in CursorMap /\ cursors[User1] = base.cursor
      BY <2>3, <3>1, User1Assumption DEF CursorMap
    <3>3. BaseDocument = [text |-> base.text, cursors |-> cursors]
      BY DEF BaseDocument
    <3>. HIDE DEF cursors
    <3>. QED  BY <2>3, <3>2, <3>3 DEF Shows, Document
  <2>8. /\ ~Resolved(edits).raised
        /\ Shows(Rendered(BaseDocument, FinalEdits(edits)), w.text, w.cursor)
    <3>1. v = Start(base.text, base.cursor)
      BY DEF From
    <3>. HIDE DEF v
    <3>. QED  BY <2>2, <2>3, <2>6, <2>7, <3>1, SoundSeriesIsRepresented
  <2>9. Replayed(edits) = Rendered(BaseDocument, FinalEdits(edits))
    BY DEF Replayed, Rendered
  <2>. HIDE DEF w
  <2>. QED  BY <2>4, <2>8, <2>9 DEF RepresentsEdits, Shows
<1>. QED  BY <1>1, SeriesInvInit, SeriesInvNext, PTL DEF Spec
=============================================================================
