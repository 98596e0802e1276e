--------------------------- MODULE DocumentProofs ---------------------------
(***************************************************************************)
(* Lemmas about the operators that the other proofs share: of Document,    *)
(* what placing, replacing and rendering do to a document; of EditSeries,  *)
(* what merging and resolving make of a series of any length; and of       *)
(* TextViewDelegate, what its callbacks record, hold back and send.        *)
(***************************************************************************)
EXTENDS TextViewDelegate, SequenceTheorems, FiniteSetTheorems, TLAPS

\* Placing an action of a participant gives an action of that participant.
LEMMA PlacedType ==
  ASSUME NEW cursors \in CursorMap, NEW a \in SentAction
  PROVE  /\ Placed(cursors, a) \in SentAction
         /\ Placed(cursors, a).user = a.user
         /\ Placed(cursors, a).text = a.text
         /\ Placed(cursors, a).type = a.type
         /\ a.type = "REMOVE" => Placed(cursors, a).length = Len(a.text)
<1>1. a.text \in Seq(Char) /\ Len(a.text) \in Nat
  BY LenProperties DEF SentAction, Action, Text
<1>2. a.user \in Client /\ cursors[a.user] \in Int \cup {NoCursor}
  BY DEF SentAction, CursorMap
<1>3. (IF cursors[a.user] = NoCursor THEN 0 ELSE cursors[a.user]) \in Int
  BY <1>2
<1>4. (IF a.type = "REMOVE" THEN Len(a.text) ELSE 0) \in Int
  BY <1>1
<1>5. CASE a.isUndo \/ a.isRedo
  BY <1>1, <1>4, <1>5 DEF Placed, SentAction, Action
<1>6. CASE ~(a.isUndo \/ a.isRedo)
  BY <1>1, <1>3, <1>4, <1>6 DEF Placed, SentAction, Action
<1>. QED  BY <1>5, <1>6

\* A text of which a range within it was replaced is a text; it loses the
\* characters of the range and gains the replacement.
LEMMA SpliceType ==
  ASSUME NEW text \in Text, NEW location \in Int, NEW length \in Int,
         InRange(text, location, length), NEW replacement \in Text
  PROVE  /\ Splice(text, location, length, replacement) \in Text
         /\ Len(Splice(text, location, length, replacement))
              = Len(text) - length + Len(replacement)
<1>1. text \in Seq(Char) /\ Len(text) \in Nat /\ replacement \in Seq(Char)
      /\ Len(replacement) \in Nat
  BY LenProperties DEF Text
<1>2. \A i \in 1 .. Len(text) : text[i] \in Char
  BY <1>1, ElementOfSeq
<1>. DEFINE left  == SubSeq(text, 0 + 1, 0 + location)
            right == SubSeq(text, location + length + 1, Len(text))
<1>3. left \in Seq(Char) /\ Len(left) = location
  BY <1>1, <1>2, SubSeqProperties DEF InRange
<1>4. right \in Seq(Char) /\ Len(right) = Len(text) - location - length
  BY <1>1, <1>2, SubSeqProperties DEF InRange
<1>5. left \o replacement \in Seq(Char)
      /\ Len(left \o replacement) = location + Len(replacement)
  BY <1>1, <1>3, ConcatProperties
<1>6. (left \o replacement) \o right \in Seq(Char)
      /\ Len((left \o replacement) \o right)
           = Len(left \o replacement) + Len(right)
  BY <1>4, <1>5, ConcatProperties
<1>7. Splice(text, location, length, replacement) = (left \o replacement) \o right
  BY DEF Splice, Substring
<1>8. Splice(text, location, length, replacement) \in Seq(Char)
  BY <1>6, <1>7
<1>9. Len(Splice(text, location, length, replacement))
        = (location + Len(replacement)) + (Len(text) - location - length)
  BY <1>4, <1>5, <1>6, <1>7
<1>. QED  BY <1>1, <1>8, <1>9 DEF Text

\* Character by character: what is left of the range stays, the replacement is
\* next, and what was right of the range follows.
LEMMA SpliceElements ==
  ASSUME NEW text \in Text, NEW location \in Int, NEW length \in Int,
         InRange(text, location, length), NEW replacement \in Text,
         NEW i \in 1 .. Len(text) - length + Len(replacement)
  PROVE  Splice(text, location, length, replacement)[i]
           = IF i <= location THEN text[i]
             ELSE IF i <= location + Len(replacement)
                  THEN replacement[i - location]
                  ELSE text[i + length - Len(replacement)]
<1>1. text \in Seq(Char) /\ Len(text) \in Nat /\ replacement \in Seq(Char)
      /\ Len(replacement) \in Nat
  BY LenProperties DEF Text
<1>2. \A j \in 1 .. Len(text) : text[j] \in Char
  BY <1>1, ElementOfSeq
<1>3. 0 <= location /\ 0 <= length /\ location + length <= Len(text)
  BY DEF InRange
<1>. DEFINE left  == SubSeq(text, 0 + 1, 0 + location)
            right == SubSeq(text, location + length + 1, Len(text))
<1>4. /\ left \in Seq(Char) /\ Len(left) = location
      /\ \A j \in 1 .. location : left[j] = text[j]
  BY <1>1, <1>2, <1>3, SubSeqProperties
<1>5. /\ right \in Seq(Char) /\ Len(right) = Len(text) - location - length
      /\ \A j \in 1 .. Len(text) - location - length :
           right[j] = text[location + length + j]
  <2>1. \A j \in location + length + 1 .. Len(text) : text[j] \in Char
    BY <1>1, <1>2, <1>3
  <2>2. /\ right \in Seq(Char)
        /\ Len(right) = IF location + length + 1 <= Len(text)
                        THEN Len(text) - (location + length + 1) + 1 ELSE 0
        /\ \A j \in 1 .. Len(text) - (location + length + 1) + 1 :
             right[j] = text[(location + length + 1) + j - 1]
    BY <1>1, <1>3, <2>1, SubSeqProperties
  <2>. QED  BY <1>1, <1>3, <2>2
<1>6. Splice(text, location, length, replacement) = (left \o replacement) \o right
  BY DEF Splice, Substring
<1>. HIDE DEF left, right
<1>. DEFINE n == Len(replacement)
            head == left \o replacement
<1>7. /\ head \in Seq(Char) /\ Len(head) = location + n
      /\ \A j \in 1 .. location + n :
           head[j] = IF j <= location THEN left[j] ELSE replacement[j - location]
  BY <1>1, <1>4, ConcatProperties
<1>. HIDE DEF head
<1>8. \A j \in 1 .. Len(head) + Len(right) :
        (head \o right)[j] = IF j <= Len(head) THEN head[j] ELSE right[j - Len(head)]
  BY <1>5, <1>7, ConcatProperties
<1>9. n \in Nat /\ i \in 1 .. Len(head) + Len(right) /\ Len(head) = location + n
  BY <1>1, <1>3, <1>5, <1>7
<1>. DEFINE whole == head \o right
<1>10. Splice(text, location, length, replacement)[i] = whole[i]
  BY <1>6 DEF head
<1>11. whole[i] = IF i <= location + n THEN head[i] ELSE right[i - (location + n)]
  BY <1>8, <1>9
<1>. HIDE DEF whole, n
<1>12. CASE i <= location
  BY <1>3, <1>4, <1>7, <1>9, <1>10, <1>11, <1>12
<1>13. CASE location < i /\ i <= location + n
  BY <1>3, <1>7, <1>9, <1>10, <1>11, <1>13 DEF n
<1>14. CASE location + n < i
  <2>1. /\ i - (location + n) \in 1 .. Len(text) - location - length
        /\ location + length + (i - (location + n)) = i + length - n
    BY <1>1, <1>3, <1>5, <1>9, <1>14
  <2>2. right[i - (location + n)] = text[i + length - n]
    BY <1>5, <2>1
  <2>. QED  BY <1>3, <1>9, <1>10, <1>11, <1>14, <2>2 DEF n
<1>. QED  BY <1>3, <1>9, <1>12, <1>13, <1>14

\* A stretch of a text, character by character.
LEMMA SubstringElements ==
  ASSUME NEW text \in Text, NEW location \in Int, NEW length \in Int,
         InRange(text, location, length)
  PROVE  /\ Substring(text, location, length) \in Text
         /\ Len(Substring(text, location, length)) = length
         /\ \A i \in 1 .. length :
              Substring(text, location, length)[i] = text[location + i]
<1>1. text \in Seq(Char) /\ Len(text) \in Nat
  BY LenProperties DEF Text
<1>2. 0 <= location /\ 0 <= length /\ location + length <= Len(text)
  BY DEF InRange
<1>3. \A j \in location + 1 .. location + length : text[j] \in Char
  BY <1>1, <1>2, ElementOfSeq
<1>. DEFINE s == SubSeq(text, location + 1, location + length)
<1>4. /\ s \in Seq(Char)
      /\ Len(s) = IF location + 1 <= location + length
                  THEN (location + length) - (location + 1) + 1 ELSE 0
      /\ \A i \in 1 .. (location + length) - (location + 1) + 1 :
           s[i] = text[(location + 1) + i - 1]
  BY <1>3, SubSeqProperties
<1>. HIDE DEF s
<1>5. Len(s) = length /\ \A i \in 1 .. length : s[i] = text[location + i]
  BY <1>2, <1>4
<1>6. Substring(text, location, length) = s
  BY DEF Substring, s
<1>. QED  BY <1>4, <1>5, <1>6 DEF Text

\* The replacement is found where the range was.
LEMMA SubstringOfSplice ==
  ASSUME NEW text \in Text, NEW location \in Int, NEW length \in Int,
         InRange(text, location, length), NEW replacement \in Text
  PROVE  LET spliced == Splice(text, location, length, replacement)
         IN /\ InRange(spliced, location, Len(replacement))
            /\ Substring(spliced, location, Len(replacement)) = replacement
<1>. DEFINE spliced == Splice(text, location, length, replacement)
<1>1. Len(text) \in Nat /\ Len(replacement) \in Nat
  BY LenProperties DEF Text
<1>2. spliced \in Text /\ Len(spliced) = Len(text) - length + Len(replacement)
  BY SpliceType
<1>3. 0 <= location /\ 0 <= length /\ location + length <= Len(text)
  BY DEF InRange
<1>4. \A i \in 1 .. Len(replacement) : spliced[location + i] = replacement[i]
  <2>. SUFFICES ASSUME NEW i \in 1 .. Len(replacement)
                PROVE  spliced[location + i] = replacement[i]
    OBVIOUS
  <2>1. location + i \in 1 .. Len(text) - length + Len(replacement)
    BY <1>1, <1>3
  <2>2. spliced[location + i]
          = IF location + i <= location THEN text[location + i]
            ELSE IF location + i <= location + Len(replacement)
                 THEN replacement[(location + i) - location]
                 ELSE text[(location + i) + length - Len(replacement)]
    BY <2>1, SpliceElements
  <2>. QED  BY <1>1, <1>3, <2>2
<1>. HIDE DEF spliced
<1>5. InRange(spliced, location, Len(replacement))
  BY <1>1, <1>2, <1>3 DEF InRange
<1>6. /\ Substring(spliced, location, Len(replacement)) \in Seq(Char)
      /\ Len(Substring(spliced, location, Len(replacement))) = Len(replacement)
      /\ \A i \in 1 .. Len(replacement) :
           Substring(spliced, location, Len(replacement))[i] = spliced[location + i]
  BY <1>1, <1>2, <1>5, SubstringElements DEF Text
<1>7. \A i \in 1 .. Len(replacement) :
        Substring(spliced, location, Len(replacement))[i] = replacement[i]
  BY <1>4, <1>6
<1>8. Substring(spliced, location, Len(replacement)) = replacement
  BY <1>6, <1>7, SeqEqual DEF Text
<1>. QED  BY <1>5, <1>8 DEF spliced

\* Putting back what was replaced restores the text.
LEMMA SpliceBack ==
  ASSUME NEW text \in Text, NEW location \in Int, NEW length \in Int,
         InRange(text, location, length), NEW replacement \in Text
  PROVE  Splice(Splice(text, location, length, replacement), location,
                Len(replacement), Substring(text, location, length)) = text
<1>. DEFINE spliced == Splice(text, location, length, replacement)
            cut     == Substring(text, location, length)
            back    == Splice(spliced, location, Len(replacement), cut)
<1>1. Len(text) \in Nat /\ Len(replacement) \in Nat
  BY LenProperties DEF Text
<1>2. 0 <= location /\ 0 <= length /\ location + length <= Len(text)
  BY DEF InRange
<1>3. spliced \in Text /\ Len(spliced) = Len(text) - length + Len(replacement)
  BY SpliceType
<1>4. /\ cut \in Text /\ Len(cut) = length
      /\ \A i \in 1 .. length : cut[i] = text[location + i]
  BY SubstringElements
<1>5. InRange(spliced, location, Len(replacement))
  BY SubstringOfSplice
<1>6. \A i \in 1 .. Len(text) - length + Len(replacement) :
        spliced[i] = IF i <= location THEN text[i]
                     ELSE IF i <= location + Len(replacement)
                          THEN replacement[i - location]
                          ELSE text[i + length - Len(replacement)]
  BY SpliceElements
<1>. HIDE DEF spliced, cut
<1>7. back \in Text /\ Len(back) = Len(spliced) - Len(replacement) + Len(cut)
  BY <1>1, <1>3, <1>4, <1>5, SpliceType
<1>8. Len(back) = Len(text)
  BY <1>1, <1>2, <1>3, <1>4, <1>7
<1>9. ASSUME NEW i \in 1 .. Len(text)
      PROVE  back[i] = text[i]
  <2>1. i \in 1 .. Len(spliced) - Len(replacement) + Len(cut)
    BY <1>1, <1>2, <1>3, <1>4
  <2>. DEFINE n == Len(replacement)
  <2>2. back[i] = IF i <= location THEN spliced[i]
                  ELSE IF i <= location + Len(cut)
                       THEN cut[i - location]
                       ELSE spliced[i + n - Len(cut)]
    <3>. HIDE DEF n
    <3>1. n \in Int /\ InRange(spliced, location, n)
          /\ i \in 1 .. Len(spliced) - n + Len(cut)
          /\ back = Splice(spliced, location, n, cut)
      BY <1>1, <1>5, <2>1 DEF n
    <3>2. spliced \in Text /\ cut \in Text
      BY <1>3, <1>4
    <3>3. Splice(spliced, location, n, cut)[i]
            = IF i <= location THEN spliced[i]
              ELSE IF i <= location + Len(cut)
                   THEN cut[i - location]
                   ELSE spliced[i + n - Len(cut)]
      BY <3>1, <3>2, SpliceElements, ZenonT(40)
    <3>. QED  BY <3>1, <3>3
  <2>3. CASE i <= location
    <3>1. i \in 1 .. Len(text) - length + Len(replacement)
      BY <1>1, <1>2, <2>3
    <3>. QED  BY <1>6, <2>2, <2>3, <3>1
  <2>4. CASE location < i /\ i <= location + length
    <3>1. i - location \in 1 .. length /\ location + (i - location) = i
      BY <1>1, <1>2, <2>4
    <3>2. cut[i - location] = text[location + (i - location)]
      BY <1>4, <3>1
    <3>. QED  BY <1>1, <1>2, <1>4, <2>2, <2>4, <3>1, <3>2
  <2>5. CASE location + length < i
    <3>. DEFINE j == i + Len(replacement) - length
    <3>1. /\ j \in 1 .. Len(text) - length + Len(replacement)
          /\ ~ (j <= location) /\ ~ (j <= location + Len(replacement))
          /\ j + length - Len(replacement) = i
      BY <1>1, <1>2, <2>5
    <3>2. back[i] = spliced[j]
      BY <1>1, <1>2, <1>4, <2>2, <2>5
    <3>. HIDE DEF j
    <3>3. spliced[j] = text[j + length - Len(replacement)]
      BY <1>6, <3>1
    <3>. QED  BY <3>1, <3>2, <3>3
  <2>. QED  BY <1>1, <1>2, <2>3, <2>4, <2>5
<1>. HIDE DEF back
<1>10. back = text
  BY <1>7, <1>8, <1>9, SeqEqual DEF Text
<1>. QED  BY <1>10 DEF back, cut, spliced

\* The cursors stay cursors when an action of a participant moves them.
LEMMA UpdateCursorsType ==
  ASSUME NEW cursors \in CursorMap, NEW p \in SentAction
  PROVE  UpdateCursors(cursors, p) \in CursorMap
<1>1. p.location \in Int /\ p.length \in Int /\ p.user \in Client
      /\ Len(p.text) \in Int
  BY LenProperties DEF SentAction, Action, Text
<1>2. LeftIndex(p) \in Int /\ RightIndex(p) \in Int
  BY <1>1 DEF LeftIndex, RightIndex
<1>3. ASSUME NEW x \in Int PROVE MovedCursor(x, p) \in Int
  BY <1>1, <1>2 DEF MovedCursor
<1>. DEFINE known ==
       [cursors EXCEPT ![p.user] = IF @ = NoCursor THEN LeftIndex(p) ELSE @]
<1>4. known \in [Client -> Int \cup {NoCursor}]
  BY <1>1, <1>2 DEF CursorMap
<1>5. ASSUME NEW u \in Client
      PROVE  (IF known[u] = NoCursor THEN NoCursor ELSE MovedCursor(known[u], p))
               \in Int \cup {NoCursor}
  BY <1>3, <1>4
<1>. QED  BY <1>5 DEF UpdateCursors, CursorMap

\* Rendering a received action leaves a document, whatever the action.
THEOREM RenderType ==
  ASSUME NEW d \in Document, NEW a \in SentAction
  PROVE  Render(d, a) \in Document
<1>1. d.text \in Text /\ d.cursors \in CursorMap
      /\ d = [text |-> d.text, cursors |-> d.cursors]
  BY DEF Document
<1>2. CASE IsCursor(a)
  <2>1. a.location \in Int /\ a.user \in Client
    BY DEF SentAction, Action
  <2>2. [d EXCEPT !.cursors[a.user] = a.location]
          = [text |-> d.text, cursors |-> [d.cursors EXCEPT ![a.user] = a.location]]
    BY <1>1
  <2>3. [d.cursors EXCEPT ![a.user] = a.location] \in CursorMap
    BY <1>1, <2>1 DEF CursorMap
  <2>. QED  BY <1>1, <1>2, <2>2, <2>3 DEF Render, Document
<1>3. CASE ~IsCursor(a) /\ Outcome(d, a) = "accept"
  <2>. DEFINE p == Placed(d.cursors, a)
  <2>1. p \in SentAction /\ p.text = a.text /\ p.type = a.type
        /\ (a.type = "REMOVE" => p.length = Len(a.text))
    BY <1>1, PlacedType
  <2>2. UpdateCursors(d.cursors, p) \in CursorMap
    BY <1>1, <2>1, UpdateCursorsType
  <2>3. ASSUME CanSplice(d.text, p) PROVE EditedText(d.text, p) \in Text
    <3>1. p.location \in Int /\ p.length \in Int /\ p.text \in Text
          /\ LeftIndex(p) \in Int /\ <<>> \in Text
      BY <2>1, EmptySeq DEF SentAction, Action, LeftIndex, Text
    <3>2. CASE p.type = "INSERT"
      <4>1. InRange(d.text, p.location, 0)
        BY <2>3, <3>2 DEF CanSplice
      <4>. HIDE DEF p
      <4>. QED  BY <1>1, <3>1, <3>2, <4>1, SpliceType DEF EditedText
    <3>3. CASE p.type # "INSERT"
      <4>1. InRange(d.text, LeftIndex(p), p.length)
        BY <1>3, <3>3 DEF Outcome, VerifyEdit
      <4>. HIDE DEF p
      <4>. QED  BY <1>1, <3>1, <3>3, <4>1, SpliceType DEF EditedText
    <3>. QED  BY <3>2, <3>3
  <2>4. RenderText(d, p) \in Document
    BY <1>1, <2>2, <2>3 DEF RenderText, Document
  <2>. QED  BY <1>3, <2>4 DEF Render
<1>4. CASE ~IsCursor(a) /\ Outcome(d, a) # "accept"
  BY <1>4 DEF Render
<1>. QED  BY <1>2, <1>3, <1>4

\* An edit moves a cursor that is within the text to a place within it, or at any
\* rate not before it, if the edit is not placed before the text itself.
LEMMA RenderingKeepsCursor ==
  ASSUME NEW d \in Document, NEW a \in SentAction, NEW u \in Client,
         d.cursors[u] \in Nat \cup {NoCursor},
         IsCursor(a) /\ a.user = u => a.location \in Nat,
         ~IsCursor(a) /\ Outcome(d, a) = "accept" /\ a.user = u =>
           LeftIndex(Placed(d.cursors, a)) >= 0
  PROVE  Render(d, a).cursors[u] \in Nat \cup {NoCursor}
<1>1. /\ d.text \in Text /\ Len(d.text) \in Nat /\ d.cursors \in CursorMap
      /\ d = [text |-> d.text, cursors |-> d.cursors]
      /\ a.user \in Client /\ a \in Action
  BY LenProperties DEF Document, Text, SentAction
<1>2. CASE IsCursor(a)
  <2>1. Render(d, a).cursors = [d.cursors EXCEPT ![a.user] = a.location]
    BY <1>1, <1>2 DEF Render
  <2>. QED  BY <1>1, <1>2, <2>1 DEF CursorMap
<1>3. CASE ~IsCursor(a) /\ Outcome(d, a) = "accept"
  <2>. DEFINE p == Placed(d.cursors, a)
              left == LeftIndex(p)
              known == [d.cursors EXCEPT ![p.user] = IF @ = NoCursor THEN left ELSE @]
  <2>1. /\ p \in SentAction /\ p.user = a.user /\ p.text = a.text /\ p.type = a.type
        /\ p.type = "REMOVE" => p.length = Len(p.text)
    BY <1>1, PlacedType
  <2>2. /\ p.text \in Text /\ Len(p.text) \in Nat /\ p.location \in Int /\ p.length \in Int
        /\ left \in Int /\ p.type \in {"INSERT", "REMOVE"}
    BY <1>3, <2>1, LenProperties
    DEF SentAction, Action, Text, LeftIndex, EditType, IsCursor
  <2>3. p.type = "REMOVE" => left >= 0
    BY <1>3, <2>2 DEF Outcome, VerifyEdit, InRange
  <2>4. a.user = u => left >= 0
    BY <1>3
  <2>5. Render(d, a).cursors = UpdateCursors(d.cursors, p)
    BY <1>3 DEF Render, RenderText
  <2>. HIDE DEF p
  <2>6. UpdateCursors(d.cursors, p)[u] \in Nat \cup {NoCursor}
    <3>1. UpdateCursors(d.cursors, p)[u]
            = IF known[u] = NoCursor THEN NoCursor ELSE MovedCursor(known[u], p)
      BY DEF UpdateCursors
    <3>. DEFINE x == known[u]
    <3>2. x \in Nat \cup {NoCursor}
      <4>1. x = IF u = a.user /\ d.cursors[u] = NoCursor THEN left ELSE d.cursors[u]
        BY <1>1, <2>1 DEF CursorMap
      <4>. HIDE DEF x, left
      <4>. QED  BY <2>2, <2>4, <4>1
    <3>. HIDE DEF x, known
    <3>3. ASSUME x \in Nat PROVE MovedCursor(x, p) \in Nat
      <4>1. CASE p.type = "INSERT"
        <5>1. MovedCursor(x, p) = IF x >= LeftIndex(p) THEN x + Len(p.text) ELSE x
          BY <4>1 DEF MovedCursor
        <5>. QED  BY <2>2, <3>3, <5>1
      <4>2. CASE p.type = "REMOVE"
        <5>1. RightIndex(p) = left + p.length
          BY <2>2, <4>2 DEF RightIndex, LeftIndex
        <5>2. MovedCursor(x, p) = CASE x > RightIndex(p) -> x - p.length
                                    [] LeftIndex(p) < x /\ x <= RightIndex(p) -> LeftIndex(p)
                                    [] OTHER -> x
          BY <4>2 DEF MovedCursor
        <5>. DEFINE right == RightIndex(p)
        <5>3. right = left + p.length /\ left >= 0
          BY <2>3, <4>2, <5>1
        <5>4. MovedCursor(x, p) = CASE x > right -> x - p.length
                                    [] left < x /\ x <= right -> left
                                    [] OTHER -> x
          BY <5>2
        <5>. HIDE DEF left, right
        <5>5. CASE x > right
          <6>1. MovedCursor(x, p) = x - p.length
            BY <2>2, <3>3, <5>3, <5>4, <5>5
          <6>. QED  BY <2>2, <3>3, <5>3, <5>5, <6>1
        <5>6. CASE ~(x > right) /\ left < x
          <6>1. MovedCursor(x, p) = left
            BY <2>2, <3>3, <5>3, <5>4, <5>6
          <6>. QED  BY <2>2, <5>3, <6>1
        <5>7. CASE ~(x > right) /\ ~(left < x)
          BY <2>2, <3>3, <5>3, <5>4, <5>7
        <5>. QED  BY <5>5, <5>6, <5>7
      <4>. QED  BY <2>2, <4>1, <4>2
    <3>. QED  BY <3>1, <3>2, <3>3 DEF x
  <2>. QED  BY <2>5, <2>6
<1>4. CASE ~IsCursor(a) /\ Outcome(d, a) # "accept"
  BY <1>4 DEF Render
<1>. QED  BY <1>2, <1>3, <1>4

\* An action that c broadcasts reaches the clients as an action of c.
LEMMA OnTheWireType ==
  ASSUME NEW c \in Client, NEW a \in Action
  PROVE  OnTheWire(c, a) \in SentAction
<1>1. CASE IsCursor(a)
  <2>1. <<>> \in Text
    BY EmptySeq DEF Text
  <2>2. CursorAction(a.location, c) \in Action
    BY <2>1 DEF CursorAction, Action, EditType, User
  <2>3. CursorAction(a.location, c).user = c
    BY DEF CursorAction
  <2>. QED  BY <1>1, <2>2, <2>3 DEF SentAction, OnTheWire
<1>2. CASE ~IsCursor(a)
  <2>1. OnTheWire(c, a) \in Action
    BY <1>2 DEF OnTheWire, Action, User
  <2>2. OnTheWire(c, a).user = c
    BY <1>2 DEF OnTheWire
  <2>. QED  BY <2>1, <2>2 DEF SentAction
<1>. QED  BY <1>1, <1>2

LEMMA OnTheWireAllType ==
  ASSUME NEW c \in Client, NEW series \in Seq(Action)
  PROVE  /\ OnTheWireAll(c, series) \in Seq(SentAction)
         /\ Len(OnTheWireAll(c, series)) = Len(series)
<1>1. Len(series) \in Nat /\ DOMAIN series = 1 .. Len(series)
  BY LenProperties
<1>2. \A i \in 1 .. Len(series) : OnTheWire(c, series[i]) \in SentAction
  BY ElementOfSeq, OnTheWireType
<1>3. OnTheWireAll(c, series) = [i \in 1 .. Len(series) |-> OnTheWire(c, series[i])]
  BY <1>1 DEF OnTheWireAll
<1>. QED  BY <1>1, <1>2, <1>3

\* The edits of a series go out one by one.
LEMMA WireOfConcat ==
  ASSUME NEW c \in Client, NEW s \in Seq(Action), NEW t \in Seq(Action)
  PROVE  OnTheWireAll(c, s \o t) = OnTheWireAll(c, s) \o OnTheWireAll(c, t)
<1>. DEFINE Wire(r) == OnTheWireAll(c, r)
            m == Len(s)
            n == Len(t)
            whole == s \o t
            left == Wire(s)
            right == Wire(t)
            both == left \o right
            sent == Wire(whole)
<1>1. /\ whole \in Seq(Action) /\ Len(whole) = m + n /\ m \in Nat /\ n \in Nat
      /\ \A i \in 1 .. m + n : whole[i] = IF i <= m THEN s[i] ELSE t[i - m]
  BY ConcatProperties, LenProperties
<1>2. \A r \in Seq(Action) :
        /\ Wire(r) \in Seq(SentAction) /\ Len(Wire(r)) = Len(r)
        /\ \A i \in 1 .. Len(r) : Wire(r)[i] = OnTheWire(c, r[i])
  <2>. TAKE r \in Seq(Action)
  <2>1. Wire(r) \in Seq(SentAction) /\ Len(Wire(r)) = Len(r)
    BY OnTheWireAllType
  <2>2. DOMAIN r = 1 .. Len(r)
    BY LenProperties
  <2>3. \A i \in 1 .. Len(r) : Wire(r)[i] = OnTheWire(c, r[i])
    BY <2>2 DEF OnTheWireAll
  <2>. QED  BY <2>1, <2>3
<1>. HIDE DEF Wire, whole
<1>3. /\ left \in Seq(SentAction) /\ Len(left) = m
      /\ \A i \in 1 .. m : left[i] = OnTheWire(c, s[i])
      /\ right \in Seq(SentAction) /\ Len(right) = n
      /\ \A i \in 1 .. n : right[i] = OnTheWire(c, t[i])
  BY <1>2
<1>4. /\ sent \in Seq(SentAction) /\ Len(sent) = m + n
      /\ \A i \in 1 .. m + n : sent[i] = OnTheWire(c, whole[i])
  BY <1>1, <1>2
<1>. HIDE DEF left, right, sent, m, n
<1>5. /\ both \in Seq(SentAction) /\ Len(both) = m + n
      /\ \A i \in 1 .. m + n : both[i] = IF i <= m THEN left[i] ELSE right[i - m]
  BY <1>3, ConcatProperties
<1>. HIDE DEF both
<1>6. ASSUME NEW i \in 1 .. m + n
      PROVE  sent[i] = both[i]
  <2>1. CASE i <= m
    <3>1. i \in 1 .. m
      BY <1>1, <2>1
    <3>2. both[i] = OnTheWire(c, s[i])
      BY <1>3, <1>5, <2>1, <3>1
    <3>3. sent[i] = OnTheWire(c, s[i])
      BY <1>1, <1>4, <2>1
    <3>. QED  BY <3>2, <3>3
  <2>2. CASE ~(i <= m)
    <3>1. i - m \in 1 .. n
      BY <1>1, <2>2
    <3>2. both[i] = OnTheWire(c, t[i - m])
      BY <1>3, <1>5, <2>2, <3>1
    <3>3. sent[i] = OnTheWire(c, t[i - m])
      BY <1>1, <1>4, <2>2
    <3>. QED  BY <3>2, <3>3
  <2>. QED  BY <2>1, <2>2
<1>7. sent = both
  BY <1>4, <1>5, <1>6, SeqEqual
<1>. QED  BY <1>7 DEF sent, both, left, right, whole, Wire

----------------------------------------------------------------------------
(***************************************************************************)
(* Sequences from one end, from the other, and in two pieces.              *)
(***************************************************************************)

\* Putting an edit in the place of the last one.
LEMMA ReplaceLastType ==
  ASSUME NEW S, NEW s \in Seq(S), s # <<>>, NEW e \in S
  PROVE  /\ Last(s) \in S
         /\ Front(s) \in Seq(S)
         /\ ReplaceLast(s, e) \in Seq(S)
<1>1. Len(s) \in Nat /\ Len(s) # 0
  BY LenProperties, EmptySeq
<1>2. Last(s) \in S
  BY <1>1, ElementOfSeq DEF Last
<1>3. \A i \in 1 .. Len(s) - 1 : s[i] \in S
  BY <1>1, ElementOfSeq
<1>4. Front(s) \in Seq(S)
  BY <1>1, <1>3, SubSeqProperties DEF Front
<1>. QED  BY <1>2, <1>4, AppendProperties DEF ReplaceLast

LEMMA FrontAndLast ==
  ASSUME NEW S, NEW s \in Seq(S), s # <<>>
  PROVE  /\ Front(s) \in Seq(S) /\ Last(s) \in S
         /\ s = Append(Front(s), Last(s))
<1>1. PICK t \in Seq(S), x \in S : s = Append(t, x)
  BY SequenceEmptyOrAppend
<1>2. /\ Len(t) \in Nat /\ Len(s) = Len(t) + 1 /\ s[Len(t) + 1] = x
      /\ \A i \in 1 .. Len(t) : s[i] = t[i]
  BY <1>1, AppendProperties, LenProperties
<1>3. Last(s) = x
  BY <1>2 DEF Last
<1>4. Front(s) \in Seq(S) /\ Last(s) \in S
  BY ReplaceLastType
<1>5. Front(s) = SubSeq(s, 1, Len(t))
  <2>1. Len(s) - 1 = Len(t)
    BY <1>2
  <2>. QED  BY <2>1 DEF Front
<1>6. \A i \in 1 .. Len(t) : s[i] \in S
  BY <1>2, ElementOfSeq
<1>7. /\ Len(SubSeq(s, 1, Len(t))) = Len(t)
      /\ \A i \in 1 .. Len(t) : SubSeq(s, 1, Len(t))[i] = s[i]
  <2>. DEFINE n == Len(t)
  <2>1. n \in Nat
    BY <1>2
  <2>. HIDE DEF n
  <2>2. \A i \in 1 .. n : s[i] \in S
    BY <1>6 DEF n
  <2>3. /\ Len(SubSeq(s, 1, n)) = IF 1 <= n THEN n - 1 + 1 ELSE 0
        /\ \A i \in 1 .. n - 1 + 1 : SubSeq(s, 1, n)[i] = s[1 + i - 1]
    BY <2>1, <2>2, SubSeqProperties
  <2>4. /\ Len(SubSeq(s, 1, n)) = n
        /\ \A i \in 1 .. n : SubSeq(s, 1, n)[i] = s[i]
    BY <2>1, <2>3
  <2>. QED  BY <2>4 DEF n
<1>8. Front(s) = t
  <2>1. Len(Front(s)) = Len(t) /\ \A i \in 1 .. Len(t) : Front(s)[i] = t[i]
    BY <1>2, <1>5, <1>7
  <2>. QED  BY <1>4, <2>1, SeqEqual
<1>. QED  BY <1>1, <1>3, <1>4, <1>8

LEMMA SplitSequence ==
  ASSUME NEW S, NEW s \in Seq(S), NEW n \in 0 .. Len(s)
  PROVE  /\ SubSeq(s, 1, n) \in Seq(S) /\ Len(SubSeq(s, 1, n)) = n
         /\ \A i \in 1 .. n : SubSeq(s, 1, n)[i] = s[i]
         /\ SubSeq(s, n + 1, Len(s)) \in Seq(S)
         /\ s = SubSeq(s, 1, n) \o SubSeq(s, n + 1, Len(s))
<1>. DEFINE N == Len(s)
            head == SubSeq(s, 1, n)
            rest == SubSeq(s, n + 1, N)
<1>1. N \in Nat /\ n \in Nat /\ n <= N
  BY LenProperties
<1>2. \A i \in 1 .. N : s[i] \in S
  BY ElementOfSeq
<1>. HIDE DEF N
<1>3. /\ head \in Seq(S) /\ Len(head) = n /\ \A i \in 1 .. n : head[i] = s[i]
  <2>1. \A i \in 1 .. n : s[i] \in S
    BY <1>1, <1>2
  <2>2. /\ head \in Seq(S) /\ Len(head) = IF 1 <= n THEN n - 1 + 1 ELSE 0
        /\ \A i \in 1 .. n - 1 + 1 : head[i] = s[1 + i - 1]
    BY <1>1, <2>1, SubSeqProperties
  <2>. HIDE DEF head
  <2>. QED  BY <1>1, <2>2
<1>4. /\ rest \in Seq(S) /\ Len(rest) = N - n
      /\ \A i \in 1 .. N - n : rest[i] = s[n + i]
  <2>1. \A i \in n + 1 .. N : s[i] \in S
    BY <1>1, <1>2
  <2>2. /\ rest \in Seq(S) /\ Len(rest) = IF n + 1 <= N THEN N - (n + 1) + 1 ELSE 0
        /\ \A i \in 1 .. N - (n + 1) + 1 : rest[i] = s[(n + 1) + i - 1]
    BY <1>1, <2>1, SubSeqProperties
  <2>. HIDE DEF rest
  <2>. QED  BY <1>1, <2>2
<1>. HIDE DEF head, rest
<1>5. /\ head \o rest \in Seq(S) /\ Len(head \o rest) = Len(head) + Len(rest)
      /\ \A i \in 1 .. Len(head) + Len(rest) :
           (head \o rest)[i] = IF i <= Len(head) THEN head[i] ELSE rest[i - Len(head)]
  BY <1>3, <1>4, ConcatProperties
<1>. DEFINE whole == head \o rest
<1>6. /\ whole \in Seq(S) /\ Len(whole) = N
      /\ \A i \in 1 .. N : whole[i] = IF i <= n THEN head[i] ELSE rest[i - n]
  <2>1. Len(head) + Len(rest) = N
    BY <1>1, <1>3, <1>4
  <2>. QED  BY <1>3, <1>5, <2>1
<1>. HIDE DEF whole
<1>7. ASSUME NEW i \in 1 .. N
      PROVE  s[i] = whole[i]
  <2>1. CASE i <= n
    <3>1. i \in 1 .. n
      BY <1>1, <2>1
    <3>. QED  BY <1>3, <1>6, <2>1, <3>1
  <2>2. CASE ~(i <= n)
    <3>1. i - n \in 1 .. N - n /\ n + (i - n) = i
      BY <1>1, <2>2
    <3>2. rest[i - n] = s[i]
      BY <1>4, <3>1
    <3>. QED  BY <1>6, <2>2, <3>2
  <2>. QED  BY <2>1, <2>2
<1>8. s = whole
  BY <1>6, <1>7, SeqEqual DEF N
<1>. QED  BY <1>3, <1>4, <1>8 DEF head, rest, whole, N

LEMMA HeadAndTail ==
  ASSUME NEW S, NEW s \in Seq(S), s # <<>>
  PROVE  /\ Head(s) \in S /\ Tail(s) \in Seq(S)
         /\ s = <<Head(s)>> \o Tail(s)
<1>1. /\ Head(s) \in S /\ Tail(s) \in Seq(S) /\ Len(Tail(s)) = Len(s) - 1
      /\ \A i \in 1 .. Len(Tail(s)) : Tail(s)[i] = s[i + 1]
  BY HeadTailProperties
<1>2. Len(s) \in Nat /\ Len(s) # 0
  BY EmptySeq, LenProperties
<1>3. Head(s) = s[1]
  OBVIOUS
<1>. DEFINE one == <<Head(s)>>
            tail == Tail(s)
            whole == one \o tail
            n == Len(s)
<1>4. one \in Seq(S) /\ Len(one) = 1 /\ one[1] = s[1]
  BY <1>1, <1>3
<1>5. /\ tail \in Seq(S) /\ Len(tail) = n - 1 /\ n \in Nat /\ n # 0
      /\ \A i \in 1 .. n - 1 : tail[i] = s[i + 1]
  BY <1>1, <1>2
<1>. HIDE DEF one, tail
<1>6. /\ whole \in Seq(S) /\ Len(whole) = Len(one) + Len(tail)
      /\ \A i \in 1 .. Len(one) + Len(tail) :
           whole[i] = IF i <= Len(one) THEN one[i] ELSE tail[i - Len(one)]
  <2>1. one \in Seq(S) /\ tail \in Seq(S)
    BY <1>4, <1>5
  <2>. QED  BY <2>1, ConcatProperties
<1>. HIDE DEF whole, n
<1>7. Len(whole) = n /\ \A i \in 1 .. n : whole[i] = IF i <= 1 THEN one[i] ELSE tail[i - 1]
  <2>1. Len(one) + Len(tail) = n
    BY <1>4, <1>5
  <2>. QED  BY <1>4, <1>6, <2>1
<1>8. ASSUME NEW i \in 1 .. n
      PROVE  s[i] = whole[i]
  <2>1. CASE i = 1
    BY <1>4, <1>7, <2>1
  <2>2. CASE i # 1
    <3>1. i - 1 \in 1 .. n - 1 /\ (i - 1) + 1 = i /\ ~(i <= 1)
      BY <1>5, <2>2
    <3>. QED  BY <1>5, <1>7, <3>1
  <2>. QED  BY <2>1, <2>2
<1>9. s = whole
  BY <1>6, <1>7, <1>8, SeqEqual DEF n
<1>. QED  BY <1>1, <1>9 DEF whole, one, tail

----------------------------------------------------------------------------
(***************************************************************************)
(* Merging and resolving: what the loops of mergeSingleEdits and           *)
(* resolveMergedEdits make of a series of any length.  Neither loop reads  *)
(* anything but its own state and the next edit, so that the setting of    *)
(* FoldProofs is not used.                                                 *)
(***************************************************************************)

\* What is recorded of an input: no place and no stretch is negative, and it is
\* neither an undo nor a redo.
LocalEdit ==
  {e \in Action : e.length \in Nat /\ e.location \in Nat /\ ~e.isUndo /\ ~e.isRedo}

Merge(p, merged, edit)  == MergeSingleEdit(merged, edit)
Resolve(p, r, edit)     == ResolveEdit(r, edit)

Merging   == INSTANCE FoldProofs WITH Step <- Merge
Resolving == INSTANCE FoldProofs WITH Step <- Resolve

\* The end of a text, and a text that is longer, are texts.
LEMMA PrefixType ==
  ASSUME NEW text \in Text, NEW n \in Int, n <= Len(text)
  PROVE  Prefix(text, n) \in Text
<1>1. text \in Seq(Char) /\ Len(text) \in Nat
  BY LenProperties DEF Text
<1>2. \A i \in 1 .. n : text[i] \in Char
  BY <1>1, ElementOfSeq
<1>. QED  BY <1>2, SubSeqProperties DEF Prefix, Text

LEMMA JoinedTexts ==
  ASSUME NEW s \in Text, NEW t \in Text
  PROVE  s \o t \in Text
BY ConcatProperties DEF Text

LEMMA LocalEditsAreActions ==
  ASSUME NEW edits \in Seq(LocalEdit)
  PROVE  edits \in Seq(Action)
<1>1. \A i \in 1 .. Len(edits) : edits[i] \in Action
  BY ElementOfSeq DEF LocalEdit
<1>2. Len(edits) \in Nat /\ DOMAIN edits = 1 .. Len(edits) /\ edits = [i \in DOMAIN edits |-> edits[i]]
  BY LenProperties
<1>. QED  BY <1>1, <1>2

LEMMA MergeSingleEditType ==
  ASSUME NEW merged \in Seq(LocalEdit), NEW edit \in LocalEdit
  PROVE  MergeSingleEdit(merged, edit) \in Seq(LocalEdit)
<1>1. CASE merged # <<>> /\ ~IsCursor(edit) /\ Last(merged).type = edit.type
  <2>. DEFINE last == Last(merged)
  <2>1. last \in LocalEdit
    BY <1>1, ReplaceLastType
  <2>. HIDE DEF last
  <2>2. /\ last.text \o edit.text \in Text /\ edit.text \o last.text \in Text
        /\ last.length + edit.length \in Nat
    BY <2>1, JoinedTexts DEF LocalEdit, Action
  <2>3. Join(last, edit) \in LocalEdit
    <3>. DEFINE after  == last.text \o edit.text
                before == edit.text \o last.text
                sum == last.length + edit.length
                added   == [last EXCEPT !.text = after]
                removed == [last EXCEPT !.location = edit.location, !.length = sum,
                                        !.text = before]
    <3>1. Join(last, edit) = IF edit.type = "REMOVE" THEN removed ELSE added
      BY DEF Join
    <3>2. after \in Text /\ before \in Text /\ sum \in Nat /\ sum \in Int
      BY <2>2
    <3>. HIDE DEF after, before, sum
    <3>3. added \in LocalEdit /\ removed \in LocalEdit
      BY <2>1, <3>2 DEF LocalEdit, Action
    <3>. QED  BY <3>1, <3>3
  <2>4. MergeSingleEdit(merged, edit) = ReplaceLast(merged, Join(last, edit))
    BY <1>1 DEF MergeSingleEdit, last
  <2>. QED  BY <1>1, <2>3, <2>4, ReplaceLastType
<1>2. CASE ~(merged # <<>> /\ ~IsCursor(edit) /\ Last(merged).type = edit.type)
  BY <1>2, AppendProperties DEF MergeSingleEdit
<1>. QED  BY <1>1, <1>2

LEMMA MergedType ==
  ASSUME NEW edits \in Seq(LocalEdit)
  PROVE  MergeSingleEdits(edits) \in Seq(LocalEdit)
<1>1. \A merged \in Seq(LocalEdit), edit \in LocalEdit :
        Merge(0, merged, edit) \in Seq(LocalEdit)
  BY MergeSingleEditType DEF Merge
<1>2. <<>> \in Seq(LocalEdit)
  BY EmptySeq
<1>3. Merging!Looped(0, <<>>, edits) \in Seq(LocalEdit)
  BY <1>1, <1>2, Merging!LoopInvariant
<1>4. MergeSingleEdits(edits) = Merging!Looped(0, <<>>, edits)
  BY DEF MergeSingleEdits, Merging!Looped, Merge, FoldLeft, Merging!FoldLeft,
         MapThenFoldSet, Merging!MapThenFoldSet, Max, Merging!Max
<1>. QED  BY <1>3, <1>4

LEMMA MergingNothing == MergeSingleEdits(<<>>) = <<>>
<1>1. MergeSingleEdits(<<>>) = Merging!Looped(0, <<>>, <<>>)
  BY DEF MergeSingleEdits, Merging!Looped, Merge, FoldLeft, Merging!FoldLeft,
         MapThenFoldSet, Merging!MapThenFoldSet, Max, Merging!Max
<1>. QED  BY <1>1, Merging!LoopOfNothing

LEMMA MergingSteps ==
  ASSUME NEW edits \in Seq(LocalEdit), NEW edit \in LocalEdit
  PROVE  MergeSingleEdits(Append(edits, edit))
           = MergeSingleEdit(MergeSingleEdits(edits), edit)
<1>1. ASSUME NEW s
      PROVE  MergeSingleEdits(s) = Merging!Looped(0, <<>>, s)
  BY DEF MergeSingleEdits, Merging!Looped, Merge, FoldLeft, Merging!FoldLeft,
         MapThenFoldSet, Merging!MapThenFoldSet, Max, Merging!Max
<1>2. Merging!Looped(0, <<>>, Append(edits, edit))
        = Merge(0, Merging!Looped(0, <<>>, edits), edit)
  BY Merging!LoopOfAppend
<1>. QED  BY <1>1, <1>2 DEF Merge

----------------------------------------------------------------------------
(***************************************************************************)
(* resolveMergedEdits keeps at most one removal, and behind it at most one *)
(* insertion.                                                              *)
(***************************************************************************)

Removal   == {e \in LocalEdit : e.type = "REMOVE"}
Insertion == {e \in LocalEdit : e.type = "INSERT"}

Found ==
  {<<>>} \cup {<<e>> : e \in Removal \cup Insertion}
         \cup {<<x, y>> : x \in Removal, y \in Insertion}

Resolutions == [final : Found, og : Int, smallest : Int, raised : BOOLEAN]

LEMMA OuterRemovalFound ==
  ASSUME NEW r \in Resolutions, NEW edit \in Removal
  PROVE  ResolveOuterRemoval(r, edit) \in Resolutions
<1>. DEFINE deletedBefore == r.final # <<>> /\ r.final[1].type = "REMOVE"
            kept == IF deletedBefore THEN r.smallest - edit.location
                                     ELSE r.og - edit.location
            text == IF deletedBefore THEN Prefix(edit.text, kept) \o r.final[1].text
                                     ELSE Prefix(edit.text, kept)
            removal == [edit EXCEPT !.text = text, !.length = Len(text)]
            found == [r EXCEPT !.final = <<removal>>, !.smallest = edit.location]
            v == ResolveOuterRemoval(r, edit)
<1>1. v = IF kept > Len(edit.text) THEN [r EXCEPT !.raised = TRUE] ELSE found
  BY DEF ResolveOuterRemoval
<1>2. /\ edit.text \in Text /\ edit.location \in Int /\ kept \in Int
      /\ Len(edit.text) \in Nat
  BY LenProperties DEF Removal, LocalEdit, Action, Resolutions, Text
<1>3. deletedBefore => r.final[1].text \in Text
  <2>1. r.final # <<>> => r.final[1] \in LocalEdit
    <3>1. r.final \in Found
      BY DEF Resolutions
    <3>. QED  BY <3>1 DEF Found, Removal, Insertion
  <2>. QED  BY <2>1 DEF LocalEdit, Action
<1>4. ~(kept > Len(edit.text)) => text \in Text
  BY <1>2, <1>3, PrefixType, JoinedTexts
<1>. HIDE DEF kept, text, v, deletedBefore
<1>5. CASE kept > Len(edit.text)
  BY <1>1, <1>5 DEF Resolutions, v
<1>6. CASE ~(kept > Len(edit.text))
  <2>1. text \in Text /\ Len(text) \in Nat
    BY <1>4, <1>6, LenProperties DEF Text
  <2>2. removal \in Removal
    <3>. DEFINE n == Len(text)
                shortened == [edit EXCEPT !.text = text, !.length = n]
    <3>1. n \in Nat /\ n \in Int
      BY <2>1
    <3>. HIDE DEF n
    <3>2. shortened \in Removal
      BY <2>1, <3>1 DEF Removal, LocalEdit, Action
    <3>. QED  BY <3>2 DEF n
  <2>. HIDE DEF removal
  <2>3. <<removal>> \in Found
    BY <2>2 DEF Found
  <2>4. found \in Resolutions
    BY <1>2, <2>3 DEF Resolutions
  <2>. QED  BY <1>1, <1>6, <2>4 DEF v
<1>. QED  BY <1>5, <1>6

LEMMA ShortSequences ==
  ASSUME NEW x, NEW y
  PROVE  /\ Append(<<>>, x) = <<x>> /\ Append(<<x>>, y) = <<x, y>>
         /\ Front(<<x>>) = <<>> /\ Front(<<x, y>>) = <<x>>
         /\ Last(<<x>>) = x /\ Last(<<x, y>>) = y
<1>. DEFINE S == {x, y}
<1>1. /\ <<>> \in Seq(S) /\ <<x>> \in Seq(S) /\ <<x, y>> \in Seq(S) /\ x \in S /\ y \in S
      /\ Len(<<>>) = 0 /\ Len(<<x>>) = 1 /\ Len(<<x, y>>) = 2
      /\ <<x>>[1] = x /\ <<x, y>>[1] = x /\ <<x, y>>[2] = y
  OBVIOUS
<1>. HIDE DEF S
<1>2. Append(<<>>, x) = <<x>>
  <2>1. /\ Append(<<>>, x) \in Seq(S) /\ Len(Append(<<>>, x)) = 1
        /\ Append(<<>>, x)[1] = x
    BY <1>1, AppendProperties
  <2>. QED  BY <1>1, <2>1, SeqEqual
<1>3. Append(<<x>>, y) = <<x, y>>
  <2>1. /\ Append(<<x>>, y) \in Seq(S) /\ Len(Append(<<x>>, y)) = 2
        /\ Append(<<x>>, y)[1] = x /\ Append(<<x>>, y)[2] = y
    BY <1>1, AppendProperties
  <2>2. \A i \in 1 .. 2 : Append(<<x>>, y)[i] = <<x, y>>[i]
    BY <1>1, <2>1
  <2>. QED  BY <1>1, <2>1, <2>2, SeqEqual
<1>4. Front(<<x>>) = <<>>
  BY <1>1, SubSeqEmpty DEF Front
<1>5. Front(<<x, y>>) = <<x>>
  <2>1. Front(<<x, y>>) = SubSeq(<<x, y>>, 1, 1)
    BY <1>1 DEF Front
  <2>2. \A i \in 1 .. 1 : <<x, y>>[i] \in S
    BY <1>1
  <2>3. /\ SubSeq(<<x, y>>, 1, 1) \in Seq(S) /\ Len(SubSeq(<<x, y>>, 1, 1)) = 1
        /\ SubSeq(<<x, y>>, 1, 1)[1] = x
    BY <1>1, <2>2, SubSeqProperties
  <2>. QED  BY <1>1, <2>1, <2>3, SeqEqual
<1>. QED  BY <1>1, <1>2, <1>3, <1>4, <1>5 DEF Last

\* The last of what was found, without it, and with another in its place.
LEMMA LastFound ==
  ASSUME NEW final \in Found, final # <<>>
  PROVE  /\ Last(final) \in Removal \cup Insertion
         /\ Front(final) \in Found
         /\ \A e \in LocalEdit : e.type = Last(final).type => ReplaceLast(final, e) \in Found
         /\ Last(final).type = "REMOVE" => \A e \in Insertion : Append(final, e) \in Found
<1>1. CASE \E x \in Removal \cup Insertion : final = <<x>>
  <2>1. PICK x \in Removal \cup Insertion : final = <<x>>
    BY <1>1
  <2>2. Last(final) = x /\ Front(final) = <<>>
    BY <2>1, ShortSequences
  <2>3. \A e : ReplaceLast(final, e) = <<e>> /\ Append(final, e) = <<x, e>>
    BY <2>1, <2>2, ShortSequences DEF ReplaceLast
  <2>4. \A e \in LocalEdit : e.type = x.type => e \in Removal \cup Insertion
    BY DEF Removal, Insertion
  <2>5. x.type = "REMOVE" => x \in Removal
    BY DEF Removal, Insertion
  <2>. QED  BY <2>2, <2>3, <2>4, <2>5 DEF Found
<1>2. CASE \E x \in Removal, y \in Insertion : final = <<x, y>>
  <2>1. PICK x \in Removal, y \in Insertion : final = <<x, y>>
    BY <1>2
  <2>2. Last(final) = y /\ Front(final) = <<x>>
    BY <2>1, ShortSequences
  <2>3. \A e : ReplaceLast(final, e) = <<x, e>>
    BY <2>2, ShortSequences DEF ReplaceLast
  <2>4. y.type = "INSERT" /\ \A e \in LocalEdit : e.type = "INSERT" => e \in Insertion
    BY DEF Insertion
  <2>. QED  BY <2>2, <2>3, <2>4 DEF Found
<1>. QED  BY <1>1, <1>2 DEF Found

LEMMA InnerRemovalFound ==
  ASSUME NEW r \in Resolutions, NEW edit \in Removal
  PROVE  ResolveInnerRemoval(r, edit) \in Resolutions
<1>1. CASE r.final = <<>>
  BY <1>1 DEF ResolveInnerRemoval
<1>2. CASE r.final # <<>>
  <2>. DEFINE last == Last(r.final)
              kept == Len(last.text) - edit.length
              shorter == [last EXCEPT !.text = Prefix(@, kept)]
              v == ResolveInnerRemoval(r, edit)
  <2>1. r.final \in Found
    BY DEF Resolutions
  <2>2. last \in LocalEdit /\ Front(r.final) \in Found
    BY <1>2, <2>1, LastFound DEF Removal, Insertion
  <2>3. /\ last.text \in Text /\ Len(last.text) \in Nat /\ kept \in Int
        /\ kept <= Len(last.text)
    BY <2>2, LenProperties DEF LocalEdit, Action, Removal, Text
  <2>4. Prefix(last.text, kept) \in Text
    BY <2>3, PrefixType
  <2>5. v = CASE kept < 0 -> [r EXCEPT !.raised = TRUE]
              [] kept = 0 -> [r EXCEPT !.final = Front(r.final)]
              [] kept > 0 -> [r EXCEPT !.final = ReplaceLast(r.final, shorter)]
    BY <1>2 DEF ResolveInnerRemoval
  <2>6. shorter \in LocalEdit /\ shorter.type = last.type
    <3>. HIDE DEF last, kept
    <3>. QED  BY <2>2, <2>4 DEF LocalEdit, Action
  <2>. HIDE DEF shorter
  <2>7. ReplaceLast(r.final, shorter) \in Found
    BY <1>2, <2>1, <2>6, LastFound
  <2>. DEFINE longer == ReplaceLast(r.final, shorter)
              without == Front(r.final)
  <2>. HIDE DEF last, kept, v, longer, without
  <2>8. \A final \in Found : [r EXCEPT !.final = final] \in Resolutions
    BY DEF Resolutions
  <2>9. [r EXCEPT !.raised = TRUE] \in Resolutions
    BY DEF Resolutions
  <2>10. longer \in Found /\ without \in Found
    BY <2>2, <2>7 DEF longer, without
  <2>11. v = CASE kept < 0 -> [r EXCEPT !.raised = TRUE]
               [] kept = 0 -> [r EXCEPT !.final = without]
               [] kept > 0 -> [r EXCEPT !.final = longer]
    BY <2>5 DEF longer, without
  <2>12. v \in Resolutions
    <3>1. kept < 0 \/ kept = 0 \/ kept > 0
      BY <2>3
    <3>2. /\ kept < 0 => ~(kept = 0) /\ ~(kept > 0)
          /\ kept = 0 => ~(kept < 0) /\ ~(kept > 0)
          /\ kept > 0 => ~(kept < 0) /\ ~(kept = 0)
      BY <2>3
    <3>3. CASE kept < 0
      BY <2>9, <2>11, <3>2, <3>3
    <3>4. CASE kept = 0
      BY <2>8, <2>10, <2>11, <3>2, <3>4
    <3>5. CASE kept > 0
      BY <2>8, <2>10, <2>11, <3>2, <3>5
    <3>. QED  BY <3>1, <3>3, <3>4, <3>5
  <2>. QED  BY <2>12 DEF v
<1>. QED  BY <1>1, <1>2

LEMMA InsertionFound ==
  ASSUME NEW r \in Resolutions, NEW edit \in Insertion
  PROVE  ResolveInsertion(r, edit) \in Resolutions
<1>0. r.final \in Found
  BY DEF Resolutions
<1>1. CASE r.final = <<>>
  <2>1. Append(r.final, edit) = <<edit>> /\ <<edit>> \in Found
    BY <1>1 DEF Found
  <2>. QED  BY <1>1, <2>1 DEF ResolveInsertion, Resolutions
<1>2. CASE r.final # <<>> /\ Last(r.final).type = "REMOVE"
  <2>1. Append(r.final, edit) \in Found
    BY <1>0, <1>2, LastFound
  <2>. QED  BY <1>2, <2>1 DEF ResolveInsertion, Resolutions
<1>3. CASE r.final # <<>> /\ Last(r.final).type # "REMOVE"
  <2>. DEFINE last == Last(r.final)
              longer == [last EXCEPT !.text = @ \o edit.text]
              v == ResolveInsertion(r, edit)
  <2>1. last \in LocalEdit
    BY <1>0, <1>3, LastFound DEF Removal, Insertion
  <2>2. v = [r EXCEPT !.final = ReplaceLast(r.final, longer)]
    BY <1>3 DEF ResolveInsertion
  <2>3. longer \in LocalEdit /\ longer.type = last.type
    <3>. HIDE DEF last
    <3>1. last.text \o edit.text \in Text
      BY <2>1, JoinedTexts DEF LocalEdit, Action, Insertion
    <3>. QED  BY <2>1, <3>1 DEF LocalEdit, Action
  <2>. HIDE DEF longer
  <2>4. ReplaceLast(r.final, longer) \in Found
    BY <1>0, <1>3, <2>3, LastFound
  <2>. HIDE DEF v
  <2>5. v \in Resolutions
    BY <2>2, <2>4 DEF Resolutions
  <2>. QED  BY <2>5 DEF v
<1>. QED  BY <1>1, <1>2, <1>3

LEMMA ResolveEditFound ==
  ASSUME NEW r \in Resolutions, NEW edit \in LocalEdit
  PROVE  ResolveEdit(r, edit) \in Resolutions
<1>1. r.raised \in BOOLEAN /\ edit.type \in EditType
  BY DEF Resolutions, LocalEdit, Action
<1>2. CASE r.raised \/ IsCursor(edit)
  <2>1. ~(~r.raised /\ edit.type = "REMOVE") /\ ~(~r.raised /\ edit.type = "INSERT")
    BY <1>2 DEF IsCursor
  <2>2. ResolveEdit(r, edit) = r
    BY <1>2, <2>1 DEF ResolveEdit
  <2>. QED  BY <2>2
<1>3. CASE ~r.raised /\ edit.type = "REMOVE"
  <2>1. edit \in Removal /\ ~(r.raised \/ IsCursor(edit))
    BY <1>3 DEF Removal, IsCursor
  <2>2. ResolveEdit(r, edit) = IF edit.location < r.smallest
                               THEN ResolveOuterRemoval(r, edit)
                               ELSE ResolveInnerRemoval(r, edit)
    BY <1>3, <2>1 DEF ResolveEdit
  <2>. QED  BY <2>1, <2>2, OuterRemovalFound, InnerRemovalFound
<1>4. CASE ~r.raised /\ edit.type = "INSERT"
  <2>1. edit \in Insertion /\ ~(r.raised \/ IsCursor(edit))
    BY <1>4 DEF Insertion, IsCursor
  <2>2. ResolveEdit(r, edit) = ResolveInsertion(r, edit)
    BY <1>4, <2>1 DEF ResolveEdit
  <2>. QED  BY <2>1, <2>2, InsertionFound
<1>. QED  BY <1>1, <1>2, <1>3, <1>4 DEF EditType, IsCursor

\* The movements that a series starts with are its first ones, and what follows
\* them starts with a text edit.
LEMMA LeadingCursorsAreFirst ==
  ASSUME NEW edits \in Seq(LocalEdit)
  PROVE  LET moves == Cardinality(LeadingCursors(edits))
         IN /\ moves \in 0 .. Len(edits)
            /\ moves > 0 => IsCursor(edits[moves])
            /\ \A i \in 1 .. moves : IsCursor(edits[i])
            /\ moves < Len(edits) => ~IsCursor(edits[moves + 1])
<1>. DEFINE n == Len(edits)
            Leads(k) == \A i \in 1 .. k : IsCursor(edits[i])
            N == {k \in Nat : k <= n => Leads(k)}
<1>1. n \in Nat /\ DOMAIN edits = 1 .. n
  BY LenProperties
<1>. HIDE DEF n
<1>2. PICK k \in 0 .. n : Leads(k) /\ (k < n => ~IsCursor(edits[k + 1]))
  <2>1. CASE \E k \in 0 .. n : Leads(k) /\ k < n /\ ~IsCursor(edits[k + 1])
    BY <2>1
  <2>2. CASE \A k \in 0 .. n : Leads(k) /\ k < n => IsCursor(edits[k + 1])
    <3>1. 0 \in N
      OBVIOUS
    <3>2. ASSUME NEW k \in Nat, k \in N
          PROVE  k + 1 \in N
      <4>1. SUFFICES ASSUME k + 1 <= n, NEW i \in 1 .. k + 1
                     PROVE  IsCursor(edits[i])
        OBVIOUS
      <4>2. k \in 0 .. n /\ k < n /\ Leads(k)
        BY <1>1, <3>2, <4>1
      <4>3. IsCursor(edits[k + 1])
        BY <2>2, <4>2
      <4>. QED  BY <4>2, <4>3
    <3>. HIDE DEF N
    <3>3. Nat \subseteq N
      BY <3>1, <3>2, Merging!AllNaturals
    <3>. QED  BY <1>1, <3>3 DEF N
  <2>. QED  BY <2>1, <2>2
<1>3. LeadingCursors(edits) = 1 .. k
  <2>1. ASSUME NEW i \in 1 .. n
        PROVE  (\A j \in 1 .. i : IsCursor(edits[j])) <=> i <= k
    <3>1. CASE i <= k
      BY <1>2, <3>1
    <3>2. CASE ~(i <= k)
      <4>1. k < n /\ k + 1 \in 1 .. i
        BY <1>1, <3>2
      <4>. QED  BY <1>2, <3>2, <4>1
    <3>. QED  BY <3>1, <3>2
  <2>2. ASSUME NEW i
        PROVE  i \in LeadingCursors(edits) <=> i \in 1 .. k
    BY <1>1, <2>1 DEF LeadingCursors
  <2>. QED  BY <2>2
<1>4. Cardinality(LeadingCursors(edits)) = k
  BY <1>1, <1>3, FS_Interval
<1>5. /\ k \in 0 .. n /\ (k > 0 => IsCursor(edits[k])) /\ Leads(k)
      /\ k < n => ~IsCursor(edits[k + 1])
  BY <1>1, <1>2
<1>. QED  BY <1>4, <1>5 DEF n

\* What is resolved of a series: perhaps a movement, then what was found.
LEMMA ResolvedFound ==
  ASSUME NEW edits \in Seq(LocalEdit)
  PROVE  \E moved, found :
           /\ moved = <<>> \/ \E c \in LocalEdit : IsCursor(c) /\ moved = <<c>>
           /\ found \in Found
           /\ FinalEdits(edits) = moved \o found
<1>. DEFINE merged == MergeSingleEdits(edits)
            moves == Cardinality(LeadingCursors(merged))
            moved == IF moves = 0 THEN <<>> ELSE <<merged[moves]>>
            texts == SubSeq(merged, moves + 1, Len(merged))
            start == StartResolving(Head(texts))
            r == FoldLeft(ResolveEdit, start, Tail(texts))
<1>1. merged \in Seq(LocalEdit)
  BY MergedType
<1>2. FinalEdits(edits) = IF texts = <<>> THEN moved ELSE moved \o r.final
  BY DEF FinalEdits, Resolved, ResolveMergedEdits
<1>. HIDE DEF merged
<1>3. /\ moves \in 0 .. Len(merged) /\ Len(merged) \in Nat
      /\ moves > 0 => IsCursor(merged[moves])
      /\ moves < Len(merged) => ~IsCursor(merged[moves + 1])
  BY <1>1, LeadingCursorsAreFirst, LenProperties
<1>. HIDE DEF moves
<1>4. moved = <<>> \/ \E c \in LocalEdit : IsCursor(c) /\ moved = <<c>>
  BY <1>1, <1>3, ElementOfSeq
<1>5. texts \in Seq(LocalEdit) /\ (texts # <<>> => ~IsCursor(Head(texts)))
  <2>1. \A i \in moves + 1 .. Len(merged) : merged[i] \in LocalEdit
    BY <1>1, <1>3, ElementOfSeq
  <2>2. texts \in Seq(LocalEdit)
    BY <1>3, <2>1, SubSeqProperties
  <2>3. CASE moves < Len(merged)
    <3>1. Head(texts) = merged[moves + 1]
      BY <1>1, <1>3, <2>3, HeadTailOfSubSeq
    <3>. QED  BY <1>3, <2>2, <2>3, <3>1
  <2>4. CASE ~(moves < Len(merged))
    BY <1>3, <2>2, <2>4, SubSeqEmpty
  <2>. QED  BY <2>3, <2>4
<1>. HIDE DEF texts, moved
<1>6. CASE texts = <<>>
  <2>1. FinalEdits(edits) = moved \o <<>> /\ <<>> \in Found
    BY <1>2, <1>4, <1>6 DEF Found
  <2>. QED  BY <1>4, <2>1
<1>7. CASE texts # <<>>
  <2>1. /\ Head(texts) \in LocalEdit /\ ~IsCursor(Head(texts))
        /\ Tail(texts) \in Seq(LocalEdit)
    BY <1>5, <1>7, HeadTailProperties
  <2>2. start \in Resolutions
    <3>1. Head(texts) \in Removal \cup Insertion /\ Head(texts).location \in Int
      BY <2>1 DEF Removal, Insertion, LocalEdit, Action, EditType, IsCursor
    <3>2. <<Head(texts)>> \in Found
      BY <3>1 DEF Found
    <3>. QED  BY <3>1, <3>2 DEF StartResolving, Resolutions
  <2>3. \A s \in Resolutions, edit \in LocalEdit : Resolve(0, s, edit) \in Resolutions
    BY ResolveEditFound DEF Resolve
  <2>. HIDE DEF start
  <2>4. Resolving!Looped(0, start, Tail(texts)) \in Resolutions
    BY <2>1, <2>2, <2>3, Resolving!LoopInvariant
  <2>5. r = Resolving!Looped(0, start, Tail(texts))
    BY DEF Resolving!Looped, Resolve, FoldLeft, Resolving!FoldLeft,
           MapThenFoldSet, Resolving!MapThenFoldSet, Max, Resolving!Max
  <2>. HIDE DEF r
  <2>6. r.final \in Found /\ FinalEdits(edits) = moved \o r.final
    BY <1>2, <1>7, <2>4, <2>5 DEF Resolutions
  <2>. QED  BY <1>4, <2>6
<1>. QED  BY <1>6, <1>7

\* What is resolved of a series is again local edits.
LEMMA FinalEditsType ==
  ASSUME NEW edits \in Seq(LocalEdit)
  PROVE  FinalEdits(edits) \in Seq(LocalEdit)
<1>1. PICK moved, found :
        /\ moved = <<>> \/ \E c \in LocalEdit : IsCursor(c) /\ moved = <<c>>
        /\ found \in Found
        /\ FinalEdits(edits) = moved \o found
  BY ResolvedFound
<1>2. moved \in Seq(LocalEdit)
  <2>1. \A c \in LocalEdit : <<c>> \in Seq(LocalEdit)
    OBVIOUS
  <2>. QED  BY <1>1, <2>1, EmptySeq
<1>3. found \in Seq(LocalEdit)
  <2>1. /\ \A x \in LocalEdit : <<x>> \in Seq(LocalEdit)
        /\ \A x, y \in LocalEdit : <<x, y>> \in Seq(LocalEdit)
    OBVIOUS
  <2>2. \A x \in Removal \cup Insertion : x \in LocalEdit
    BY DEF Removal, Insertion
  <2>3. CASE found = <<>>
    BY <2>3, EmptySeq
  <2>4. CASE \E x \in Removal \cup Insertion : found = <<x>>
    BY <2>1, <2>2, <2>4
  <2>5. CASE \E x \in Removal, y \in Insertion : found = <<x, y>>
    BY <2>1, <2>2, <2>5
  <2>. QED  BY <1>1, <2>3, <2>4, <2>5 DEF Found
<1>. QED  BY <1>1, <1>2, <1>3, ConcatProperties

----------------------------------------------------------------------------
(***************************************************************************)
(* The callbacks.  A text view has a selection within its text, whatever   *)
(* the delegate is doing.  A callback leaves a text view; and either it    *)
(* has recorded something and started the timer, or nothing is recorded    *)
(* that was not before.                                                    *)
(***************************************************************************)

Fields == {"text", "selected", "selectedLength", "currentEdit", "timer", "isSyncing",
           "syncBuffer", "fromInput", "lastSelected", "undoStack", "redoStack", "sent",
           "crashed"}

IsTextView(u) ==
  /\ DOMAIN u = Fields
  /\ u.text \in Text
  /\ u.selected \in Nat /\ u.selectedLength \in Nat
  /\ InRange(u.text, u.selected, u.selectedLength)
  /\ u.currentEdit \in Seq(LocalEdit)
  /\ u.syncBuffer \in Seq(LocalEdit)
  /\ u.fromInput \in Nat

RecordsInto(v) == v.timer = TRUE /\ v.currentEdit # <<>>

RecordsNothing(u, v) ==
  /\ v.text = u.text /\ v.currentEdit = u.currentEdit /\ v.timer = u.timer
  /\ v.redoStack = u.redoStack

\* Text that is recorded clears the redo stack.
ClearsRedo(u, v) == v.currentEdit # u.currentEdit /\ v.redoStack = <<>>

Alike(u, v) ==
  v.isSyncing = u.isSyncing /\ v.sent = u.sent /\ v.crashed = u.crashed

\* What was sent in a turn of the main thread that began with nothing sent.
IsSent(sent) == sent = <<>> \/ \E series \in Seq(LocalEdit) : sent = <<series>>

LEMMA FreshIsTextView ==
  LET u == FreshTextView
  IN /\ IsTextView(u)
     /\ u.text = <<>> /\ u.currentEdit = <<>> /\ u.timer = FALSE
     /\ u.isSyncing = FALSE /\ u.syncBuffer = <<>> /\ u.sent = <<>>
     /\ u.crashed = FALSE
<1>. DEFINE u == FreshTextView
<1>1. <<>> \in Text /\ <<>> \in Seq(LocalEdit) /\ Len(<<>>) = 0
  BY EmptySeq DEF Text
<1>2. /\ DOMAIN u = Fields
      /\ u.text = <<>> /\ u.selected = 0 /\ u.selectedLength = 0
      /\ u.currentEdit = <<>> /\ u.timer = FALSE /\ u.isSyncing = FALSE
      /\ u.syncBuffer = <<>> /\ u.fromInput = 0 /\ u.sent = <<>> /\ u.crashed = FALSE
  BY DEF FreshTextView, Fields
<1>. HIDE DEF u
<1>3. InRange(u.text, u.selected, u.selectedLength)
  BY <1>1, <1>2 DEF InRange
<1>4. IsTextView(u)
  BY <1>1, <1>2, <1>3 DEF IsTextView
<1>. QED  BY <1>2, <1>4 DEF u

\* A recorded edit is an action without a user, at a place and of a length that are
\* not negative.
LEMMA RangeActionType ==
  ASSUME NEW location \in Nat, NEW length \in Nat, NEW text \in Text
  PROVE  RangeAction(location, length, text) \in LocalEdit
<1>. DEFINE type == IF length = 0 THEN "INSERT" ELSE "REMOVE"
<1>1. RangeAction(location, length, text)
        = [type |-> type, user |-> NoUser, text |-> text, location |-> location,
           length |-> length, isUndo |-> FALSE, isRedo |-> FALSE]
  <2>1. RangeAction(location, length, text)
          = [TextAction(NoUser, text, type) EXCEPT !.location = location, !.length = length]
    BY DEF RangeAction
  <2>. HIDE DEF type
  <2>. QED  BY <2>1 DEF TextAction
<1>2. type \in EditType /\ NoUser \in User
  BY DEF EditType, User
<1>. HIDE DEF type
<1>. QED  BY <1>1, <1>2 DEF LocalEdit, Action

LEMMA CursorActionType ==
  ASSUME NEW position \in Nat
  PROVE  CursorAction(position, NoUser) \in LocalEdit
<1>1. <<>> \in Text
  BY EmptySeq DEF Text
<1>. QED  BY <1>1 DEF CursorAction, LocalEdit, Action, EditType, User

\* Something is recorded of every replacement.
LEMMA RecordedType ==
  ASSUME NEW u, IsTextView(u), NEW location \in Nat, NEW length \in Nat,
         InRange(u.text, location, length), NEW text \in Text
  PROVE  /\ u.currentEdit \o RecordedEdits(u, location, length, text) \in Seq(LocalEdit)
         /\ u.currentEdit \o RecordedEdits(u, location, length, text) # <<>>
         /\ u.currentEdit \o RecordedEdits(u, location, length, text) # u.currentEdit
<1>. DEFINE deleted == RangeAction(location, length, Substring(u.text, location, length))
            added   == RangeAction(location, 0, text)
            recorded == RecordedEdits(u, location, length, text)
<1>1. deleted \in LocalEdit
  <2>1. Substring(u.text, location, length) \in Text
    BY SubstringElements DEF IsTextView, Fields
  <2>. QED  BY <2>1, RangeActionType
<1>2. added \in LocalEdit
  BY RangeActionType
<1>3. recorded = <<deleted>> \/ recorded = <<deleted, added>> \/ recorded = <<added>>
  BY DEF RecordedEdits
<1>. HIDE DEF deleted, added, recorded
<1>4. recorded \in Seq(LocalEdit) /\ Len(recorded) >= 1
  <2>1. CASE recorded = <<deleted>>
    BY <1>1, <2>1
  <2>2. CASE recorded = <<added>>
    BY <1>2, <2>2
  <2>3. CASE recorded = <<deleted, added>>
    BY <1>1, <1>2, <2>3
  <2>. QED  BY <1>3, <2>1, <2>2, <2>3
<1>5. u.currentEdit \in Seq(LocalEdit) /\ Len(u.currentEdit) \in Nat
  BY LenProperties DEF IsTextView, Fields
<1>6. /\ u.currentEdit \o recorded \in Seq(LocalEdit)
      /\ Len(u.currentEdit \o recorded) = Len(u.currentEdit) + Len(recorded)
  BY <1>4, <1>5, ConcatProperties
<1>7. /\ Len(u.currentEdit \o recorded) # 0
      /\ Len(u.currentEdit \o recorded) # Len(u.currentEdit)
  BY <1>4, <1>5, <1>6
<1>. QED  BY <1>6, <1>7, EmptySeq DEF recorded

\* A selection change that the delegate expects is ignored.
LEMMA ExpectedChange ==
  ASSUME NEW u, IsTextView(u), u.fromInput > 0
  PROVE  LET v == DidChangeSelection(u)
         IN /\ IsTextView(v)
            /\ v.fromInput = u.fromInput - 1
            /\ v.currentEdit = u.currentEdit /\ v.timer = u.timer /\ Alike(u, v)
            /\ v.redoStack = u.redoStack
<1>1. DidChangeSelection(u)
        = [u EXCEPT !.fromInput = u.fromInput - 1, !.lastSelected = u.selected]
  BY DEF DidChangeSelection, IsTextView, Fields
<1>2. u.fromInput - 1 \in Nat
  BY DEF IsTextView
<1>. QED  BY <1>1, <1>2 DEF IsTextView, Fields, Alike

\* What the text view asks the delegate is held back, or recorded, or is nothing.
LEMMA AskingRecords ==
  ASSUME NEW u, IsTextView(u), NEW location \in Nat, NEW length \in Nat,
         InRange(u.text, location, length), NEW text \in Text
  PROVE  LET v == ShouldChangeText(u, location, length, text)
         IN /\ IsTextView(v) /\ v.text = u.text /\ Alike(u, v)
            /\ \/ RecordsNothing(u, v) /\ (u.isSyncing \/ (length = 0 /\ text = <<>>))
               \/ /\ RecordsInto(v) /\ ClearsRedo(u, v)
                  /\ v.fromInput >= ReportedChanges(length, text)
<1>. DEFINE series == u.currentEdit \o RecordedEdits(u, location, length, text)
            more == u.fromInput + ReportedChanges(length, text)
            buffer == Append(u.syncBuffer, RangeAction(location, length, text))
            held == [u EXCEPT !.syncBuffer = buffer]
            asked == [u EXCEPT !.currentEdit = series, !.timer = TRUE, !.fromInput = more,
                               !.redoStack = <<>>]
            v == ShouldChangeText(u, location, length, text)
<1>1. CASE u.isSyncing
  <2>1. v = held
    BY <1>1 DEF ShouldChangeText, IsTextView, Fields
  <2>2. buffer \in Seq(LocalEdit)
    BY RangeActionType, AppendProperties DEF IsTextView
  <2>. HIDE DEF buffer
  <2>3. IsTextView(held) /\ Alike(u, held) /\ RecordsNothing(u, held)
    BY <2>2 DEF IsTextView, Fields, Alike, RecordsNothing
  <2>4. held.text = u.text
    BY <2>3 DEF RecordsNothing
  <2>. HIDE DEF held, v
  <2>5. /\ IsTextView(v) /\ v.text = u.text /\ Alike(u, v)
        /\ RecordsNothing(u, v)
    BY <2>1, <2>3, <2>4
  <2>. QED  BY <1>1, <2>5 DEF v
<1>2. CASE ~u.isSyncing /\ location = 0 /\ length = 0 /\ text = <<>>
  <2>1. v = u
    BY <1>2 DEF ShouldChangeText
  <2>2. Alike(u, u) /\ RecordsNothing(u, u)
    BY DEF Alike, RecordsNothing
  <2>. HIDE DEF v
  <2>3. /\ IsTextView(v) /\ v.text = u.text /\ Alike(u, v) /\ RecordsNothing(u, v)
    BY <2>1, <2>2
  <2>. QED  BY <1>2, <2>3 DEF v
<1>3. CASE ~u.isSyncing /\ ~(location = 0 /\ length = 0 /\ text = <<>>)
  <2>1. v = asked
    BY <1>3 DEF ShouldChangeText, IsTextView, Fields
  <2>2. series \in Seq(LocalEdit) /\ series # <<>> /\ series # u.currentEdit
    BY RecordedType
  <2>3. more \in Nat /\ more >= ReportedChanges(length, text)
    BY DEF IsTextView, ReportedChanges
  <2>. HIDE DEF series, more
  <2>4. /\ IsTextView(asked) /\ asked.fromInput = more /\ asked.text = u.text
        /\ Alike(u, asked) /\ RecordsInto(asked) /\ ClearsRedo(u, asked)
    BY <2>2, <2>3 DEF IsTextView, Fields, Alike, RecordsInto, ClearsRedo
  <2>. HIDE DEF asked, v
  <2>5. /\ IsTextView(v) /\ v.text = u.text /\ Alike(u, v)
        /\ RecordsInto(v) /\ ClearsRedo(u, v)
        /\ v.fromInput >= ReportedChanges(length, text)
    BY <2>1, <2>3, <2>4
  <2>. QED  BY <2>5 DEF v
<1>. QED  BY <1>1, <1>2, <1>3

\* Input is held back, or recorded with a timer, and is not taken for the user's
\* moving the cursor: the selection changes that follow are as many as were
\* announced.
LEMMA ReplacingRecords ==
  ASSUME NEW u, IsTextView(u), NEW location \in Nat, NEW length \in Nat,
         InRange(u.text, location, length), NEW text \in Text
  PROVE  LET v == ReplaceRange(u, location, length, text)
         IN /\ IsTextView(v) /\ Alike(u, v)
            /\ RecordsNothing(u, v) \/ (RecordsInto(v) /\ ClearsRedo(u, v))
<1>. DEFINE asked == ShouldChangeText(u, location, length, text)
            spliced == Splice(u.text, location, length, text)
            cursor == location + Len(text)
            changed == [asked EXCEPT !.text = spliced, !.selected = cursor,
                                     !.selectedLength = 0]
            changes == ReportedChanges(length, text)
            reported == DidChangeSelection(changed)
            again == DidChangeSelection(reported)
            v == ReplaceRange(u, location, length, text)
<1>1. /\ IsTextView(asked) /\ asked.text = u.text /\ Alike(u, asked)
      /\ \/ RecordsNothing(u, asked) /\ (u.isSyncing \/ (length = 0 /\ text = <<>>))
         \/ RecordsInto(asked) /\ ClearsRedo(u, asked) /\ asked.fromInput >= changes
  BY AskingRecords
<1>2. CASE u.isSyncing \/ (length = 0 /\ text = <<>>)
  <2>1. v = asked
    BY <1>2 DEF ReplaceRange, AllowsChange
  <2>. HIDE DEF v, asked
  <2>2. /\ IsTextView(v) /\ Alike(u, v)
        /\ RecordsNothing(u, v) \/ (RecordsInto(v) /\ ClearsRedo(u, v))
    BY <1>1, <2>1
  <2>. QED  BY <2>2 DEF v
<1>3. CASE ~u.isSyncing /\ ~(length = 0 /\ text = <<>>)
  <2>. HIDE DEF asked
  <2>1. v = IF changes = 2 THEN again ELSE reported
    BY <1>1, <1>3 DEF ReplaceRange, AllowsChange, asked
  <2>2. changes \in {1, 2}
    BY DEF ReportedChanges
  <2>3. spliced \in Text /\ cursor \in Nat /\ InRange(spliced, cursor, 0)
    <3>1. /\ u.text \in Text /\ Len(u.text) \in Nat /\ Len(text) \in Nat
      BY LenProperties DEF IsTextView, Text
    <3>2. spliced \in Text /\ Len(spliced) = Len(u.text) - length + Len(text)
      BY <3>1, SpliceType
    <3>. HIDE DEF spliced
    <3>. QED  BY <3>1, <3>2 DEF InRange
  <2>. HIDE DEF spliced, cursor, changes
  <2>4. /\ IsTextView(changed) /\ changed.fromInput = asked.fromInput
        /\ changed.currentEdit = asked.currentEdit /\ changed.timer = asked.timer
        /\ changed.redoStack = asked.redoStack /\ Alike(asked, changed)
    BY <1>1, <2>3 DEF IsTextView, Fields, Alike
  <2>5. /\ changed.fromInput \in Nat /\ changed.fromInput >= changes
        /\ RecordsInto(changed) /\ ClearsRedo(u, changed) /\ Alike(u, changed)
    BY <1>1, <1>3, <2>4 DEF IsTextView, RecordsInto, Alike, ClearsRedo
  <2>. HIDE DEF changed
  <2>6. /\ IsTextView(reported) /\ reported.fromInput = changed.fromInput - 1
        /\ reported.currentEdit = changed.currentEdit /\ reported.timer = changed.timer
        /\ reported.redoStack = changed.redoStack /\ Alike(changed, reported)
    BY <2>2, <2>4, <2>5, ExpectedChange
  <2>. HIDE DEF reported
  <2>7. RecordsInto(reported) /\ ClearsRedo(u, reported) /\ Alike(u, reported)
    BY <2>5, <2>6 DEF RecordsInto, Alike, ClearsRedo
  <2>8. changes = 2 => /\ IsTextView(again) /\ RecordsInto(again)
                       /\ ClearsRedo(u, again) /\ Alike(u, again)
    <3>1. ASSUME changes = 2
          PROVE  /\ IsTextView(again)
                 /\ again.currentEdit = reported.currentEdit
                 /\ again.timer = reported.timer /\ Alike(reported, again)
                 /\ again.redoStack = reported.redoStack
      <4>1. reported.fromInput > 0
        BY <2>5, <2>6, <3>1
      <4>. QED  BY <2>6, <4>1, ExpectedChange
    <3>. HIDE DEF again
    <3>. QED  BY <2>7, <3>1 DEF RecordsInto, Alike, ClearsRedo
  <2>. HIDE DEF again, v
  <2>9. IsTextView(v) /\ Alike(u, v) /\ RecordsInto(v) /\ ClearsRedo(u, v)
    BY <2>1, <2>6, <2>7, <2>8
  <2>. QED  BY <2>9 DEF v
<1>. QED  BY <1>2, <1>3

\* A key that is pressed and a backspace replace a range of the text.
LEMMA PressingRecords ==
  ASSUME NEW u, IsTextView(u),
         NEW v \in {TypeText(u, text) : text \in Text} \cup {Backspace(u)}
  PROVE  /\ IsTextView(v) /\ Alike(u, v)
         /\ RecordsNothing(u, v) \/ (RecordsInto(v) /\ ClearsRedo(u, v))
<1>1. /\ u.text \in Text /\ Len(u.text) \in Nat
      /\ u.selected \in Nat /\ u.selectedLength \in Nat
      /\ InRange(u.text, u.selected, u.selectedLength)
  BY LenProperties DEF IsTextView, Text
<1>2. u.selected # 0 => u.selected - 1 \in Nat /\ InRange(u.text, u.selected - 1, 1)
  BY <1>1 DEF InRange
<1>3. <<>> \in Text
  BY EmptySeq DEF Text
<1>4. CASE v = Backspace(u)
  BY <1>1, <1>2, <1>3, <1>4, ReplacingRecords DEF Backspace
<1>5. CASE \E text \in Text : v = TypeText(u, text)
  BY <1>1, <1>5, ReplacingRecords DEF TypeText
<1>. QED  BY <1>4, <1>5

\* Merging the current edit leaves nothing recorded, and sends what it is resolved
\* to unless it raises.
LEMMA MergingSends ==
  ASSUME NEW u, IsTextView(u), u.sent = <<>>, u.currentEdit # <<>>
  PROVE  LET v == MergeCurrentEdit(u)
         IN /\ IsTextView(v)
            /\ v.currentEdit = <<>> /\ v.timer = u.timer /\ v.selected = u.selected
            /\ v.text = u.text /\ v.isSyncing = TRUE /\ v.redoStack = u.redoStack
            /\ IsSent(v.sent) /\ (v.crashed \/ v.sent # <<>>)
<1>. DEFINE raised == Resolved(u.currentEdit).raised
            series == FinalEdits(u.currentEdit)
            sent == IF raised THEN u.sent ELSE Append(u.sent, series)
            v == [u EXCEPT !.isSyncing = TRUE, !.currentEdit = <<>>,
                           !.crashed = raised, !.sent = sent]
<1>1. MergeCurrentEdit(u) = v
  BY DEF MergeCurrentEdit, IsTextView, Fields
<1>2. series \in Seq(LocalEdit)
  BY FinalEditsType DEF IsTextView
<1>. HIDE DEF raised, series
<1>3. sent = IF raised THEN <<>> ELSE <<series>>
  BY ShortSequences
<1>4. <<series>> # <<>>
  <2>1. Len(<<series>>) = 1 /\ Len(<<>>) = 0
    OBVIOUS
  <2>. QED  BY <2>1
<1>5. IsSent(sent) /\ (raised \/ sent # <<>>)
  BY <1>2, <1>3, <1>4 DEF IsSent
<1>. HIDE DEF sent
<1>6. <<>> \in Seq(LocalEdit)
  BY EmptySeq
<1>. QED  BY <1>1, <1>5, <1>6 DEF IsTextView, Fields

\* The user's moving the cursor is ignored; or it sends what was typed before, is
\* recorded itself and starts the timer again.
LEMMA SelectingRecords ==
  ASSUME NEW u, IsTextView(u), u.sent = <<>>, ~u.crashed,
         NEW location \in Nat, NEW length \in Nat, InRange(u.text, location, length)
  PROVE  LET v == Select(u, location, length)
         IN /\ IsTextView(v) /\ v.text = u.text /\ IsSent(v.sent)
            /\ v.redoStack = u.redoStack
            /\ \/ v.crashed
               \/ RecordsNothing(u, v) /\ Alike(u, v)
               \/ /\ RecordsInto(v) /\ ~v.crashed
                  /\ v.sent # <<>> \/ v.isSyncing = u.isSyncing
<1>. DEFINE changed == [u EXCEPT !.selected = location, !.selectedLength = length]
            v == DidChangeSelection(changed)
            flushed == MergeCurrentEdit(changed)
            cursor == CursorAction(location, NoUser)
<1>1. Select(u, location, length) = v
  BY DEF Select
<1>2. /\ IsTextView(changed) /\ changed.selected = location
      /\ RecordsNothing(u, changed) /\ Alike(u, changed)
  BY DEF IsTextView, Fields, RecordsNothing, Alike
<1>3. cursor \in LocalEdit
  BY CursorActionType
<1>. HIDE DEF changed, cursor
<1>4. CASE changed.fromInput > 0 \/ changed.selected = changed.lastSelected
  <2>. DEFINE fewer == IF changed.fromInput > 0 THEN changed.fromInput - 1
                                                ELSE changed.fromInput
              w == [changed EXCEPT !.fromInput = fewer, !.lastSelected = changed.selected]
  <2>1. v = w
    BY <1>2, <1>4 DEF DidChangeSelection, IsTextView, Fields
  <2>2. fewer \in Nat
    BY <1>2 DEF IsTextView
  <2>. HIDE DEF fewer
  <2>3. IsTextView(w) /\ RecordsNothing(changed, w) /\ Alike(changed, w)
    BY <1>2, <2>2 DEF IsTextView, Fields, RecordsNothing, Alike
  <2>. HIDE DEF w, v
  <2>4. /\ IsTextView(v) /\ v.text = u.text /\ IsSent(v.sent)
        /\ v.redoStack = u.redoStack /\ RecordsNothing(u, v) /\ Alike(u, v)
    BY <1>2, <2>1, <2>3 DEF RecordsNothing, Alike, IsSent
  <2>. QED  BY <1>1, <2>4 DEF v
<1>5. CASE ~(changed.fromInput > 0 \/ changed.selected = changed.lastSelected)
  <2>. DEFINE Recorded(w) ==
                [w EXCEPT !.timer = TRUE, !.currentEdit = Append(w.currentEdit, cursor),
                          !.lastSelected = changed.selected]
              w == IF changed.currentEdit # <<>> /\ ~IsCursor(Head(changed.currentEdit))
                   THEN flushed ELSE changed
  <2>1. /\ IsTextView(w) /\ w.text = u.text /\ IsSent(w.sent)
        /\ w.redoStack = u.redoStack
        /\ w.crashed \/ w.sent # <<>> \/ w.isSyncing = u.isSyncing
    BY <1>2, MergingSends DEF RecordsNothing, Alike, IsSent
  <2>2. v = IF w.crashed THEN w ELSE Recorded(w)
    <3>1. v = IF w.crashed THEN w
              ELSE [w EXCEPT !.timer = TRUE,
                             !.currentEdit = Append(@, CursorAction(changed.selected, NoUser)),
                             !.lastSelected = changed.selected]
      BY <1>5 DEF DidChangeSelection
    <3>. HIDE DEF w
    <3>. QED  BY <1>2, <2>1, <3>1 DEF cursor, IsTextView, Fields
  <2>. HIDE DEF w, v
  <2>3. CASE w.crashed
    <3>1. v = w
      BY <2>2, <2>3
    <3>. QED  BY <1>1, <2>1, <2>3, <3>1 DEF v
  <2>4. CASE ~w.crashed
    <3>1. Append(w.currentEdit, cursor) \in Seq(LocalEdit)
          /\ Append(w.currentEdit, cursor) # <<>>
      <4>. DEFINE edits == w.currentEdit
      <4>1. edits \in Seq(LocalEdit) /\ cursor \in LocalEdit
        BY <1>3, <2>1 DEF IsTextView
      <4>. HIDE DEF edits, cursor
      <4>2. Append(edits, cursor) \in Seq(LocalEdit) /\ Append(edits, cursor) # <<>>
        BY <4>1, AppendProperties
      <4>. QED  BY <4>2 DEF edits
    <3>. DEFINE r == Recorded(w)
    <3>2. /\ IsTextView(r) /\ r.text = w.text /\ r.sent = w.sent
          /\ r.crashed = w.crashed /\ r.isSyncing = w.isSyncing /\ RecordsInto(r)
          /\ r.redoStack = w.redoStack
      BY <2>1, <3>1 DEF IsTextView, Fields, RecordsInto
    <3>3. v = r
      BY <2>2, <2>4
    <3>. HIDE DEF r
    <3>4. /\ IsTextView(v) /\ v.text = u.text /\ IsSent(v.sent)
          /\ RecordsInto(v) /\ ~v.crashed /\ v.redoStack = u.redoStack
          /\ v.sent # <<>> \/ v.isSyncing = u.isSyncing
      BY <2>1, <2>4, <3>2, <3>3
    <3>. QED  BY <1>1, <3>4 DEF v
  <2>. QED  BY <2>3, <2>4
<1>. QED  BY <1>4, <1>5

LEMMA TimerSendsAll ==
  ASSUME NEW u, IsTextView(u), u.sent = <<>>, u.currentEdit # <<>>
  PROVE  LET v == TimerFired(u)
         IN /\ IsTextView(v) /\ v.text = u.text /\ v.timer = FALSE
            /\ v.currentEdit = <<>> /\ v.redoStack = u.redoStack
            /\ IsSent(v.sent) /\ (v.crashed \/ v.sent # <<>>)
<1>. DEFINE stopped == [u EXCEPT !.timer = FALSE]
<1>1. /\ IsTextView(stopped) /\ stopped.sent = <<>> /\ stopped.currentEdit # <<>>
      /\ stopped.timer = FALSE /\ stopped.text = u.text
      /\ stopped.redoStack = u.redoStack
  BY DEF IsTextView, Fields
<1>2. TimerFired(u) = MergeCurrentEdit(stopped)
  BY DEF TimerFired
<1>. HIDE DEF stopped
<1>. QED  BY <1>1, <1>2, MergingSends

----------------------------------------------------------------------------
(***************************************************************************)
(* The block of the main queue.  The setting of the loop of                *)
(* applyBufferedEdits is not used either.                                  *)
(***************************************************************************)

Apply(p, s, edit) == ApplyBufferedEdit(s, edit)

Applying == INSTANCE FoldProofs WITH Step <- Apply

\* What the loop has made of a text: nothing is recorded only if nothing is changed.
Applications(text) ==
  {s \in [text : Text, cursor : Nat, edits : Seq(LocalEdit), raised : BOOLEAN] :
     /\ InRange(s.text, s.cursor, 0)
     /\ s.raised \/ s.edits # <<>> \/ s.text = text}

LEMMA ApplyingKeeps ==
  ASSUME NEW text, NEW s \in Applications(text), NEW edit \in LocalEdit
  PROVE  ApplyBufferedEdit(s, edit) \in Applications(text)
<1>. DEFINE deletes == edit.length > 0
            at == s.cursor - edit.length
            cut == Substring(s.text, at, edit.length)
            moved == [edit EXCEPT !.location = at]
            removed == [edit EXCEPT !.location = at, !.text = cut]
            applied == IF deletes THEN removed ELSE moved
            added == IF deletes THEN <<>> ELSE edit.text
            spliced == Splice(s.text, at, edit.length, added)
            cursor == IF deletes THEN at ELSE at + Len(edit.text)
            edits == Append(s.edits, applied)
            v == ApplyBufferedEdit(s, edit)
<1>1. v = IF s.raised \/ ~InRange(s.text, at, edit.length)
          THEN [s EXCEPT !.raised = TRUE]
          ELSE [s EXCEPT !.text = spliced, !.cursor = cursor, !.edits = edits]
  BY DEF ApplyBufferedEdit, Applications
<1>2. /\ s.text \in Text /\ Len(s.text) \in Nat /\ s.cursor \in Nat
      /\ edit.text \in Text /\ Len(edit.text) \in Nat /\ edit.length \in Nat
      /\ <<>> \in Text /\ Len(<<>>) = 0 /\ at \in Int
      /\ s.edits \in Seq(LocalEdit)
  BY EmptySeq, LenProperties DEF Applications, LocalEdit, Action, Text
<1>. HIDE DEF v
<1>3. CASE s.raised \/ ~InRange(s.text, at, edit.length)
  <2>1. v = [s EXCEPT !.raised = TRUE]
    BY <1>1, <1>3
  <2>2. v \in Applications(text)
    BY <2>1 DEF Applications
  <2>. QED  BY <2>2 DEF v
<1>4. CASE ~s.raised /\ InRange(s.text, at, edit.length)
  <2>1. v = [s EXCEPT !.text = spliced, !.cursor = cursor, !.edits = edits]
    BY <1>1, <1>4
  <2>2. at \in Nat /\ cut \in Text
    <3>1. at \in Nat
      BY <1>2, <1>4 DEF InRange
    <3>. HIDE DEF at
    <3>. QED  BY <1>2, <1>4, <3>1, SubstringElements
  <2>3. applied \in LocalEdit
    <3>. HIDE DEF at, cut
    <3>1. at \in Int /\ edit \in Action
      BY <2>2 DEF LocalEdit
    <3>2. moved \in LocalEdit
      BY <2>2, <3>1 DEF LocalEdit, Action
    <3>3. removed \in LocalEdit
      BY <2>2, <3>1 DEF LocalEdit, Action
    <3>. QED  BY <3>2, <3>3
  <2>4. /\ spliced \in Text /\ cursor \in Nat /\ InRange(spliced, cursor, 0)
    <3>. DEFINE n == Len(added)
    <3>1. added \in Text /\ n \in Nat /\ (deletes => n = 0) /\ (~deletes => n = Len(edit.text))
      BY <1>2
    <3>. HIDE DEF added, at
    <3>2. spliced \in Text /\ Len(spliced) = Len(s.text) - edit.length + n
      BY <1>2, <1>4, <2>2, <3>1, SpliceType
    <3>. HIDE DEF spliced, n
    <3>3. at + edit.length <= Len(s.text) /\ edit.length >= 0
      BY <1>4 DEF InRange
    <3>4. cursor \in Nat /\ cursor <= Len(spliced)
      BY <1>2, <2>2, <3>1, <3>2, <3>3
    <3>. QED  BY <1>2, <3>2, <3>4 DEF InRange
  <2>. HIDE DEF applied
  <2>5. edits \in Seq(LocalEdit) /\ edits # <<>>
    BY <1>2, <2>3, AppendProperties, EmptySeq
  <2>. HIDE DEF spliced, cursor, edits
  <2>6. v \in Applications(text)
    BY <2>1, <2>4, <2>5 DEF Applications
  <2>. QED  BY <2>6 DEF v
<1>. QED  BY <1>3, <1>4

LEMMA BufferAppliedType ==
  ASSUME NEW u, IsTextView(u)
  PROVE  BufferApplied(u) \in Applications(u.text)
<1>. DEFINE start == [text |-> u.text, cursor |-> u.selected, edits |-> <<>>,
                      raised |-> FALSE]
<1>1. start \in Applications(u.text)
  <2>1. /\ u.text \in Text /\ u.selected \in Nat /\ <<>> \in Seq(LocalEdit)
        /\ InRange(u.text, u.selected, 0)
    <3>1. u.text \in Text /\ Len(u.text) \in Nat
      BY LenProperties DEF IsTextView, Text
    <3>. QED  BY <3>1, EmptySeq DEF IsTextView, InRange
  <2>. QED  BY <2>1 DEF Applications
<1>2. \A s \in Applications(u.text), edit \in LocalEdit :
        Apply(0, s, edit) \in Applications(u.text)
  BY ApplyingKeeps DEF Apply
<1>3. u.syncBuffer \in Seq(LocalEdit)
  BY DEF IsTextView
<1>4. BufferApplied(u) = Applying!Looped(0, start, u.syncBuffer)
  BY DEF BufferApplied, Applying!Looped, Apply, FoldLeft, Applying!FoldLeft,
         MapThenFoldSet, Applying!MapThenFoldSet, Max, Applying!Max
<1>. HIDE DEF start
<1>5. Applying!Looped(0, start, u.syncBuffer) \in Applications(u.text)
  BY <1>1, <1>2, <1>3, Applying!LoopInvariant
<1>. QED  BY <1>4, <1>5

LEMMA MinOfTwo ==
  ASSUME NEW m \in Int, NEW n \in Int
  PROVE  Min({m, n}) = IF m <= n THEN m ELSE n
<1>1. CASE m <= n
  BY <1>1 DEF Min
<1>2. CASE ~(m <= n)
  BY <1>2 DEF Min
<1>. QED  BY <1>1, <1>2

\* After the block the text view shows the document, or has edits of syncBuffer in
\* the current edit; or the program has ended.
LEMMA ShowingDocument ==
  ASSUME NEW u, IsTextView(u), ~u.crashed, NEW d \in Document, NEW user \in Client,
         d.cursors[user] = NoCursor \/ d.cursors[user] >= 0
  PROVE  LET v == ShowDocument(u, d, user)
         IN /\ IsTextView(v) /\ v.timer = u.timer /\ v.sent = u.sent
            /\ \/ v.crashed
               \/ /\ u.currentEdit # <<>> => v.currentEdit # <<>>
                  /\ v.text = d.text \/ v.currentEdit # <<>>
<1>. DEFINE place == IF d.cursors[user] = NoCursor THEN 0 ELSE d.cursors[user]
            selected == Min({place, Len(d.text)})
            shown == [u EXCEPT !.text = d.text, !.selected = selected, !.selectedLength = 0]
            s == BufferApplied(shown)
            edits == u.currentEdit \o s.edits
            v == ShowDocument(u, d, user)
<1>1. /\ d.text \in Text /\ Len(d.text) \in Nat /\ place \in Nat
  <2>1. d.text \in Text /\ d.cursors[user] \in Int \cup {NoCursor}
    BY DEF Document, CursorMap
  <2>. QED  BY <2>1, LenProperties, NoCursorAssumption DEF Text
<1>. HIDE DEF place
<1>2. selected \in Nat /\ InRange(d.text, selected, 0)
  BY <1>1, MinOfTwo DEF InRange
<1>3. v = ApplyBufferedEdits(shown)
  BY DEF ShowDocument, ShowInTextView, place
<1>. HIDE DEF selected
<1>4. /\ IsTextView(shown) /\ shown.text = d.text /\ shown.timer = u.timer
      /\ shown.sent = u.sent /\ shown.currentEdit = u.currentEdit
  BY <1>1, <1>2 DEF IsTextView, Fields
<1>. HIDE DEF shown
<1>5. s \in Applications(d.text)
  BY <1>4, BufferAppliedType
<1>6. v = IF s.raised THEN [shown EXCEPT !.crashed = TRUE]
          ELSE [shown EXCEPT !.text = s.text, !.selected = s.cursor, !.selectedLength = 0,
                             !.currentEdit = edits, !.syncBuffer = <<>>,
                             !.isSyncing = FALSE]
  BY <1>3, <1>4 DEF ApplyBufferedEdits, IsTextView, Fields
<1>. HIDE DEF s, v
<1>7. CASE s.raised
  <2>1. v = [shown EXCEPT !.crashed = TRUE]
    BY <1>6, <1>7
  <2>2. IsTextView(v) /\ v.timer = u.timer /\ v.sent = u.sent /\ v.crashed
    BY <1>4, <2>1 DEF IsTextView, Fields
  <2>. QED  BY <2>2 DEF v
<1>8. CASE ~s.raised
  <2>1. v = [shown EXCEPT !.text = s.text, !.selected = s.cursor, !.selectedLength = 0,
                          !.currentEdit = edits, !.syncBuffer = <<>>,
                          !.isSyncing = FALSE]
    BY <1>6, <1>8
  <2>2. /\ s.text \in Text /\ s.cursor \in Nat /\ InRange(s.text, s.cursor, 0)
        /\ s.edits \in Seq(LocalEdit) /\ u.currentEdit \in Seq(LocalEdit)
        /\ s.edits # <<>> \/ s.text = d.text
    BY <1>5, <1>8 DEF Applications, IsTextView
  <2>3. /\ edits \in Seq(LocalEdit)
        /\ s.edits # <<>> => edits # <<>>
        /\ u.currentEdit # <<>> => edits # <<>>
    <3>1. /\ edits \in Seq(LocalEdit) /\ Len(edits) = Len(u.currentEdit) + Len(s.edits)
          /\ Len(u.currentEdit) \in Nat /\ Len(s.edits) \in Nat
      BY <2>2, ConcatProperties, LenProperties
    <3>2. /\ s.edits # <<>> => Len(s.edits) # 0
          /\ u.currentEdit # <<>> => Len(u.currentEdit) # 0
      BY <2>2, EmptySeq
    <3>3. Len(edits) # 0 => edits # <<>>
      BY EmptySeq
    <3>4. s.edits # <<>> \/ u.currentEdit # <<>> => Len(edits) # 0
      <4>. DEFINE m == Len(u.currentEdit)
                  n == Len(s.edits)
      <4>1. m \in Nat /\ n \in Nat /\ Len(edits) = m + n
        BY <3>1
      <4>2. (s.edits # <<>> => n # 0) /\ (u.currentEdit # <<>> => m # 0)
        BY <3>2
      <4>. HIDE DEF m, n, edits
      <4>. QED  BY <4>1, <4>2
    <3>. HIDE DEF edits
    <3>. QED  BY <3>1, <3>3, <3>4
  <2>. HIDE DEF edits
  <2>4. <<>> \in Seq(LocalEdit)
    BY EmptySeq
  <2>5. /\ IsTextView(v) /\ v.timer = u.timer /\ v.sent = u.sent
        /\ v.currentEdit = edits /\ v.text = s.text
    BY <1>4, <2>1, <2>2, <2>3, <2>4 DEF IsTextView, Fields
  <2>. QED  BY <2>2, <2>3, <2>5 DEF v
<1>. QED  BY <1>7, <1>8

=============================================================================
