---------------------------- MODULE H1Head_proofs ----------------------------
(***************************************************************************)
(* Proofs about the head of an HTTP/1 request, for every input, every size *)
(* of the buffer and every way of cutting the input into reads: the head   *)
(* ends with its first empty line, whether it is accepted depends on       *)
(* nothing but the head, and the fields of a head that was read hold its   *)
(* lines, each of them once and in order, less the blanks around and the   *)
(* folds inside a value.  The first part says where find_header_end and    *)
(* find_start_line_end find the end of a line in the buffer, and what that *)
(* means in the input; the second what the header parser makes of a line;  *)
(* the third what is left of the line when the field is put together       *)
(* again.                                                                  *)
(***************************************************************************)
EXTENDS H1Head, Sums_proofs

LEMMA Constants ==
    /\ Inputs \subseteq Seq(Chars)
    /\ BufSize \in Nat /\ BufSize > 0 /\ LineMax \in Nat /\ MinVersion \in Nat
BY HeadAssumption

-----------------------------------------------------------------------------
(* Least and greatest elements. *)

LEMMA MinIs ==
    ASSUME NEW S \in SUBSET Int, NEW m \in S, \A i \in S : m <= i
    PROVE  Min(S) = m
<1>1. Min(S) = CHOOSE x \in S : \A y \in S : x <= y
  BY DEF Min
<1>2. Min(S) \in S /\ \A y \in S : Min(S) <= y
  BY <1>1
<1>3. Min(S) <= m /\ m <= Min(S) /\ Min(S) \in Int /\ m \in Int
  BY <1>2
<1> QED
  BY <1>3

LEMMA MaxIs ==
    ASSUME NEW S \in SUBSET Int, NEW m \in S, \A i \in S : i <= m
    PROVE  Max(S) = m
<1>1. Max(S) = CHOOSE x \in S : \A y \in S : x >= y
  BY DEF Max
<1>2. \A y \in S : m >= y
  OBVIOUS
<1>3. Max(S) \in S /\ \A y \in S : Max(S) >= y
  BY <1>1, <1>2
<1>4. Max(S) >= m /\ m >= Max(S) /\ Max(S) \in Int /\ m \in Int
  BY <1>3
<1> QED
  BY <1>4

LEMMA MinFound ==
    ASSUME NEW S \in SUBSET Nat, S # {}
    PROVE  Min(S) \in S /\ \A i \in S : Min(S) <= i
<1>1. PICK m \in S : \A i \in S : m <= i
  BY LeastNatural
<1>2. Min(S) = m
  BY <1>1, MinIs
<1> QED
  BY <1>1, <1>2

-----------------------------------------------------------------------------
(* The lines of a buffer. *)

\* The first line of "buf" ends at "e": its last CR is the first that is no fold.
IsLine(buf, e) ==
    /\ e \in 3..Len(buf) - 1
    /\ buf[e - 1] = "cr" /\ buf[e] = "nl" /\ buf[e + 1] \notin Lws
    /\ buf[1] # "cr"
    /\ \A i \in 1..e - 2 : buf[i] = "cr" => Folded(buf, i)

\* What find_header_end says.
LEMMA HeaderEndFound ==
    ASSUME NEW buf \in Seq(Chars), Len(buf) > 0 => buf[1] # "cr"
    PROVE  \/ /\ FindHeaderEnd(buf) = None
              /\ \A i \in 1..Len(buf) - 2 : buf[i] = "cr" => Folded(buf, i)
           \/ /\ FindHeaderEnd(buf) = Invalid
              /\ \E c \in 2..Len(buf) - 2 :
                     /\ buf[c] = "cr" /\ buf[c + 1] # "nl"
                     /\ \A i \in 1..c - 1 : buf[i] = "cr" => Folded(buf, i)
           \/ FindHeaderEnd(buf) \in Nat /\ IsLine(buf, FindHeaderEnd(buf))
<1> DEFINE crs == {i \in 2..Len(buf) - 2 : buf[i] = "cr" /\ ~Folded(buf, i)}
<1>0. Len(buf) \in Nat
  OBVIOUS
<1>1. FindHeaderEnd(buf) = IF crs = {} THEN None
                           ELSE IF buf[Min(crs) + 1] = "nl" THEN Min(crs) + 1 ELSE Invalid
  BY DEF FindHeaderEnd
<1>2. CASE crs = {}
  <2>1. \A i \in 1..Len(buf) - 2 : buf[i] = "cr" => Folded(buf, i)
    <3> SUFFICES ASSUME NEW i \in 1..Len(buf) - 2, buf[i] = "cr" PROVE Folded(buf, i)
      OBVIOUS
    <3>1. i # 1
      BY <1>0
    <3>2. i \in 2..Len(buf) - 2
      BY <1>0, <3>1
    <3> QED
      BY <1>2, <3>2
  <2> QED
    BY <1>1, <1>2, <2>1
<1>3. CASE crs # {}
  <2> DEFINE c == Min(crs)
  <2>1. c \in crs /\ \A i \in crs : c <= i
    <3>1. crs \in SUBSET Nat
      BY <1>0
    <3> HIDE DEF crs
    <3> QED
      BY <1>3, <3>1, MinFound
  <2>2. c \in 2..Len(buf) - 2 /\ buf[c] = "cr" /\ ~Folded(buf, c)
    <3> HIDE DEF c
    <3> QED
      BY <2>1
  <2>3. \A i \in 1..c - 1 : buf[i] = "cr" => Folded(buf, i)
    <3> SUFFICES ASSUME NEW i \in 1..c - 1, buf[i] = "cr" PROVE Folded(buf, i)
      OBVIOUS
    <3> HIDE DEF c
    <3>1. i # 1
      BY <1>0, <2>2
    <3>2. i \in 2..Len(buf) - 2
      BY <1>0, <2>2, <3>1
    <3> QED
      BY <2>1, <2>2, <3>2
  <2>4. FindHeaderEnd(buf) = IF buf[c + 1] = "nl" THEN c + 1 ELSE Invalid
    BY <1>1, <1>3
  <2> HIDE DEF c, crs
  <2>5. CASE buf[c + 1] = "nl"
    <3>1. c + 1 \in 3..Len(buf) - 1 /\ (c + 1) - 1 = c /\ (c + 1) - 2 = c - 1 /\ (c + 1) + 1 = c + 2
      BY <1>0, <2>2
    <3>2. buf[c + 2] \notin Lws
      BY <2>2, <2>5 DEF Folded
    <3>3. buf[1] # "cr"
      BY <1>0, <2>2
    <3>4. IsLine(buf, c + 1)
      BY <2>2, <2>3, <2>5, <3>1, <3>2, <3>3 DEF IsLine
    <3> QED
      BY <2>4, <2>5, <3>1, <3>4
  <2>6. CASE buf[c + 1] # "nl"
    BY <2>2, <2>3, <2>4, <2>6
  <2> QED
    BY <2>5, <2>6
<1> QED
  BY <1>2, <1>3

\* What find_start_line_end says.
LEMMA StartEndFound ==
    ASSUME NEW buf \in Seq(Chars)
    PROVE  \/ /\ FindStartLineEnd(buf) = None
              /\ \A i \in 1..Len(buf) - 1 : buf[i] # "cr"
           \/ \E c \in 1..Len(buf) - 1 :
                  /\ buf[c] = "cr" /\ \A i \in 1..c - 1 : buf[i] # "cr"
                  /\ FindStartLineEnd(buf) = IF buf[c + 1] = "nl" THEN c + 1 ELSE Invalid
<1> DEFINE crs == {i \in 1..Len(buf) - 1 : buf[i] = "cr"}
<1>0. Len(buf) \in Nat
  OBVIOUS
<1>1. FindStartLineEnd(buf) = IF crs = {} THEN None
                              ELSE IF buf[Min(crs) + 1] = "nl" THEN Min(crs) + 1 ELSE Invalid
  BY DEF FindStartLineEnd
<1>2. CASE crs = {}
  BY <1>1, <1>2
<1>3. CASE crs # {}
  <2> DEFINE c == Min(crs)
  <2>1. c \in crs /\ \A i \in crs : c <= i
    <3>1. crs \in SUBSET Nat
      BY <1>0
    <3> HIDE DEF crs
    <3> QED
      BY <1>3, <3>1, MinFound
  <2>2. c \in 1..Len(buf) - 1 /\ buf[c] = "cr"
    <3> HIDE DEF c
    <3> QED
      BY <2>1
  <2>3. \A i \in 1..c - 1 : buf[i] # "cr"
    <3> SUFFICES ASSUME NEW i \in 1..c - 1, buf[i] = "cr" PROVE FALSE
      OBVIOUS
    <3> HIDE DEF c
    <3>1. i \in 1..Len(buf) - 1
      BY <1>0, <2>2
    <3>2. i \in crs
      BY <3>1
    <3> QED
      BY <2>1, <2>2, <3>2
  <2>4. FindStartLineEnd(buf) = IF buf[c + 1] = "nl" THEN c + 1 ELSE Invalid
    BY <1>1, <1>3
  <2> QED
    BY <2>2, <2>3, <2>4
<1> QED
  BY <1>2, <1>3

-----------------------------------------------------------------------------
(* The lines of the input. *)

TypeInv ==
    /\ input \in Seq(Chars)
    /\ received \in Nat /\ consumed \in Nat
    /\ consumed <= received /\ received <= Len(input)
    /\ at \in {"start", "headers", "done", "failed"}
    /\ at # "failed" => why = ""

LEMMA TypeFacts ==
    ASSUME TypeInv
    PROVE  /\ input \in Seq(Chars) /\ received \in Nat /\ consumed \in Nat
           /\ consumed <= received /\ received <= Len(input) /\ Len(input) \in Nat
<1>1. input \in Seq(Chars)
  BY DEF TypeInv
<1>2. received \in Nat /\ consumed \in Nat /\ consumed <= received /\ received <= Len(input)
  BY DEF TypeInv
<1>3. Len(input) \in Nat
  BY <1>1
<1> QED
  BY <1>1, <1>2, <1>3

LEMMA BufferIs ==
    ASSUME TypeInv
    PROVE  /\ Buffer \in Seq(Chars) /\ Len(Buffer) = received - consumed
           /\ Len(Buffer) \in Nat /\ Buffered = Len(Buffer)
           /\ \A i \in 1..Len(Buffer) : Buffer[i] = input[consumed + i]
<1> DEFINE m == consumed + 1
           b == SubSeq(input, m, received)
<1>0. /\ input \in Seq(Chars) /\ received \in Nat /\ consumed \in Nat
      /\ consumed <= received /\ received <= Len(input) /\ Len(input) \in Nat
  BY TypeFacts
<1>1. m \in 1..received + 1 /\ received \in 0..Len(input)
  BY <1>0
<1>2. received - m + 1 = received - consumed /\ received - consumed \in Nat
  BY <1>0
<1> HIDE DEF m
<1>3. b \in Seq(Chars) /\ Len(b) = received - m + 1
  BY <1>0, <1>1
<1>4. \A i \in 1..received - m + 1 : b[i] = input[m + i - 1]
  BY <1>0, <1>1
<1>5. \A i \in 1..received - m + 1 : m + i - 1 = consumed + i
  BY <1>0 DEF m
<1> QED
  BY <1>2, <1>3, <1>4, <1>5 DEF m, Buffer, Buffered

\* CRNL ends at "i".
CrNlAt(i) == input[i - 1] = "cr" /\ input[i] = "nl"

LEMMA AtTwo ==
    ASSUME input \in Seq(Chars), NEW i \in 2..Len(input)
    PROVE  At(i, <<"cr", "nl">>) <=> CrNlAt(i)
<1> DEFINE s == SubSeq(input, i - 1, i)
           t == <<"cr", "nl">>
<1>1. At(i, t) <=> s = t
  <2>1. Len(t) = 2 /\ i - 2 + 1 = i - 1
    OBVIOUS
  <2> QED
    BY <2>1 DEF At
<1>2. s \in Seq(Chars) /\ Len(s) = 2 /\ s[1] = input[i - 1] /\ s[2] = input[i]
  <2>1. i - 1 \in 1..Len(input) /\ i \in 1..Len(input) /\ i - (i - 1) + 1 = 2
    OBVIOUS
  <2>2. s \in Seq(Chars) /\ Len(s) = 2
    BY <2>1
  <2>3. s[1] = input[i - 1] /\ s[2] = input[i]
    BY <2>1
  <2> QED
    BY <2>2, <2>3
<1>3. t \in Seq(Chars) /\ Len(t) = 2 /\ t[1] = "cr" /\ t[2] = "nl"
  BY DEF Chars
<1> HIDE DEF s, t
<1>4. s[1] = t[1] /\ s[2] = t[2] => s = t
  BY <1>2, <1>3
<1> QED
  BY <1>1, <1>2, <1>3, <1>4 DEF CrNlAt, t

LEMMA AtFour ==
    ASSUME input \in Seq(Chars), NEW i \in 4..Len(input)
    PROVE  At(i, <<"cr", "nl", "cr", "nl">>) <=> CrNlAt(i - 2) /\ CrNlAt(i)
<1> DEFINE s == SubSeq(input, i - 3, i)
           t == <<"cr", "nl", "cr", "nl">>
<1>1. At(i, t) <=> s = t
  <2>1. Len(t) = 4 /\ i - 4 + 1 = i - 3
    OBVIOUS
  <2> QED
    BY <2>1 DEF At
<1>2. /\ s \in Seq(Chars) /\ Len(s) = 4 /\ s[1] = input[i - 3] /\ s[2] = input[i - 2]
      /\ s[3] = input[i - 1] /\ s[4] = input[i]
  OBVIOUS
<1>3. /\ t \in Seq(Chars) /\ Len(t) = 4 /\ t[1] = "cr" /\ t[2] = "nl"
      /\ t[3] = "cr" /\ t[4] = "nl"
  BY DEF Chars
<1>5. i - 2 - 1 = i - 3
  OBVIOUS
<1> HIDE DEF s, t
<1>4. s[1] = t[1] /\ s[2] = t[2] /\ s[3] = t[3] /\ s[4] = t[4] => s = t
  BY <1>2, <1>3
<1> QED
  BY <1>1, <1>2, <1>3, <1>4, <1>5 DEF CrNlAt, t

LEMMA LineEndIs ==
    ASSUME input \in Seq(Chars), NEW i
    PROVE  i \in LineEnds <=> /\ i \in 2..Len(input) - 1 /\ CrNlAt(i)
                              /\ input[i + 1] \notin Lws
<1>1. i \in 2..Len(input) - 1 => i \in 2..Len(input)
  OBVIOUS
<1> QED
  BY <1>1, AtTwo DEF LineEnds

LEMMA EmptyLineIs ==
    ASSUME input \in Seq(Chars), NEW i
    PROVE  i \in EmptyLines <=> i \in 4..Len(input) /\ CrNlAt(i - 2) /\ CrNlAt(i)
BY AtFour DEF EmptyLines

-----------------------------------------------------------------------------
(* Heads. *)

\* The start line ends at "s", with the first CR.
IsStart(s) ==
    /\ s \in 2..Len(input) /\ CrNlAt(s)
    /\ \A i \in 1..s - 2 : input[i] # "cr"

\* Up to "c" there is a NL behind each CR.
Regular(c) == \A i \in 1..c : input[i] = "cr" => i + 1 <= c /\ input[i + 1] = "nl"

PrevEnd(last) == Max({i \in LineEnds : i < last})

GoodLines(s, c) == \A last \in LineEnds : s < last /\ last <= c => GoodLine(PrevEnd(last) + 1, last)

\* The lines up to "c" have been read, and there may be more.
Parsed(c) ==
    /\ c \in 2..Len(input) /\ CrNlAt(c) /\ Regular(c)
    /\ \A i \in EmptyLines : c < i
    /\ \E s : /\ IsStart(s) /\ s <= c /\ ParseStartLine(SubSeq(input, 1, s))
              /\ c # s => s \in LineEnds /\ c \in LineEnds
              /\ GoodLines(s, c)

\* The head ends at "e", and there is nothing to be said against it.
GoodHead(e) ==
    /\ e \in EmptyLines /\ (\A i \in EmptyLines : e <= i) /\ Regular(e)
    /\ \E s : /\ IsStart(s) /\ s \in LineEnds /\ s < e /\ ParseStartLine(SubSeq(input, 1, s))
              /\ GoodLines(s, e - 1)

LEMMA StartFirst ==
    ASSUME input \in Seq(Chars), NEW s, IsStart(s)
    PROVE  /\ \A i \in 2..Len(input) : CrNlAt(i) => s <= i
           /\ \A i \in LineEnds : s <= i
           /\ \A i \in EmptyLines : s <= i - 2
           /\ \A t : IsStart(t) => t = s
<1>0. s \in 2..Len(input) /\ CrNlAt(s) /\ Len(input) \in Nat
      /\ \A i \in 1..s - 2 : input[i] # "cr"
  BY DEF IsStart
<1>1. ASSUME NEW i \in 2..Len(input), CrNlAt(i) PROVE s <= i
  <2> SUFFICES ASSUME i < s PROVE FALSE
    BY <1>0
  <2>1. i - 1 \in 1..s - 2 /\ input[i - 1] = "cr"
    BY <1>0, <1>1 DEF CrNlAt
  <2> QED
    BY <1>0, <2>1
<1>2. \A i \in LineEnds : s <= i
  <2> SUFFICES ASSUME NEW i \in LineEnds PROVE s <= i
    OBVIOUS
  <2>1. i \in 2..Len(input) /\ CrNlAt(i)
    BY <1>0, LineEndIs
  <2> QED
    BY <1>1, <2>1
<1>3. \A i \in EmptyLines : s <= i - 2
  <2> SUFFICES ASSUME NEW i \in EmptyLines PROVE s <= i - 2
    OBVIOUS
  <2>1. i \in 4..Len(input) /\ CrNlAt(i - 2)
    BY EmptyLineIs
  <2>2. i - 2 \in 2..Len(input)
    BY <1>0, <2>1
  <2> QED
    BY <1>1, <2>1, <2>2
<1>4. ASSUME NEW t, IsStart(t) PROVE t = s
  <2>1. t \in 2..Len(input) /\ CrNlAt(t) /\ \A i \in 1..t - 2 : input[i] # "cr"
    BY <1>4 DEF IsStart
  <2>2. s <= t
    BY <1>1, <2>1
  <2>3. ~(s < t)
    <3> SUFFICES ASSUME s < t PROVE FALSE
      OBVIOUS
    <3>1. s - 1 \in 1..t - 2 /\ input[s - 1] = "cr"
      BY <1>0, <2>1 DEF CrNlAt
    <3> QED
      BY <2>1, <3>1
  <2> QED
    BY <1>0, <2>1, <2>2, <2>3
<1> QED
  BY <1>1, <1>2, <1>3, <1>4

LEMMA PrevEndIs ==
    ASSUME input \in Seq(Chars), NEW last, NEW c \in LineEnds, c < last,
           \A i \in LineEnds : i < last => i <= c
    PROVE  PrevEnd(last) = c
<1> DEFINE S == {i \in LineEnds : i < last}
<1>1. S \in SUBSET Int /\ c \in S /\ \A i \in S : i <= c
  BY LineEndIs
<1> HIDE DEF S
<1>2. Max(S) = c
  BY <1>1, MaxIs
<1> QED
  BY <1>2 DEF S, PrevEnd

\* The last line of an acceptable head ends two characters before its end.
LEMMA EmptyLineFacts ==
    ASSUME input \in Seq(Chars), NEW e \in EmptyLines
    PROVE  /\ e \in 4..Len(input) /\ e \in Nat /\ Len(input) \in Nat
           /\ input[e - 3] = "cr" /\ input[e - 2] = "nl" /\ input[e - 1] = "cr" /\ input[e] = "nl"
           /\ e - 2 \in LineEnds
<1>1. e \in 4..Len(input) /\ CrNlAt(e - 2) /\ CrNlAt(e) /\ Len(input) \in Nat
  BY EmptyLineIs
<1>2. (e - 2) - 1 = e - 3 /\ e - 2 \in 2..Len(input) - 1 /\ (e - 2) + 1 = e - 1
  BY <1>1
<1>3. /\ input[e - 3] = "cr" /\ input[e - 2] = "nl" /\ input[e - 1] = "cr" /\ input[e] = "nl"
  BY <1>1, <1>2 DEF CrNlAt
<1>4. input[(e - 2) + 1] \notin Lws
  BY <1>2, <1>3 DEF Lws
<1>5. e - 2 \in LineEnds
  BY <1>1, <1>2, <1>4, LineEndIs
<1> QED
  BY <1>1, <1>3, <1>5

\* Acceptable, with names for the ends of the start line and of the head.
LEMMA AcceptableIs ==
    ASSUME input \in Seq(Chars), NEW e \in EmptyLines, \A i \in EmptyLines : e <= i
    PROVE  Acceptable <=> GoodHead(e)
<1> DEFINE ends == {i \in LineEnds : i < e}
           before(last) == {i \in ends : i < last}
           Ok == /\ \A i \in 1..e : input[i] = "cr" => At(i + 1, <<"cr", "nl">>)
                 /\ \A i \in 1..Min(ends) - 2 : input[i] # "cr"
                 /\ ParseStartLine(SubSeq(input, 1, Min(ends)))
                 /\ \A last \in ends \ {Min(ends)} : GoodLine(Max(before(last)) + 1, last)
<1>0. /\ e \in 4..Len(input) /\ Len(input) \in Nat /\ e - 2 \in LineEnds /\ input[e] = "nl"
      /\ e \in Nat
  BY EmptyLineFacts
<1>1. Min(EmptyLines) = e
  <2>1. EmptyLines \in SUBSET Int
    BY EmptyLineIs
  <2> QED
    BY <2>1, MinIs
<1>2. Acceptable <=> Ok
  <2>1. EmptyLines # {}
    OBVIOUS
  <2> QED
    BY <1>1, <2>1 DEF Acceptable
<1>3. ends \in SUBSET Nat /\ ends # {}
  <2>1. e - 2 \in ends
    BY <1>0
  <2>2. \A i \in LineEnds : i \in Nat
    BY LineEndIs
  <2> QED
    BY <2>1, <2>2
<1> DEFINE m == Min(ends)
<1>4. m \in ends /\ \A i \in ends : m <= i
  <2> HIDE DEF ends
  <2> QED
    BY <1>3, MinFound
<1>5. /\ m \in LineEnds /\ m < e /\ m \in 2..Len(input) /\ CrNlAt(m) /\ m \in Nat
  <2>1. m \in LineEnds /\ m < e
    BY <1>4
  <2> QED
    BY <1>0, <2>1, LineEndIs
<1>6. Regular(e) <=> \A i \in 1..e : input[i] = "cr" => At(i + 1, <<"cr", "nl">>)
  <2>1. ASSUME NEW i \in 1..e, input[i] = "cr"
        PROVE  At(i + 1, <<"cr", "nl">>) <=> i + 1 <= e /\ input[i + 1] = "nl"
    <3>1. i # e /\ i \in Nat
      BY <1>0, <2>1
    <3>2. i + 1 \in 2..Len(input) /\ i + 1 <= e /\ (i + 1) - 1 = i
      BY <1>0, <3>1
    <3> QED
      BY <2>1, <3>2, AtTwo DEF CrNlAt
  <2> QED
    BY <2>1 DEF Regular
<1>7. IsStart(m) <=> \A i \in 1..m - 2 : input[i] # "cr"
  BY <1>5 DEF IsStart
<1>8. \A last \in ends : PrevEnd(last) = Max(before(last))
  <2> SUFFICES ASSUME NEW last \in ends PROVE PrevEnd(last) = Max(before(last))
    OBVIOUS
  <2>1. \A i \in LineEnds : i < last => i < e
    BY <1>0, LineEndIs
  <2>2. before(last) = {i \in LineEnds : i < last}
    BY <2>1
  <2> QED
    BY <2>2 DEF PrevEnd
<1>9. GoodLines(m, e - 1) <=> \A last \in ends \ {m} : GoodLine(Max(before(last)) + 1, last)
  <2>1. \A last : last \in ends \ {m} <=> last \in LineEnds /\ m < last /\ last <= e - 1
    <3>1. \A last \in LineEnds : last \in Nat /\ (last < e <=> last <= e - 1)
      BY <1>0, LineEndIs
    <3>2. \A last \in ends : m # last => m < last
      <4>1. \A last \in ends : last \in Nat /\ m <= last
        BY <1>3, <1>4
      <4> HIDE DEF ends, m
      <4> QED
        BY <1>5, <4>1
    <3>3. \A last : last \in ends <=> last \in LineEnds /\ last < e
      OBVIOUS
    <3>4. \A last \in LineEnds : m < last => m # last
      BY <1>5, <3>1
    <3> HIDE DEF ends, m
    <3> QED
      BY <3>1, <3>2, <3>3, <3>4
  <2>2. \A last \in ends \ {m} : PrevEnd(last) = Max(before(last))
    BY <1>8
  <2> HIDE DEF ends, before, m
  <2> QED
    BY <2>1, <2>2 DEF GoodLines
<1>10. Ok <=> Regular(e) /\ IsStart(m) /\ ParseStartLine(SubSeq(input, 1, m)) /\ GoodLines(m, e - 1)
  <2> HIDE DEF ends, before
  <2> QED
    BY <1>6, <1>7, <1>9
<1>11. GoodHead(e) <=> Regular(e) /\ IsStart(m) /\ ParseStartLine(SubSeq(input, 1, m))
                       /\ GoodLines(m, e - 1)
  <2> HIDE DEF m, ends, before
  <2>1. ASSUME NEW s, IsStart(s), s \in LineEnds, s < e PROVE s = m
    <3>1. s <= m
      BY <1>5, <2>1, StartFirst
    <3>2. m <= s
      BY <1>4, <2>1 DEF ends
    <3>3. s \in Nat
      BY <2>1 DEF IsStart
    <3> QED
      BY <1>5, <3>1, <3>2, <3>3
  <2> QED
    BY <1>5, <2>1 DEF GoodHead
<1> QED
  BY <1>2, <1>10, <1>11

LEMMA AcceptableHas ==
    ASSUME input \in Seq(Chars), Acceptable
    PROVE  \E e : GoodHead(e)
<1>1. EmptyLines # {}
  BY DEF Acceptable
<1>2. EmptyLines \in SUBSET Nat
  BY EmptyLineIs
<1>3. PICK e \in EmptyLines : \A i \in EmptyLines : e <= i
  BY <1>1, <1>2, LeastNatural
<1> QED
  BY <1>3, AcceptableIs

-----------------------------------------------------------------------------
(* The next line. *)

\* Where the buffer begins, behind a line.
Behind == TypeInv /\ consumed \in 2..Len(input) /\ CrNlAt(consumed)

\* The next line is not empty, so neither a line's end nor the head's is near.
LEMMA EndsLater ==
    ASSUME Behind, consumed < Len(input) => input[consumed + 1] # "cr"
    PROVE  /\ \A i \in LineEnds : consumed < i => consumed + 3 <= i
           /\ \A i \in EmptyLines : consumed < i => consumed + 5 <= i
<1> DEFINE c == consumed
           N == Len(input)
<1>0. /\ c \in 2..N /\ N \in Nat /\ input[c] = "nl" /\ input \in Seq(Chars)
      /\ c < N => input[c + 1] # "cr"
  BY TypeFacts DEF Behind, CrNlAt
<1> HIDE DEF c, N
<1>1. ASSUME NEW i \in 2..N, input[i - 1] = "cr", c < i PROVE c + 3 <= i
  <2>1. i # c + 1
    <3> SUFFICES ASSUME i = c + 1 PROVE FALSE
      OBVIOUS
    <3>1. i - 1 = c
      BY <1>0
    <3> QED
      BY <1>0, <1>1, <3>1
  <2>2. i # c + 2
    <3> SUFFICES ASSUME i = c + 2 PROVE FALSE
      OBVIOUS
    <3>1. i - 1 = c + 1 /\ c < N
      BY <1>0
    <3> QED
      BY <1>0, <1>1, <3>1
  <2> QED
    BY <1>0, <1>1, <2>1, <2>2
<1>2. ASSUME NEW i \in LineEnds, c < i PROVE c + 3 <= i
  <2>1. i \in 2..N /\ input[i - 1] = "cr"
    BY <1>0, LineEndIs DEF CrNlAt, N
  <2> QED
    BY <1>1, <1>2, <2>1
<1>3. ASSUME NEW i \in EmptyLines, c < i PROVE c + 5 <= i
  <2>1. i \in 4..N /\ input[i - 1] = "cr" /\ input[i - 3] = "cr"
    BY <1>0, EmptyLineFacts DEF N
  <2>2. c + 3 <= i
    BY <1>0, <1>1, <1>3, <2>1
  <2>3. i - 2 \in 2..N /\ (i - 2) - 1 = i - 3 /\ c < i - 2
    BY <1>0, <2>1, <2>2
  <2>4. c + 3 <= i - 2
    BY <1>1, <2>1, <2>3
  <2> QED
    BY <1>0, <2>1, <2>4
<1> QED
  BY <1>2, <1>3 DEF c

\* What is a fold in the buffer is no end of a line.
LEMMA FoldedInInput ==
    ASSUME TypeInv, NEW i \in 1..Len(Buffer) - 2, Folded(Buffer, i)
    PROVE  input[consumed + i + 1] = "nl" /\ input[consumed + i + 2] \in Lws
<1>1. /\ \A j \in 1..Len(Buffer) : Buffer[j] = input[consumed + j]
      /\ Len(Buffer) \in Nat /\ consumed \in Nat
  BY BufferIs, TypeFacts
<1>2. i + 1 \in 1..Len(Buffer) /\ i + 2 \in 1..Len(Buffer)
      /\ consumed + (i + 1) = consumed + i + 1 /\ consumed + (i + 2) = consumed + i + 2
  BY <1>1
<1>3. Buffer[i + 1] = input[consumed + i + 1] /\ Buffer[i + 2] = input[consumed + i + 2]
  BY <1>1, <1>2
<1> QED
  BY <1>3 DEF Folded

\* Up to "n" all CRs in the buffer are folds: no line ends there.
LEMMA NoEndInFolds ==
    ASSUME Behind, NEW n \in Nat, n <= Len(Buffer) - 2, Len(Buffer) > 0 => Buffer[1] # "cr",
           \A i \in 1..n : Buffer[i] = "cr" => Folded(Buffer, i)
    PROVE  /\ \A i \in LineEnds : consumed < i => consumed + n + 2 <= i
           /\ \A i \in EmptyLines : consumed < i => consumed + n + 4 <= i
           /\ \A i \in 1..n : input[consumed + i] = "cr" => input[consumed + i + 1] = "nl"
<1> DEFINE c == consumed
<1>0. /\ c \in Nat /\ received \in Nat /\ c <= received /\ received <= Len(input)
      /\ Len(input) \in Nat /\ Len(Buffer) = received - c /\ Len(Buffer) \in Nat
      /\ input \in Seq(Chars)
      /\ \A i \in 1..Len(Buffer) : Buffer[i] = input[c + i]
  BY BufferIs, TypeFacts DEF Behind
<1>00. TypeInv
  BY DEF Behind
<1>1. Len(Buffer) > 0
  BY <1>0
<1>2. input[c + 1] # "cr"
  BY <1>0, <1>1
<1>3. /\ \A i \in LineEnds : c < i => c + 3 <= i
      /\ \A i \in EmptyLines : c < i => c + 5 <= i
  BY <1>2, EndsLater
<1>4. ASSUME NEW i \in 1..n, input[c + i] = "cr"
      PROVE  input[c + i + 1] = "nl" /\ input[c + i + 2] \in Lws
  <2>1. i \in 1..Len(Buffer) - 2 /\ i \in 1..Len(Buffer)
    BY <1>0
  <2>2. Buffer[i] = "cr"
    BY <1>0, <1>4, <2>1
  <2>3. Folded(Buffer, i)
    BY <2>2
  <2> QED
    BY <1>00, <2>1, <2>3, FoldedInInput
<1>5. ASSUME NEW i \in LineEnds, c < i PROVE c + n + 2 <= i
  <2>1. i \in 2..Len(input) - 1 /\ input[i - 1] = "cr" /\ input[i + 1] \notin Lws
    BY <1>0, LineEndIs DEF CrNlAt
  <2>2. c + 3 <= i
    BY <1>3, <1>5
  <2> SUFFICES ASSUME i < c + n + 2 PROVE FALSE
    BY <1>0, <2>1
  <2>3. i - 1 - c \in 1..n /\ c + (i - 1 - c) = i - 1 /\ c + (i - 1 - c) + 2 = i + 1
    BY <1>0, <2>1, <2>2
  <2> QED
    BY <1>4, <2>1, <2>3
<1>6. ASSUME NEW i \in EmptyLines, c < i PROVE c + n + 4 <= i
  <2>1. i - 2 \in LineEnds /\ i \in Nat
    BY <1>0, EmptyLineFacts
  <2>2. c < i - 2
    BY <1>0, <1>3, <1>6, <2>1
  <2>3. c + n + 2 <= i - 2
    BY <1>5, <2>1, <2>2
  <2> QED
    BY <1>0, <2>1, <2>3
<1> QED
  BY <1>4, <1>5, <1>6 DEF c

\* The line that find_header_end has found is the next one.
LEMMA LineInInput ==
    ASSUME Behind, NEW e, IsLine(Buffer, e)
    PROVE  /\ e \in Nat /\ e >= 3 /\ consumed + e \in LineEnds /\ consumed + e < received
           /\ \A i \in LineEnds : consumed < i => consumed + e <= i
           /\ \A i \in EmptyLines : consumed < i => consumed + e + 2 <= i
           /\ \A i \in consumed + 1..consumed + e : input[i] = "cr" => i + 1 <= consumed + e /\ input[i + 1] = "nl"
           /\ input[consumed + 1] # "cr"
<1> DEFINE c == consumed
<1>0. /\ c \in Nat /\ received \in Nat /\ c <= received /\ received <= Len(input)
      /\ Len(input) \in Nat /\ Len(Buffer) = received - c /\ Len(Buffer) \in Nat
      /\ input \in Seq(Chars) /\ c >= 2
      /\ \A i \in 1..Len(Buffer) : Buffer[i] = input[c + i]
  BY BufferIs, TypeFacts DEF Behind
<1>1. /\ e \in 3..Len(Buffer) - 1 /\ Buffer[e - 1] = "cr" /\ Buffer[e] = "nl"
      /\ Buffer[e + 1] \notin Lws /\ Buffer[1] # "cr"
      /\ \A i \in 1..e - 2 : Buffer[i] = "cr" => Folded(Buffer, i)
  BY DEF IsLine
<1>2. e - 2 \in Nat /\ e - 2 <= Len(Buffer) - 2 /\ Len(Buffer) > 0
  BY <1>0, <1>1
<1>3. /\ \A i \in LineEnds : c < i => c + (e - 2) + 2 <= i
      /\ \A i \in EmptyLines : c < i => c + (e - 2) + 4 <= i
      /\ \A i \in 1..e - 2 : input[c + i] = "cr" => input[c + i + 1] = "nl"
  BY <1>1, <1>2, NoEndInFolds
<1>4. input[c + e - 1] = "cr" /\ input[c + e] = "nl" /\ input[c + e + 1] \notin Lws /\ input[c + 1] # "cr"
  <2>1. /\ e - 1 \in 1..Len(Buffer) /\ e \in 1..Len(Buffer) /\ e + 1 \in 1..Len(Buffer)
        /\ 1 \in 1..Len(Buffer)
        /\ c + (e - 1) = c + e - 1 /\ c + (e + 1) = c + e + 1
    BY <1>0, <1>1
  <2> QED
    BY <1>0, <1>1, <2>1
<1>5. c + e \in LineEnds /\ c + e < received
  <2>1. c + e \in 2..Len(input) - 1 /\ c + e < received
    BY <1>0, <1>1
  <2> HIDE DEF c
  <2>2. CrNlAt(c + e)
    <3>0. c + (e - 1) = (c + e) - 1
      BY <1>0, <1>1
    <3>1. input[(c + e) - 1] = "cr" /\ input[c + e] = "nl"
      BY <1>4, <3>0
    <3> QED
      BY <3>1, Zenon DEF CrNlAt
  <2>3. c + e \in LineEnds
    BY <1>0, <1>4, <2>1, <2>2, LineEndIs
  <2> QED
    BY <2>1, <2>3
<1>6. ASSUME NEW i \in c + 1..c + e, input[i] = "cr" PROVE i + 1 <= c + e /\ input[i + 1] = "nl"
  <2>1. CASE i - c \in 1..e - 2
    <3>1. c + (i - c) = i /\ c + (i - c) + 1 = i + 1 /\ i + 1 <= c + e
      BY <1>0, <1>1, <2>1
    <3> QED
      BY <1>3, <1>6, <2>1, <3>1
  <2>2. CASE i = c + e - 1
    <3>1. i + 1 = c + e
      BY <1>0, <1>1, <2>2
    <3> QED
      BY <1>0, <1>1, <1>4, <3>1
  <2>3. CASE i = c + e
    BY <1>4, <1>6, <2>3
  <2> QED
    BY <1>0, <1>1, <2>1, <2>2, <2>3
<1>7. /\ \A i \in LineEnds : c < i => c + e <= i
      /\ \A i \in EmptyLines : c < i => c + e + 2 <= i
  <2>1. c + (e - 2) + 2 = c + e /\ c + (e - 2) + 4 = c + e + 2
    BY <1>0, <1>1
  <2> QED
    BY <1>3, <2>1
<1> QED
  BY <1>1, <1>4, <1>5, <1>6, <1>7 DEF c

-----------------------------------------------------------------------------
(* What has been read of the head, and what its lines say of all of it. *)

LEMMA ParsedFacts ==
    ASSUME input \in Seq(Chars), NEW c, Parsed(c)
    PROVE  /\ c \in 2..Len(input) /\ c \in Nat /\ CrNlAt(c) /\ Regular(c)
           /\ \A i \in EmptyLines : c < i
BY DEF Parsed

\* The next line is the one behind what has been read.
LEMMA NextPrevEnd ==
    ASSUME input \in Seq(Chars), NEW c \in LineEnds, NEW d \in LineEnds, c < d,
           \A i \in LineEnds : c < i => d <= i
    PROVE  PrevEnd(d) = c
<1>1. \A i \in LineEnds : i \in Nat
  BY LineEndIs
<1>2. \A i \in LineEnds : i < d => i <= c
  BY <1>1
<1> QED
  BY <1>2, PrevEndIs

\* A line that is parsed is one more.
LEMMA HeaderParsed ==
    ASSUME Behind, Parsed(consumed), NEW e, IsLine(Buffer, e),
           input[consumed + 1] \notin Lws, GoodLine(consumed + 1, consumed + e)
    PROVE  Parsed(consumed + e)
<1> DEFINE c == consumed
           d == consumed + e
<1>0. /\ c \in Nat /\ c \in 2..Len(input) /\ Len(input) \in Nat /\ input \in Seq(Chars)
      /\ CrNlAt(c) /\ Regular(c)
      /\ \A i \in EmptyLines : c < i
  BY ParsedFacts, TypeFacts DEF Behind
<1>1. /\ e \in Nat /\ e >= 3 /\ d \in LineEnds
      /\ \A i \in LineEnds : c < i => d <= i
      /\ \A i \in EmptyLines : c < i => d + 2 <= i
      /\ \A i \in c + 1..d : input[i] = "cr" => i + 1 <= d /\ input[i + 1] = "nl"
  BY LineInInput
<1>2. PICK s : /\ IsStart(s) /\ s <= c /\ ParseStartLine(SubSeq(input, 1, s))
               /\ c # s => s \in LineEnds /\ c \in LineEnds
               /\ GoodLines(s, c)
  BY DEF Parsed
<1>3. d \in 2..Len(input) - 1 /\ CrNlAt(d)
  BY <1>0, <1>1, LineEndIs
<1>4. c < d /\ d \in Nat
  BY <1>0, <1>1
<1>5. c \in LineEnds
  <2>1. c \in 2..Len(input) - 1
    BY <1>0, <1>3, <1>4
  <2> QED
    BY <1>0, <2>1, LineEndIs
<1>6. s \in LineEnds /\ s < d /\ s \in Nat
  BY <1>0, <1>2, <1>4, <1>5 DEF IsStart
<1> HIDE DEF c, d
<1>7. Regular(d)
  <2> SUFFICES ASSUME NEW i \in 1..d, input[i] = "cr" PROVE i + 1 <= d /\ input[i + 1] = "nl"
    BY DEF Regular
  <2>1. CASE i <= c
    <3>1. i \in 1..c
      BY <1>0, <2>1
    <3>2. i + 1 <= c /\ input[i + 1] = "nl"
      BY <1>0, <3>1 DEF Regular
    <3> QED
      BY <1>0, <1>4, <3>2
  <2>2. CASE i > c
    <3>1. i \in c + 1..d
      BY <1>0, <1>4, <2>2
    <3> QED
      BY <1>1, <3>1
  <2> QED
    BY <1>0, <2>1, <2>2
<1>8. \A i \in EmptyLines : d < i
  <2>1. \A i \in EmptyLines : i \in Nat /\ d + 2 <= i
    BY <1>0, <1>1, EmptyLineIs
  <2> QED
    BY <1>4, <2>1
<1>9. GoodLines(s, d)
  <2> SUFFICES ASSUME NEW last \in LineEnds, s < last, last <= d
               PROVE  GoodLine(PrevEnd(last) + 1, last)
    BY DEF GoodLines
  <2>1. last \in Nat
    BY <1>0, LineEndIs
  <2>2. CASE last <= c
    BY <1>2, <2>2 DEF GoodLines
  <2>3. CASE c < last
    <3>1. last = d
      BY <1>1, <1>4, <2>1, <2>3
    <3>2. PrevEnd(d) = c
      BY <1>0, <1>1, <1>4, <1>5, NextPrevEnd
    <3> QED
      BY <3>1, <3>2 DEF c, d
  <2> QED
    BY <1>0, <2>1, <2>2, <2>3
<1>10. d \in 2..Len(input)
  BY <1>0, <1>3
<1>11. s <= d
  BY <1>4, <1>6
<1>12. Parsed(d)
  BY <1>1, <1>2, <1>3, <1>6, <1>7, <1>8, <1>9, <1>10, <1>11 DEF Parsed
<1> QED
  BY <1>12 DEF d

\* The line after those that have been read, in a head against which there is nothing.
LEMMA HeaderGood ==
    ASSUME Behind, Parsed(consumed), NEW e, IsLine(Buffer, e), NEW g, GoodHead(g)
    PROVE  GoodLine(consumed + 1, consumed + e)
<1> DEFINE c == consumed
           d == consumed + e
<1>0. /\ c \in Nat /\ c \in 2..Len(input) /\ Len(input) \in Nat /\ input \in Seq(Chars)
      /\ \A i \in EmptyLines : c < i
  BY ParsedFacts, TypeFacts DEF Behind
<1>1. /\ e \in Nat /\ e >= 3 /\ d \in LineEnds
      /\ \A i \in LineEnds : c < i => d <= i
      /\ \A i \in EmptyLines : c < i => d + 2 <= i
  BY LineInInput
<1>2. PICK s : /\ IsStart(s) /\ s \in LineEnds /\ s < g /\ GoodLines(s, g - 1)
  BY DEF GoodHead
<1>3. g \in EmptyLines
  BY DEF GoodHead
<1>4. PICK t : IsStart(t) /\ t <= c /\ (c # t => t \in LineEnds /\ c \in LineEnds)
  BY DEF Parsed
<1>5. t = s
  BY <1>0, <1>2, <1>4, StartFirst
<1>6. c \in LineEnds
  BY <1>2, <1>4, <1>5
<1>7. c < d /\ d \in Nat /\ s \in Nat /\ s < d /\ g \in Nat /\ d <= g - 1
  <2>1. c < d /\ d \in Nat
    BY <1>0, <1>1
  <2>2. s \in Nat /\ s <= c
    BY <1>2, <1>4, <1>5 DEF IsStart
  <2>3. g \in Nat /\ d + 2 <= g
    BY <1>0, <1>1, <1>3, EmptyLineIs
  <2> HIDE DEF c, d
  <2> QED
    BY <1>0, <2>1, <2>2, <2>3
<1> HIDE DEF c, d
<1>8. GoodLine(PrevEnd(d) + 1, d)
  BY <1>1, <1>2, <1>7 DEF GoodLines
<1>9. PrevEnd(d) = c
  BY <1>0, <1>1, <1>6, <1>7, NextPrevEnd
<1> QED
  BY <1>8, <1>9 DEF c, d

\* An empty line behind what has been read is the end of a good head.
LEMMA HeadEnds ==
    ASSUME Behind, Parsed(consumed), consumed + 2 <= Len(input), CrNlAt(consumed + 2)
    PROVE  GoodHead(consumed + 2)
<1> DEFINE c == consumed
           g == consumed + 2
<1>0. /\ c \in Nat /\ c \in 2..Len(input) /\ Len(input) \in Nat /\ input \in Seq(Chars)
      /\ CrNlAt(c) /\ Regular(c)
      /\ \A i \in EmptyLines : c < i
  BY ParsedFacts, TypeFacts DEF Behind
<1>00. input[c] = "nl" /\ input[c + 1] = "cr" /\ input[c + 2] = "nl"
  <2>1. (c + 2) - 1 = c + 1
    BY <1>0
  <2> QED
    BY <1>0, <2>1 DEF CrNlAt
<1>1. g \in 4..Len(input) /\ g - 2 = c /\ g \in Nat /\ c + 1 \in Nat
  BY <1>0
<1>2. g \in EmptyLines
  <2>1. CrNlAt(g - 2) /\ CrNlAt(g)
    BY <1>0, <1>1
  <2> HIDE DEF g
  <2> QED
    BY <1>0, <1>1, <2>1, EmptyLineIs
<1>3. \A i \in EmptyLines : g <= i
  <2> SUFFICES ASSUME NEW i \in EmptyLines PROVE g <= i
    OBVIOUS
  <2>1. i \in Nat /\ input[i] = "nl" /\ c < i
    BY <1>0, EmptyLineFacts
  <2>2. i # c + 1
    BY <1>00, <2>1
  <2> QED
    BY <1>0, <2>1, <2>2
<1>4. c \in LineEnds
  <2>1. c \in 2..Len(input) - 1
    BY <1>0, <1>1
  <2>2. input[c + 1] \notin Lws
    BY <1>00 DEF Lws
  <2> QED
    BY <1>0, <2>1, <2>2, LineEndIs
<1>5. PICK s : /\ IsStart(s) /\ s <= c /\ ParseStartLine(SubSeq(input, 1, s))
               /\ c # s => s \in LineEnds /\ c \in LineEnds
               /\ GoodLines(s, c)
  BY DEF Parsed
<1>6. s \in LineEnds /\ s \in Nat /\ s < g
  <2>1. s \in LineEnds
    BY <1>4, <1>5
  <2>2. s \in Nat
    BY <1>5 DEF IsStart
  <2> QED
    BY <1>0, <1>5, <2>1, <2>2
<1>7. GoodLines(s, g - 1)
  <2> SUFFICES ASSUME NEW last \in LineEnds, s < last, last <= g - 1
               PROVE  GoodLine(PrevEnd(last) + 1, last)
    BY DEF GoodLines
  <2>1. last \in Nat /\ input[last] = "nl"
    BY <1>0, LineEndIs DEF CrNlAt
  <2>2. last # c + 1
    BY <1>00, <2>1
  <2>3. last <= c
    BY <1>0, <2>1, <2>2
  <2> QED
    BY <1>5, <2>3 DEF GoodLines
<1>8. Regular(g)
  <2> SUFFICES ASSUME NEW i \in 1..g, input[i] = "cr" PROVE i + 1 <= g /\ input[i + 1] = "nl"
    BY DEF Regular
  <2>1. CASE i <= c
    <3>1. i \in 1..c
      BY <1>0, <2>1
    <3>2. i + 1 <= c /\ input[i + 1] = "nl"
      BY <1>0, <3>1 DEF Regular
    <3> QED
      BY <1>0, <3>2
  <2>2. CASE i = c + 1
    <3>1. i + 1 = c + 2
      BY <1>0, <2>2
    <3> QED
      BY <1>00, <3>1, <1>0
  <2>3. CASE i = c + 2
    BY <1>00, <2>3
  <2> QED
    BY <1>0, <2>1, <2>2, <2>3
<1> HIDE DEF g
<1>9. GoodHead(g)
  BY <1>2, <1>3, <1>5, <1>6, <1>7, <1>8 DEF GoodHead
<1> QED
  BY <1>9 DEF g

-----------------------------------------------------------------------------
(* Refusals. *)

\* What a buffer begins with that is not the end of the head.
LEMMA NotAtEnd ==
    ASSUME TypeInv, ~EndsHead
    PROVE  Len(Buffer) > 0 => Buffer[1] # "cr"
<1>1. Buffer \in Seq(Chars)
  BY BufferIs
<1>2. Len(Buffer) > 0 => Buffer # << >>
  BY <1>1
<1> QED
  BY <1>2 DEF EndsHead

\* As long as no line is found, none has its end in the buffer with the character behind.
LEMMA NoLineFound ==
    ASSUME Behind, ~EndsHead, FindHeaderEnd(Buffer) = None
    PROVE  /\ \A i \in LineEnds : consumed < i => received <= i
           /\ received = Len(input) => \A i \in EmptyLines : i <= consumed
<1> DEFINE c == consumed
           N == Len(Buffer)
<1>0. /\ c \in Nat /\ received \in Nat /\ c <= received /\ received <= Len(input)
      /\ Len(input) \in Nat /\ N = received - c /\ N \in Nat /\ input \in Seq(Chars)
      /\ Buffer \in Seq(Chars) /\ TypeInv
      /\ \A i \in 1..N : Buffer[i] = input[c + i]
  BY BufferIs, TypeFacts DEF Behind
<1>1. N > 0 => Buffer[1] # "cr"
  BY <1>0, NotAtEnd
<1>2. \A i \in 1..N - 2 : Buffer[i] = "cr" => Folded(Buffer, i)
  <2>1. None # Invalid /\ None \notin Nat
    BY DEF None, Invalid
  <2> QED
    BY <1>0, <1>1, <2>1, HeaderEndFound
<1>3. N > 0 => /\ \A i \in LineEnds : c < i => c + 3 <= i
               /\ \A i \in EmptyLines : c < i => c + 5 <= i
  <2>1. N > 0 => input[c + 1] # "cr"
    BY <1>0, <1>1
  <2> QED
    BY <2>1, EndsLater
<1>4. ASSUME NEW i \in LineEnds, c < i PROVE received <= i
  <2>0. i \in Nat
    BY <1>0, LineEndIs
  <2>1. CASE N = 0
    BY <1>0, <1>4, <2>0, <2>1
  <2>2. CASE N = 1
    <3>1. c + 3 <= i
      BY <1>3, <1>4, <2>2
    <3> HIDE DEF c, N
    <3>2. received = c + 1
      <4>1. N = received - c /\ c \in Nat /\ received \in Nat /\ N = 1
        BY <1>0, <2>2
      <4> QED
        BY <4>1
    <3> QED
      BY <1>0, <2>0, <3>1, <3>2
  <2>3. CASE N >= 2
    <3>1. N - 2 \in Nat /\ N - 2 <= N - 2
      BY <1>0, <2>3
    <3>2. c + (N - 2) + 2 <= i
      BY <1>1, <1>2, <1>4, <3>1, NoEndInFolds
    <3> QED
      BY <1>0, <2>0, <3>2
  <2> QED
    BY <1>0, <2>1, <2>2, <2>3
<1>5. ASSUME received = Len(input), NEW i \in EmptyLines, i > c PROVE FALSE
  <2>0. i \in Nat /\ i <= Len(input) /\ i - 2 \in LineEnds
    BY <1>0, EmptyLineFacts
  <2>1. N > 0
    BY <1>0, <1>5, <2>0
  <2>2. c + 5 <= i
    BY <1>3, <1>5, <2>1
  <2>4. c < i - 2
    BY <1>0, <2>0, <2>2
  <2>3. received <= i - 2
    BY <1>4, <2>0, <2>4
  <2> QED
    BY <1>0, <1>5, <2>0, <2>3
<1>6. received = Len(input) => \A i \in EmptyLines : i <= c
  <2>1. \A i \in EmptyLines : i \in Nat
    BY <1>0, EmptyLineFacts
  <2> QED
    BY <1>0, <1>5, <2>1
<1> QED
  BY <1>4, <1>6 DEF c

LEMMA HeaderInvalid ==
    ASSUME Behind, Parsed(consumed), ~EndsHead, FindHeaderEnd(Buffer) = Invalid, NEW g, GoodHead(g)
    PROVE  FALSE
<1> DEFINE c == consumed
           N == Len(Buffer)
<1>0. /\ c \in Nat /\ received \in Nat /\ c <= received /\ received <= Len(input)
      /\ Len(input) \in Nat /\ N = received - c /\ N \in Nat /\ input \in Seq(Chars)
      /\ Buffer \in Seq(Chars) /\ TypeInv
      /\ \A i \in 1..N : Buffer[i] = input[c + i]
  BY BufferIs, TypeFacts DEF Behind
<1>1. N > 0 => Buffer[1] # "cr"
  BY <1>0, NotAtEnd
<1>2. PICK d \in 2..N - 2 : /\ Buffer[d] = "cr" /\ Buffer[d + 1] # "nl"
                            /\ \A i \in 1..d - 1 : Buffer[i] = "cr" => Folded(Buffer, i)
  <2>1. None # Invalid /\ Invalid \notin Nat
    BY DEF None, Invalid
  <2> QED
    BY <1>0, <1>1, <2>1, HeaderEndFound
<1>3. g \in EmptyLines /\ Regular(g)
  BY DEF GoodHead
<1>4. g \in Nat /\ c < g
  <2>1. g \in Nat
    BY <1>0, <1>3, EmptyLineFacts
  <2> QED
    BY <1>0, <1>3, <2>1, ParsedFacts
<1>5. c + (d - 1) + 4 <= g
  <2>1. d - 1 \in Nat /\ d - 1 <= N - 2
    BY <1>0, <1>2
  <2> QED
    BY <1>1, <1>2, <1>3, <1>4, <2>1, NoEndInFolds
<1>6. c + d \in 1..g /\ d \in 1..N /\ d + 1 \in 1..N /\ c + (d + 1) = (c + d) + 1
  BY <1>0, <1>2, <1>4, <1>5
<1>7. input[c + d] = "cr" /\ input[(c + d) + 1] # "nl"
  BY <1>0, <1>2, <1>6
<1> QED
  BY <1>3, <1>6, <1>7 DEF Regular

\* A CR behind the last line, and no NL.
LEMMA EndInvalid ==
    ASSUME Behind, Parsed(consumed), EndsHead, NEW g, GoodHead(g)
    PROVE  /\ received > consumed /\ input[consumed + 1] = "cr"
           /\ consumed + 2 <= Len(input) /\ input[consumed + 2] = "nl"
<1> DEFINE c == consumed
<1>0. /\ c \in Nat /\ received \in Nat /\ c <= received /\ received <= Len(input)
      /\ Len(input) \in Nat /\ Len(Buffer) = received - c /\ input \in Seq(Chars)
      /\ Buffer \in Seq(Chars)
      /\ \A i \in 1..Len(Buffer) : Buffer[i] = input[c + i]
  BY BufferIs, TypeFacts DEF Behind
<1>1. Len(Buffer) > 0 /\ Buffer[1] = "cr"
  BY <1>0 DEF EndsHead
<1>2. received > c /\ input[c + 1] = "cr"
  <2>1. 1 \in 1..Len(Buffer)
    BY <1>0, <1>1
  <2> QED
    BY <1>0, <1>1, <2>1
<1>3. g \in EmptyLines /\ Regular(g)
  BY DEF GoodHead
<1>4. g \in Nat /\ g <= Len(input) /\ c < g
  <2>1. g \in Nat /\ g <= Len(input)
    BY <1>0, <1>3, EmptyLineFacts
  <2> QED
    BY <1>0, <1>3, <2>1, ParsedFacts
<1>5. c + 1 \in 1..g /\ (c + 1) + 1 = c + 2
  BY <1>0, <1>4
<1>6. c + 2 <= g /\ input[c + 2] = "nl"
  BY <1>2, <1>3, <1>5 DEF Regular
<1>7. c + 2 <= Len(input)
  BY <1>0, <1>4, <1>6
<1> QED
  BY <1>2, <1>6, <1>7

\* The buffer holds the beginning of the input.
AtStart == TypeInv /\ consumed = 0

LEMMA StartBuffer ==
    ASSUME AtStart
    PROVE  /\ Buffer \in Seq(Chars) /\ Len(Buffer) = received /\ received \in Nat
           /\ received <= Len(input) /\ Len(input) \in Nat /\ input \in Seq(Chars)
           /\ \A i \in 1..received : Buffer[i] = input[i]
<1>1. /\ Buffer \in Seq(Chars) /\ Len(Buffer) = received - consumed /\ received \in Nat
      /\ received <= Len(input) /\ Len(input) \in Nat /\ input \in Seq(Chars)
      /\ consumed = 0
      /\ \A i \in 1..Len(Buffer) : Buffer[i] = input[consumed + i]
  BY BufferIs, TypeFacts DEF AtStart
<1>2. Len(Buffer) = received
  BY <1>1
<1>3. \A i \in 1..received : consumed + i = i
  BY <1>1
<1> QED
  BY <1>1, <1>2, <1>3

\* As long as no start line is found, there is no line's end in the buffer.
LEMMA NoStartFound ==
    ASSUME AtStart, FindStartLineEnd(Buffer) = None
    PROVE  /\ \A i \in LineEnds : received < i
           /\ received = Len(input) => EmptyLines = {}
<1>0. /\ Buffer \in Seq(Chars) /\ Len(Buffer) = received /\ received \in Nat
      /\ received <= Len(input) /\ Len(input) \in Nat /\ input \in Seq(Chars)
      /\ \A i \in 1..received : Buffer[i] = input[i]
  BY StartBuffer
<1>1. \A i \in 1..received - 1 : Buffer[i] # "cr"
  <2>1. ~\E c \in 1..Len(Buffer) - 1 :
            FindStartLineEnd(Buffer) = IF Buffer[c + 1] = "nl" THEN c + 1 ELSE Invalid
    <3>1. \A c \in 1..Len(Buffer) - 1 : c + 1 # None
      BY <1>0 DEF None
    <3>2. Invalid # None
      BY DEF None, Invalid
    <3> QED
      BY <3>1, <3>2
  <2> QED
    BY <1>0, <2>1, StartEndFound
<1>2. ASSUME NEW i \in LineEnds PROVE received < i
  <2>1. i \in 2..Len(input) /\ input[i - 1] = "cr" /\ i \in Nat
    BY <1>0, LineEndIs DEF CrNlAt
  <2> SUFFICES ASSUME i <= received PROVE FALSE
    BY <1>0, <2>1
  <2>2. i - 1 \in 1..received - 1 /\ i - 1 \in 1..received
    BY <1>0, <2>1
  <2> QED
    BY <1>0, <1>1, <2>1, <2>2
<1>3. ASSUME received = Len(input), NEW i \in EmptyLines PROVE FALSE
  <2>1. i \in Nat /\ i <= Len(input) /\ i - 2 \in LineEnds
    BY <1>0, EmptyLineFacts
  <2>2. received < i - 2
    BY <1>2, <2>1
  <2> QED
    BY <1>0, <1>3, <2>1, <2>2
<1> QED
  BY <1>2, <1>3

\* The start line is found where it ends, or there is none.
LEMMA StartFound ==
    ASSUME AtStart, FindStartLineEnd(Buffer) # None
    PROVE  \/ FindStartLineEnd(Buffer) = Invalid /\ \A s : ~IsStart(s)
           \/ /\ FindStartLineEnd(Buffer) \in 2..received
              /\ IsStart(FindStartLineEnd(Buffer))
              /\ SubSeq(Buffer, 1, FindStartLineEnd(Buffer))
                    = SubSeq(input, 1, FindStartLineEnd(Buffer))
<1>0. /\ Buffer \in Seq(Chars) /\ Len(Buffer) = received /\ received \in Nat
      /\ received <= Len(input) /\ Len(input) \in Nat /\ input \in Seq(Chars)
      /\ \A i \in 1..received : Buffer[i] = input[i]
  BY StartBuffer
<1>1. PICK c \in 1..received - 1 :
          /\ Buffer[c] = "cr" /\ \A i \in 1..c - 1 : Buffer[i] # "cr"
          /\ FindStartLineEnd(Buffer) = IF Buffer[c + 1] = "nl" THEN c + 1 ELSE Invalid
  BY <1>0, StartEndFound
<1>2. c \in 1..received /\ c + 1 \in 1..received /\ \A i \in 1..c - 1 : i \in 1..received
  BY <1>0
<1>3. /\ input[c] = "cr" /\ \A i \in 1..c - 1 : input[i] # "cr"
      /\ Buffer[c + 1] = input[c + 1]
  BY <1>0, <1>1, <1>2
<1>4. CASE Buffer[c + 1] = "nl"
  <2>1. c + 1 \in 2..received /\ c + 1 \in 2..Len(input) /\ (c + 1) - 1 = c /\ (c + 1) - 2 = c - 1
    BY <1>0
  <2>2. IsStart(c + 1)
    BY <1>3, <1>4, <2>1 DEF IsStart, CrNlAt
  <2> DEFINE b == SubSeq(Buffer, 1, c + 1)
             t == SubSeq(input, 1, c + 1)
  <2>3. b = t
    <3>1. b \in Seq(Chars) /\ Len(b) = c + 1 /\ \A i \in 1..c + 1 : b[i] = Buffer[i]
      BY <1>0, <2>1
    <3>2. t \in Seq(Chars) /\ Len(t) = c + 1 /\ \A i \in 1..c + 1 : t[i] = input[i]
      BY <1>0, <2>1
    <3>3. \A i \in 1..c + 1 : Buffer[i] = input[i]
      BY <1>0, <1>2
    <3> HIDE DEF b, t
    <3> QED
      BY <3>1, <3>2, <3>3
  <2> QED
    BY <1>1, <1>4, <2>1, <2>2, <2>3
<1>5. CASE Buffer[c + 1] # "nl"
  <2> SUFFICES ASSUME NEW s, IsStart(s) PROVE FALSE
    BY <1>1, <1>5
  <2>1. s \in 2..Len(input) /\ input[s - 1] = "cr" /\ input[s] = "nl"
        /\ \A i \in 1..s - 2 : input[i] # "cr"
    BY DEF IsStart, CrNlAt
  <2>2. s - 1 \notin 1..c - 1 /\ c \notin 1..s - 2
    BY <1>3, <2>1
  <2>3. s = c + 1
    BY <1>0, <2>1, <2>2
  <2> QED
    BY <1>3, <1>5, <2>1, <2>3
<1> QED
  BY <1>4, <1>5

LEMMA StartParsed ==
    ASSUME input \in Seq(Chars), NEW s, IsStart(s), ParseStartLine(SubSeq(input, 1, s))
    PROVE  Parsed(s)
<1>0. s \in 2..Len(input) /\ s \in Nat /\ CrNlAt(s) /\ input[s - 1] = "cr" /\ input[s] = "nl"
      /\ \A i \in 1..s - 2 : input[i] # "cr"
  BY DEF IsStart, CrNlAt
<1>1. Regular(s)
  <2> SUFFICES ASSUME NEW i \in 1..s, input[i] = "cr" PROVE i + 1 <= s /\ input[i + 1] = "nl"
    BY DEF Regular
  <2>1. i \notin 1..s - 2 /\ i # s
    BY <1>0
  <2>2. i = s - 1 /\ i + 1 = s
    BY <1>0, <2>1
  <2> QED
    BY <1>0, <2>2
<1>2. \A i \in EmptyLines : s < i
  <2>1. \A i \in EmptyLines : i \in Nat /\ s <= i - 2
    BY StartFirst, EmptyLineFacts
  <2> QED
    BY <1>0, <2>1
<1>3. GoodLines(s, s)
  <2>1. \A i \in LineEnds : i \in Nat
    BY LineEndIs
  <2> QED
    BY <1>0, <2>1 DEF GoodLines
<1>4. s <= s
  BY <1>0
<1> QED
  BY <1>0, <1>1, <1>2, <1>3, <1>4 DEF Parsed

-----------------------------------------------------------------------------
(* The recursion of the parsers goes on to a later character. *)

\* f is worked out from the end, by "step", of what it is at a later place, or of "none".
IsDescent(f, M, N, V, none, next, step) ==
    /\ f \in [M..N -> V]
    /\ \A i \in M..N : f[i] = step[i][IF next[i] \in i + 1..N THEN f[next[i]] ELSE none]

LEMMA Descent ==
    ASSUME NEW N \in Nat, NEW V, NEW none \in V, NEW next \in [1..N -> Nat],
           NEW step \in [1..N -> [V -> V]]
    PROVE  \E f : IsDescent(f, 1, N, V, none, next, step)
<1> DEFINE Is(f, M) == IsDescent(f, M, N, V, none, next, step)
           T == {k \in Nat : k <= N => \E f : Is(f, N + 1 - k)}
<1>1. 0 \in T
  <2> DEFINE f == [i \in N + 1..N |-> none]
  <2>1. N + 1..N = {} /\ N + 1 - 0 = N + 1
    OBVIOUS
  <2>2. f \in [N + 1..N -> V]
    OBVIOUS
  <2>3. Is(f, N + 1 - 0)
    BY <2>1, <2>2 DEF IsDescent
  <2> QED
    BY <2>3
<1>2. ASSUME NEW k \in Nat, k \in T PROVE k + 1 \in T
  <2> SUFFICES ASSUME k + 1 <= N PROVE \E f : Is(f, N + 1 - (k + 1))
    OBVIOUS
  <2> DEFINE M == N - k
  <2>1. M \in 1..N /\ N + 1 - (k + 1) = M /\ N + 1 - k = M + 1 /\ k <= N
    OBVIOUS
  <2>2. PICK f : Is(f, M + 1)
    BY <1>2, <2>1
  <2> HIDE DEF M
  <2> DEFINE g == [i \in M..N |-> IF i = M
                                 THEN step[M][IF next[M] \in M + 1..N THEN f[next[M]] ELSE none]
                                 ELSE f[i]]
  <2>3. f \in [M + 1..N -> V]
    BY <2>2 DEF IsDescent
  <2>4. (IF next[M] \in M + 1..N THEN f[next[M]] ELSE none) \in V
    BY <2>3
  <2>5. step[M][IF next[M] \in M + 1..N THEN f[next[M]] ELSE none] \in V
    BY <2>1, <2>4
  <2>6. \A i \in M..N : i # M => i \in M + 1..N
    BY <2>1
  <2>7. g \in [M..N -> V]
    BY <2>3, <2>5, <2>6
  <2>8. \A i \in M + 1..N : i \in M..N /\ g[i] = f[i]
    BY <2>1
  <2>9. ASSUME NEW i \in M..N
        PROVE  g[i] = step[i][IF next[i] \in i + 1..N THEN g[next[i]] ELSE none]
    <3>1. next[i] \in i + 1..N => g[next[i]] = f[next[i]]
      <4>1. \A j \in i + 1..N : j \in M + 1..N
        BY <2>1
      <4> QED
        BY <2>8, <4>1
    <3>2. (IF next[i] \in i + 1..N THEN g[next[i]] ELSE none)
            = IF next[i] \in i + 1..N THEN f[next[i]] ELSE none
      BY <3>1
    <3>3. CASE i = M
      <4>1. g[i] = step[M][IF next[M] \in M + 1..N THEN f[next[M]] ELSE none]
        BY <3>3
      <4> HIDE DEF g
      <4> QED
        BY <3>2, <3>3, <4>1
    <3>4. CASE i # M
      <4>1. i \in M + 1..N
        BY <2>6, <3>4
      <4>2. f[i] = step[i][IF next[i] \in i + 1..N THEN f[next[i]] ELSE none]
        BY <2>2, <4>1 DEF IsDescent
      <4>3. g[i] = f[i]
        BY <2>8, <4>1
      <4> HIDE DEF g
      <4> QED
        BY <3>2, <4>2, <4>3
    <3> QED
      BY <3>3, <3>4
  <2> HIDE DEF g
  <2>10. Is(g, M)
    BY <2>7, <2>9 DEF IsDescent
  <2> QED
    BY <2>1, <2>10
<1> HIDE DEF T
<1>3. Nat \subseteq T
  BY <1>1, <1>2, Induction
<1>4. N \in T
  BY <1>3
<1>5. N + 1 - N = 1 /\ N <= N
  OBVIOUS
<1> QED
  BY <1>4, <1>5 DEF T

-----------------------------------------------------------------------------
(* The parsers of LWS. *)

LEMMA FromIs ==
    ASSUME NEW buf \in Seq(Chars), NEW i \in 1..Len(buf) + 1
    PROVE  /\ From(buf, i) \in Seq(Chars) /\ Len(From(buf, i)) = Len(buf) - i + 1
           /\ Len(buf) \in Nat /\ Len(From(buf, i)) \in Nat
           /\ \A k \in 1..Len(buf) - i + 1 : From(buf, i)[k] = buf[(i + k) - 1]
<1> DEFINE N == Len(buf)
           b == SubSeq(buf, i, N)
<1>1. N \in Nat /\ i \in 1..N + 1 /\ N \in 0..N
  OBVIOUS
<1>2. b \in Seq(Chars) /\ Len(b) = N - i + 1
  BY <1>1
<1>3. \A k \in 1..N - i + 1 : b[k] = buf[(i + k) - 1]
  BY <1>1
<1>4. N - i + 1 \in Nat
  BY <1>1
<1> QED
  BY <1>1, <1>2, <1>3, <1>4 DEF From

\* Strings with the same characters.
LEMMA StringsEqual ==
    ASSUME NEW s \in Seq(Chars), NEW t \in Seq(Chars), Len(s) = Len(t),
           \A i \in 1..Len(t) : s[i] = t[i]
    PROVE  s = t
OBVIOUS

\* The rest of the rest.
LEMMA FromFrom ==
    ASSUME NEW buf \in Seq(Chars), NEW i \in 1..Len(buf) + 1, NEW j \in 1..Len(buf) - i + 2
    PROVE  From(From(buf, i), j) = From(buf, (i + j) - 1)
<1> DEFINE N == Len(buf)
           b == From(buf, i)
           d == From(b, j)
           m == (i + j) - 1
           t == From(buf, m)
<1>1. /\ b \in Seq(Chars) /\ Len(b) = N - i + 1 /\ N \in Nat
      /\ \A k \in 1..N - i + 1 : b[k] = buf[(i + k) - 1]
  BY FromIs
<1>2. j \in 1..Len(b) + 1 /\ m \in 1..N + 1
  BY <1>1
<1>3. /\ d \in Seq(Chars) /\ Len(d) = Len(b) - j + 1
      /\ \A k \in 1..Len(b) - j + 1 : d[k] = b[(j + k) - 1]
  <2> HIDE DEF b
  <2> QED
    BY <1>1, <1>2, FromIs
<1>4. /\ t \in Seq(Chars) /\ Len(t) = N - m + 1
      /\ \A k \in 1..N - m + 1 : t[k] = buf[(m + k) - 1]
  <2> HIDE DEF m
  <2> QED
    BY <1>2, FromIs
<1>5. Len(d) = Len(t)
  <2> HIDE DEF b, d, t
  <2> QED
    BY <1>1, <1>3, <1>4
<1>6. ASSUME NEW k \in 1..Len(t) PROVE d[k] = t[k]
  <2>1. /\ k \in 1..Len(b) - j + 1 /\ k \in 1..N - m + 1 /\ (j + k) - 1 \in 1..N - i + 1
        /\ (i + ((j + k) - 1)) - 1 = (m + k) - 1
    <3> HIDE DEF b, d, t
    <3> QED
      BY <1>1, <1>3, <1>4
  <2>2. d[k] = b[(j + k) - 1] /\ t[k] = buf[(m + k) - 1]
    BY <1>3, <1>4, <2>1
  <2>3. b[(j + k) - 1] = buf[(i + ((j + k) - 1)) - 1]
    BY <1>1, <2>1
  <2> HIDE DEF b, d, t, m
  <2> QED
    BY <2>1, <2>2, <2>3
<1> HIDE DEF b, d, t
<1>7. d = t
  <2>1. d \in Seq(Chars) /\ t \in Seq(Chars)
    BY <1>3, <1>4
  <2>2. \A k \in 1..Len(t) : d[k] = t[k]
    BY <1>6
  <2> QED
    BY <1>5, <2>1, <2>2, StringsEqual
<1> QED
  BY <1>7 DEF b, d, t

\* The end of a class of characters.
LEMMA EndOfFound ==
    ASSUME NEW buf \in Seq(Chars), NEW class, NEW i \in 1..Len(buf) + 1
    PROVE  \/ EndOf(class, From(buf, i)) = None /\ \A j \in i..Len(buf) : buf[j] \in class
           \/ \E r \in 0..Len(buf) - i :
                  /\ EndOf(class, From(buf, i)) = r /\ buf[i + r] \notin class
                  /\ \A j \in i..(i + r) - 1 : buf[j] \in class
<1> DEFINE N == Len(buf)
           b == From(buf, i)
           others == {k \in 1..Len(b) : b[k] \notin class}
<1>1. /\ b \in Seq(Chars) /\ Len(b) = N - i + 1 /\ N \in Nat /\ i \in Nat /\ i >= 1
      /\ \A k \in 1..N - i + 1 : b[k] = buf[(i + k) - 1]
  BY FromIs
<1>2. EndOf(class, b) = IF others = {} THEN None ELSE Min(others) - 1
  BY DEF EndOf
<1> HIDE DEF b, N
<1>3. CASE others = {}
  <2> SUFFICES ASSUME NEW j \in i..N PROVE buf[j] \in class
    BY <1>2, <1>3 DEF b, N
  <2>1. (j - i) + 1 \in 1..N - i + 1 /\ (i + ((j - i) + 1)) - 1 = j /\ (j - i) + 1 \in 1..Len(b)
    BY <1>1
  <2>2. b[(j - i) + 1] = buf[j]
    BY <1>1, <2>1
  <2>3. b[(j - i) + 1] \in class
    BY <1>3, <2>1
  <2> QED
    BY <2>2, <2>3
<1>4. CASE others # {}
  <2> DEFINE m == Min(others)
  <2>1. m \in others /\ \A k \in others : m <= k
    <3>1. others \in SUBSET Nat
      BY <1>1
    <3> HIDE DEF others
    <3> QED
      BY <1>4, <3>1, MinFound
  <2>2. m \in 1..N - i + 1 /\ b[m] \notin class
    <3> HIDE DEF m
    <3> QED
      BY <1>1, <2>1
  <2>3. EndOf(class, b) = m - 1
    BY <1>2, <1>4
  <2> HIDE DEF m
  <2>4. m - 1 \in 0..N - i /\ i + (m - 1) = (i + m) - 1
    BY <1>1, <2>2
  <2>5. buf[i + (m - 1)] \notin class
    <3>1. b[m] = buf[(i + m) - 1]
      BY <1>1, <2>2
    <3> QED
      BY <2>2, <2>4, <3>1
  <2>6. ASSUME NEW j \in i..(i + (m - 1)) - 1 PROVE buf[j] \in class
    <3> DEFINE k == (j - i) + 1
    <3>1. k \in 1..N - i + 1 /\ (i + k) - 1 = j /\ k \in 1..Len(b) /\ k < m /\ k \in Nat /\ m \in Nat
      BY <1>1, <2>2
    <3> HIDE DEF k
    <3>2. b[k] = buf[j]
      BY <1>1, <3>1
    <3>3. k \notin others
      BY <2>1, <3>1
    <3> QED
      BY <3>1, <3>2, <3>3
  <2> QED
    BY <2>3, <2>4, <2>5, <2>6 DEF b, N
<1> QED
  BY <1>3, <1>4

\* find_lws_end, of what is left from "i" on.
LEMMA LwsEndFound ==
    ASSUME NEW buf \in Seq(Chars), NEW i \in 1..Len(buf) + 1
    PROVE  LET r == FindLwsEnd(From(buf, i))
               e == EndOf(Lws, From(buf, i + 3))
           IN /\ r = None \/ r = Invalid \/ r \in 0..Len(buf) - i
              /\ i <= Len(buf) /\ buf[i] # "cr" => r = EndOf(Lws, From(buf, i))
              /\ i <= Len(buf) - 2 /\ buf[i] = "cr" /\ buf[i + 1] = "nl" /\ buf[i + 2] \notin Lws => r = 0
              /\ i <= Len(buf) - 2 /\ buf[i] = "cr" /\ buf[i + 1] = "nl" /\ buf[i + 2] \in Lws
                    => r = IF e = None THEN None ELSE e + 3
<1> DEFINE N == Len(buf)
           b == From(buf, i)
           r == FindLwsEnd(b)
           e == EndOf(Lws, From(buf, i + 3))
<1>1. /\ b \in Seq(Chars) /\ Len(b) = N - i + 1 /\ N \in Nat /\ i \in Nat /\ i >= 1 /\ i <= N + 1
      /\ \A k \in 1..N - i + 1 : b[k] = buf[(i + k) - 1]
  BY SMTT(30), FromIs
<1>2. r = IF b = << >> THEN None
          ELSE IF b[1] # "cr" THEN EndOf(Lws, b)
          ELSE IF Len(b) < 3 THEN None
          ELSE IF b[2] # "nl" THEN Invalid
          ELSE IF b[3] \notin Lws THEN 0
          ELSE LET end == EndOf(Lws, From(b, 4)) IN IF end = None THEN None ELSE end + 3
  BY DEF FindLwsEnd
<1>3. i <= N => b # << >> /\ b[1] = buf[i]
  <2> SUFFICES ASSUME i <= N PROVE b # << >> /\ b[1] = buf[i]
    OBVIOUS
  <2>1. 1 \in 1..N - i + 1 /\ (i + 1) - 1 = i
    BY <1>1
  <2>2. Len(b) # 0
    BY <1>1
  <2> HIDE DEF b
  <2> QED
    BY <1>1, <2>1, <2>2
<1>4. i <= N - 2 => /\ ~(Len(b) < 3) /\ b[2] = buf[i + 1] /\ b[3] = buf[i + 2]
                    /\ From(b, 4) = From(buf, i + 3)
  <2> SUFFICES ASSUME i <= N - 2
               PROVE  /\ ~(Len(b) < 3) /\ b[2] = buf[i + 1] /\ b[3] = buf[i + 2]
                      /\ From(b, 4) = From(buf, i + 3)
    OBVIOUS
  <2>1. /\ 2 \in 1..N - i + 1 /\ (i + 2) - 1 = i + 1 /\ 3 \in 1..N - i + 1 /\ (i + 3) - 1 = i + 2
        /\ 4 \in 1..N - i + 2 /\ (i + 4) - 1 = i + 3 /\ ~(Len(b) < 3)
    BY <1>1
  <2>2. From(From(buf, i), 4) = From(buf, (i + 4) - 1)
    BY <2>1, FromFrom
  <2> HIDE DEF b
  <2>3. b[2] = buf[i + 1] /\ b[3] = buf[i + 2]
    BY <1>1, <2>1
  <2> QED
    BY <2>1, <2>2, <2>3 DEF b
<1>5. i > N - 2 => b = << >> \/ Len(b) < 3
  BY <1>1
<1>6. \/ EndOf(Lws, b) = None
      \/ EndOf(Lws, b) \in 0..N - i
  BY EndOfFound
<1>7. i <= N - 2 => e = None \/ e \in 0..N - (i + 3)
  <2>1. i <= N - 2 => i + 3 \in 1..N + 1
    BY <1>1
  <2> QED
    BY <2>1, EndOfFound
<1>00. None # Invalid
  BY DEF None, Invalid
<1> HIDE DEF b, r, e, N
<1>8. i <= N /\ buf[i] # "cr" => r = EndOf(Lws, b)
  BY <1>2, <1>3
<1>9. i <= N - 2 /\ buf[i] = "cr" /\ buf[i + 1] = "nl" /\ buf[i + 2] \notin Lws => r = 0
  <2>1. i <= N - 2 => i <= N
    BY <1>1
  <2> QED
    BY <1>2, <1>3, <1>4, <2>1
<1>10. i <= N - 2 /\ buf[i] = "cr" /\ buf[i + 1] = "nl" /\ buf[i + 2] \in Lws
          => r = IF e = None THEN None ELSE e + 3
  <2>1. i <= N - 2 => i <= N
    BY <1>1
  <2> QED
    BY <1>2, <1>3, <1>4, <2>1 DEF e
<1>11. r = None \/ r = Invalid \/ r \in 0..N - i
  <2>1. CASE i > N - 2
    <3>1. CASE b = << >>
      BY <1>2, <3>1
    <3>2. CASE b # << >>
      BY <1>2, <1>5, <1>6, <2>1, <3>2
    <3> QED
      BY <3>1, <3>2
  <2>2. CASE i <= N - 2
    <3>1. b # << >> /\ b[1] = buf[i] /\ ~(Len(b) < 3) /\ b[2] = buf[i + 1] /\ b[3] = buf[i + 2]
      BY <1>1, <1>3, <1>4, <2>2
    <3>2. CASE buf[i] # "cr"
      BY <1>2, <1>6, <3>1, <3>2
    <3>3. CASE buf[i] = "cr" /\ buf[i + 1] # "nl"
      BY <1>2, <3>1, <3>3
    <3>4. CASE buf[i] = "cr" /\ buf[i + 1] = "nl" /\ buf[i + 2] \notin Lws
      <4>1. r = 0 /\ 0 \in 0..N - i
        BY <1>1, <1>9, <2>2, <3>4
      <4> QED
        BY <4>1
    <3>5. CASE buf[i] = "cr" /\ buf[i + 1] = "nl" /\ buf[i + 2] \in Lws
      <4>1. r = IF e = None THEN None ELSE e + 3
        BY <1>10, <2>2, <3>5
      <4>2. CASE e = None
        BY <4>1, <4>2
      <4>3. CASE e # None
        <5>1. e \in 0..N - (i + 3) /\ r = e + 3
          BY <1>7, <2>2, <4>1, <4>3
        <5> QED
          BY <1>1, <5>1
      <4> QED
        BY <4>2, <4>3
    <3> QED
      BY <3>2, <3>3, <3>4, <3>5
  <2> QED
    BY <1>1, <2>1, <2>2
<1> QED
  BY <1>8, <1>9, <1>10, <1>11 DEF b, r, e, N

\* What find_multi_lws_end is worked out by: where each of the LWS ends.
AreEnds(f, buf) ==
    \A i \in 1..Len(buf) + 1 :
        LET next == FindLwsEnd(From(buf, i)) IN
        /\ f[i] = None \/ f[i] = Invalid \/ f[i] \in 0..Len(buf)
        /\ next = 0 => f[i] = i - 1
        /\ next < 0 => f[i] = next
        /\ next > 0 => f[i] = f[i + next]

LEMMA MultiDefined ==
    ASSUME NEW buf \in Seq(Chars)
    PROVE  \E f : AreEnds(f, buf) /\ FindMultiLwsEnd(buf) = f[1]
<1> DEFINE L == Len(buf)
           N == L + 1
           V == {None, Invalid} \cup 0..L
           end(i) == FindLwsEnd(From(buf, i))
           next == [i \in 1..N |-> IF end(i) <= 0 THEN 0 ELSE i + end(i)]
           is(i, v) == IF end(i) <= 0 THEN IF end(i) = 0 THEN i - 1 ELSE end(i) ELSE v
           step == [i \in 1..N |-> [v \in V |-> is(i, v)]]
           Rec(f) == f = [i \in 1..N |-> is(i, f[i + end(i)])]
<1>0. L \in Nat /\ N \in Nat /\ N = L + 1 /\ None = -1 /\ Invalid = -2
  BY DEF None, Invalid
<1>1. \A i \in 1..N : end(i) = None \/ end(i) = Invalid \/ end(i) \in 0..L - i
  BY LwsEndFound
<1>2. FindMultiLwsEnd(buf) = (CHOOSE f : Rec(f))[1]
  BY Zenon DEF FindMultiLwsEnd
<1> HIDE DEF end, L
<1>3. \A i \in 1..N, v \in V : is(i, v) \in V
  <2> SUFFICES ASSUME NEW i \in 1..N, NEW v \in V PROVE is(i, v) \in V
    OBVIOUS
  <2>1. CASE end(i) = None \/ end(i) = Invalid
    BY <1>0, <2>1
  <2>2. CASE end(i) \in 0..L - i
    BY <1>0, <2>2
  <2> QED
    BY <1>1, <2>1, <2>2
<1>4. step \in [1..N -> [V -> V]] /\ \A i \in 1..N, v \in V : step[i][v] = is(i, v)
  BY <1>3
<1>5. /\ next \in [1..N -> Nat]
      /\ \A i \in 1..N : end(i) > 0 => next[i] = i + end(i) /\ i + end(i) \in i + 1..N
  <2>1. ASSUME NEW i \in 1..N
        PROVE  /\ (IF end(i) <= 0 THEN 0 ELSE i + end(i)) \in Nat
               /\ end(i) > 0 => ~(end(i) <= 0) /\ i + end(i) \in i + 1..N
    <3>1. CASE end(i) = None \/ end(i) = Invalid
      BY <1>0, <3>1
    <3>2. CASE end(i) \in 0..L - i
      BY <1>0, <3>2
    <3> QED
      BY <1>1, <3>1, <3>2
  <2> HIDE DEF N
  <2> QED
    BY <2>1
<1>6. None \in V
  OBVIOUS
<1> HIDE DEF N, V, next, step, is
<1>7. PICK f : IsDescent(f, 1, N, V, None, next, step)
  BY <1>0, <1>4, <1>5, <1>6, Descent
<1>8. f \in [1..N -> V] /\ \A i \in 1..N : f[i] = is(i, f[i + end(i)])
  <2>1. f \in [1..N -> V]
    BY <1>7 DEF IsDescent
  <2>2. ASSUME NEW i \in 1..N PROVE f[i] = is(i, f[i + end(i)])
    <3>1. f[i] = step[i][IF next[i] \in i + 1..N THEN f[next[i]] ELSE None]
      BY <1>7 DEF IsDescent
    <3>2. CASE end(i) > 0
      <4>1. next[i] = i + end(i) /\ next[i] \in i + 1..N
        BY <1>5, <3>2
      <4>2. f[i] = step[i][f[i + end(i)]]
        BY <3>1, <4>1
      <4>3. f[i + end(i)] \in V
        <5>1. i + end(i) \in 1..N
          BY <1>0, <4>1
        <5> QED
          BY <2>1, <5>1
      <4> QED
        BY <1>4, <4>2, <4>3
    <3>3. CASE ~(end(i) > 0)
      <4>1. end(i) <= 0
        BY <1>0, <1>1, <3>3
      <4>2. \A v, w : is(i, v) = is(i, w)
        BY <4>1 DEF is
      <4>3. (IF next[i] \in i + 1..N THEN f[next[i]] ELSE None) \in V
        <5>1. next[i] \in i + 1..N => next[i] \in 1..N
          BY <1>0
        <5> QED
          BY <1>6, <2>1, <5>1
      <4>4. f[i] = is(i, IF next[i] \in i + 1..N THEN f[next[i]] ELSE None)
        BY <1>4, <3>1, <4>3
      <4> QED
        BY <4>2, <4>4
    <3> QED
      BY <3>2, <3>3
  <2> QED
    BY <2>1, <2>2
<1>9. Rec(f)
  <2>1. f = [i \in 1..N |-> f[i]]
    BY <1>8
  <2> QED
    BY <1>8, <2>1
<1> DEFINE g == CHOOSE h : Rec(h)
<1>10. Rec(g)
  BY <1>9
<1> HIDE DEF g
<1>11. \A i \in 1..N : g[i] = is(i, g[i + end(i)])
  BY <1>10
<1>12. \A i \in 1..N : g[i] \in V
  <2> DEFINE S == {k \in Nat : \E i \in 1..N : k = N - i /\ g[i] \notin V}
  <2> SUFFICES ASSUME NEW j \in 1..N, g[j] \notin V PROVE FALSE
    OBVIOUS
  <2>1. N - j \in S
    BY <1>0
  <2>2. PICK k \in S : \A m \in S : k <= m
    <3>1. S \in SUBSET Nat /\ S # {}
      BY <2>1
    <3> HIDE DEF S
    <3> QED
      BY <3>1, LeastNatural
  <2>3. PICK i \in 1..N : k = N - i /\ g[i] \notin V
    BY <2>2
  <2>4. g[i] = is(i, g[i + end(i)])
    BY <1>11
  <2>5. CASE end(i) > 0
    <3>1. i + end(i) \in i + 1..N
      BY <1>5, <2>5
    <3> DEFINE n == i + end(i)
    <3> HIDE DEF n
    <3>2. n \in 1..N /\ n > i /\ N - n \in Nat /\ N - n < k
      BY <1>0, <2>3, <3>1 DEF n
    <3>3. N - n \notin S
      <4> SUFFICES ASSUME N - n \in S PROVE FALSE
        OBVIOUS
      <4>1. k <= N - n
        BY <2>2
      <4>2. k \in Nat
        OBVIOUS
      <4> HIDE DEF S
      <4> QED
        BY <3>2, <4>1, <4>2
    <3>4. g[n] \in V
      BY <3>2, <3>3
    <3>5. is(i, g[n]) \in V
      BY <1>3, <3>4
    <3> QED
      BY <2>3, <2>4, <3>5 DEF n
  <2>6. CASE ~(end(i) > 0)
    <3>1. end(i) <= 0
      BY <1>0, <1>1, <2>6
    <3>2. is(i, g[i + end(i)]) = is(i, None)
      BY <3>1 DEF is
    <3>3. is(i, None) \in V
      BY <1>3, <1>6
    <3> QED
      BY <2>3, <2>4, <3>2, <3>3
  <2> QED
    BY <2>5, <2>6
<1>13. AreEnds(g, buf)
  <2> SUFFICES ASSUME NEW i \in 1..N
               PROVE  /\ g[i] = None \/ g[i] = Invalid \/ g[i] \in 0..L
                      /\ end(i) = 0 => g[i] = i - 1
                      /\ end(i) < 0 => g[i] = end(i)
                      /\ end(i) > 0 => g[i] = g[i + end(i)]
    BY DEF AreEnds, N, L, end
  <2>1. g[i] = None \/ g[i] = Invalid \/ g[i] \in 0..L
    BY <1>12 DEF V
  <2>2. g[i] = is(i, g[i + end(i)])
    BY <1>11
  <2>3. CASE end(i) = None \/ end(i) = Invalid
    BY <1>0, <2>1, <2>2, <2>3 DEF is
  <2>4. CASE end(i) \in 0..L - i
    BY <2>1, <2>2, <2>4 DEF is
  <2> QED
    BY <1>1, <2>3, <2>4
<1> QED
  BY <1>2, <1>13 DEF g

LEMMA MultiBound ==
    ASSUME NEW buf \in Seq(Chars), NEW i \in 1..Len(buf) + 1
    PROVE  \/ FindMultiLwsEnd(From(buf, i)) \in {None, Invalid}
           \/ FindMultiLwsEnd(From(buf, i)) \in 0..Len(buf) - i + 1
<1> DEFINE b == From(buf, i)
<1>1. b \in Seq(Chars) /\ Len(b) = Len(buf) - i + 1 /\ Len(b) \in Nat
  BY FromIs
<1> HIDE DEF b
<1>2. PICK f : AreEnds(f, b) /\ FindMultiLwsEnd(b) = f[1]
  BY <1>1, MultiDefined
<1>3. 1 \in 1..Len(b) + 1
  BY <1>1
<1>4. f[1] = None \/ f[1] = Invalid \/ f[1] \in 0..Len(b)
  BY <1>2, <1>3 DEF AreEnds
<1> QED
  BY <1>1, <1>2, <1>4 DEF b

-----------------------------------------------------------------------------
(* Blanks in a line. *)

\* A parser does not stand between a CR and its NL.
Placed(buf, i) == buf[i] = "nl" => buf[i - 1] # "cr"

\* What is passed over from "i" to the character before "k".
IsGap(buf, i, k) ==
    \A j \in i..k - 1 : buf[j] \in Blanks /\ (buf[j] = "nl" => j > i /\ buf[j - 1] = "cr")

LEMMA LineFacts ==
    ASSUME NEW buf \in Seq(Chars), NEW e, IsLine(buf, e)
    PROVE  /\ e \in Nat /\ e >= 3 /\ e <= Len(buf) - 1 /\ Len(buf) \in Nat
           /\ buf[e - 1] = "cr" /\ buf[e] = "nl" /\ buf[e + 1] \notin Lws /\ buf[1] # "cr"
           /\ \A i \in 1..e - 2 : buf[i] = "cr" => buf[i + 1] = "nl" /\ buf[i + 2] \in Lws
BY DEF IsLine, Folded

\* The end of blanks in a line is found in front of its last CR.
LEMMA BlanksInLine ==
    ASSUME NEW buf \in Seq(Chars), NEW e, IsLine(buf, e), NEW i \in 2..e - 1,
           NEW class, "cr" \notin class
    PROVE  \E r \in 0..(e - 1) - i :
               /\ EndOf(class, From(buf, i)) = r /\ buf[i + r] \notin class
               /\ \A j \in i..(i + r) - 1 : buf[j] \in class
<1>1. e \in Nat /\ e >= 3 /\ e <= Len(buf) - 1 /\ Len(buf) \in Nat /\ buf[e - 1] = "cr"
  BY LineFacts
<1>2. i \in 1..Len(buf) + 1 /\ e - 1 \in i..Len(buf) /\ i \in Nat
  BY <1>1
<1>3. buf[e - 1] \notin class
  BY <1>1
<1>4. PICK r \in 0..Len(buf) - i :
          /\ EndOf(class, From(buf, i)) = r /\ buf[i + r] \notin class
          /\ \A j \in i..(i + r) - 1 : buf[j] \in class
  BY <1>2, <1>3, EndOfFound
<1>5. e - 1 \notin i..(i + r) - 1
  BY <1>3, <1>4
<1>6. r \in 0..(e - 1) - i
  BY <1>1, <1>2, <1>5
<1> QED
  BY <1>4, <1>6

LEMMA LwsInLine ==
    ASSUME NEW buf \in Seq(Chars), NEW e, IsLine(buf, e), NEW i \in 2..e - 1, Placed(buf, i)
    PROVE  \E r \in 0..(e - 1) - i :
               /\ FindLwsEnd(From(buf, i)) = r
               /\ r = 0 => buf[i] \notin Lws /\ (buf[i] = "cr" => i = e - 1)
               /\ Placed(buf, i + r) /\ IsGap(buf, i, i + r)
<1>1. /\ e \in Nat /\ e >= 3 /\ e <= Len(buf) - 1 /\ Len(buf) \in Nat
      /\ buf[e - 1] = "cr" /\ buf[e] = "nl" /\ buf[e + 1] \notin Lws
      /\ \A j \in 1..e - 2 : buf[j] = "cr" => buf[j + 1] = "nl" /\ buf[j + 2] \in Lws
  BY LineFacts
<1>2. i \in 1..Len(buf) + 1 /\ i \in Nat /\ i <= Len(buf) /\ i <= Len(buf) - 2 /\ i >= 2 /\ i <= e - 1
  BY <1>1
<1>3. "cr" \notin Lws /\ "nl" \notin Lws /\ Lws \subseteq Blanks /\ "cr" # "nl" /\ {"cr", "nl"} \subseteq Blanks
  BY DEF Lws, Blanks
<1>4. CASE buf[i] # "cr"
  <2>1. FindLwsEnd(From(buf, i)) = EndOf(Lws, From(buf, i))
    BY <1>2, <1>4, LwsEndFound
  <2>2. PICK r \in 0..(e - 1) - i :
            /\ EndOf(Lws, From(buf, i)) = r /\ buf[i + r] \notin Lws
            /\ \A j \in i..(i + r) - 1 : buf[j] \in Lws
    BY <1>3, BlanksInLine
  <2>3. r = 0 => buf[i] \notin Lws
    BY <1>2, <2>2
  <2>4. Placed(buf, i + r)
    <3>1. CASE r = 0
      BY <1>2, <3>1
    <3>2. CASE r # 0
      <4>1. (i + r) - 1 \in i..(i + r) - 1
        BY <1>2, <3>2
      <4>2. buf[(i + r) - 1] \in Lws
        BY <2>2, <4>1
      <4> QED
        BY <1>3, <4>2 DEF Placed
    <3> QED
      BY <3>1, <3>2
  <2>5. IsGap(buf, i, i + r)
    BY <1>3, <2>2 DEF IsGap
  <2> QED
    BY <1>4, <2>1, <2>2, <2>3, <2>4, <2>5
<1>5. CASE buf[i] = "cr" /\ i = e - 1
  <2>1. i + 1 = e /\ i + 2 = e + 1 /\ 0 \in 0..(e - 1) - i /\ i + 0 = i
    BY <1>1, <1>2, <1>5
  <2>2. FindLwsEnd(From(buf, i)) = 0
    BY <1>1, <1>2, <1>5, <2>1, LwsEndFound
  <2>3. IsGap(buf, i, i)
    BY <1>2 DEF IsGap
  <2> QED
    BY <1>3, <1>5, <2>1, <2>2, <2>3
<1>6. CASE buf[i] = "cr" /\ i # e - 1
  <2>1. i \in 1..e - 2
    BY <1>1, <1>2, <1>6
  <2>2. buf[i + 1] = "nl" /\ buf[i + 2] \in Lws
    BY <1>1, <1>6, <2>1
  <2>3. i # e - 2
    <3> SUFFICES ASSUME i = e - 2 PROVE FALSE
      OBVIOUS
    <3>1. i + 1 = e - 1
      BY <1>1, <1>2
    <3> QED
      BY <1>1, <2>2, <3>1
  <2>4. i # e - 3
    <3> SUFFICES ASSUME i = e - 3 PROVE FALSE
      OBVIOUS
    <3>1. i + 2 = e - 1
      BY <1>1, <1>2
    <3> QED
      BY <1>1, <1>3, <2>2, <3>1
  <2>5. i + 3 \in 2..e - 1
    BY <1>1, <1>2, <2>1, <2>3, <2>4
  <2>6. PICK q \in 0..(e - 1) - (i + 3) :
            /\ EndOf(Lws, From(buf, i + 3)) = q /\ buf[(i + 3) + q] \notin Lws
            /\ \A j \in i + 3..((i + 3) + q) - 1 : buf[j] \in Lws
    BY <1>3, <2>5, BlanksInLine
  <2> DEFINE r == q + 3
  <2>7. FindLwsEnd(From(buf, i)) = r
    <3>1. q # None
      BY DEF None
    <3> QED
      BY <1>2, <1>6, <2>2, <2>6, <3>1, LwsEndFound
  <2>8. r \in 0..(e - 1) - i /\ r # 0 /\ i + r = (i + 3) + q /\ (i + r) - 1 >= i + 2 /\ r \in Nat
        /\ (i + r) - 1 \in Nat
    BY <1>1, <1>2
  <2> HIDE DEF r
  <2>9. \A j \in i + 2..(i + r) - 1 : buf[j] \in Lws
    <3> SUFFICES ASSUME NEW j \in i + 2..(i + r) - 1 PROVE buf[j] \in Lws
      OBVIOUS
    <3>1. j = i + 2 \/ j \in i + 3..((i + 3) + q) - 1
      BY <1>2, <2>8
    <3> QED
      BY <2>2, <2>6, <3>1
  <2>10. Placed(buf, i + r)
    <3>1. buf[(i + r) - 1] \in Lws
      BY <1>2, <2>8, <2>9
    <3> QED
      BY <1>3, <3>1 DEF Placed
  <2>11. IsGap(buf, i, i + r)
    <3> SUFFICES ASSUME NEW j \in i..(i + r) - 1
                 PROVE  buf[j] \in Blanks /\ (buf[j] = "nl" => j > i /\ buf[j - 1] = "cr")
      BY DEF IsGap
    <3>1. CASE j = i
      BY <1>3, <1>6, <3>1
    <3>2. CASE j = i + 1
      <4>1. j > i /\ j - 1 = i
        BY <1>2, <3>2
      <4> QED
        BY <1>3, <1>6, <2>2, <3>2, <4>1
    <3>3. CASE j \in i + 2..(i + r) - 1
      BY <1>3, <2>9, <3>3
    <3> QED
      BY <1>2, <2>8, <3>1, <3>2, <3>3
  <2> QED
    BY <2>7, <2>8, <2>10, <2>11
<1> QED
  BY <1>4, <1>5, <1>6

\* find_multi_lws_end stops at the first character that is neither LWS nor in a fold.
LEMMA MultiInLine ==
    ASSUME NEW buf \in Seq(Chars), NEW e, IsLine(buf, e), NEW i \in 2..e - 1, Placed(buf, i)
    PROVE  \E m \in 0..(e - 1) - i :
               /\ FindMultiLwsEnd(From(buf, i)) = m
               /\ buf[i + m] \notin Lws /\ (buf[i + m] = "cr" => i + m = e - 1)
               /\ Placed(buf, i + m) /\ IsGap(buf, i, i + m)
<1> DEFINE b == From(buf, i)
<1>1. /\ e \in Nat /\ e >= 3 /\ e <= Len(buf) - 1 /\ Len(buf) \in Nat
  BY LineFacts
<1>2. i \in 1..Len(buf) + 1 /\ i \in Nat /\ i >= 2 /\ i <= e - 1
  BY <1>1
<1>3. b \in Seq(Chars) /\ Len(b) = (Len(buf) - i) + 1
  <2>1. Len(buf) - i + 1 = (Len(buf) - i) + 1
    BY <1>1, <1>2
  <2> QED
    BY <1>2, <2>1, FromIs
<1>4. PICK f : AreEnds(f, b) /\ FindMultiLwsEnd(b) = f[1]
  BY <1>3, MultiDefined
<1> DEFINE Ok(p, z) == /\ z \in p..e - 1
                       /\ buf[z] \notin Lws /\ (buf[z] = "cr" => z = e - 1)
                       /\ Placed(buf, z) /\ IsGap(buf, p, z)
           Good(p) == Placed(buf, p) => \E z : f[(p - i) + 1] = z - i /\ Ok(p, z)
           S == {k \in Nat : \E p \in i..e - 1 : k = (e - 1) - p /\ ~Good(p)}
<1>5. \A p \in i..e - 1 : Good(p)
  <2> SUFFICES ASSUME NEW p0 \in i..e - 1, ~Good(p0) PROVE FALSE
    OBVIOUS
  <2>1. (e - 1) - p0 \in S
    <3>1. (e - 1) - p0 \in Nat
      BY <1>1, <1>2
    <3> HIDE DEF Good
    <3> QED
      BY <3>1
  <2>2. PICK k \in S : \A m \in S : k <= m
    <3>1. S \in SUBSET Nat /\ S # {}
      BY <2>1
    <3> HIDE DEF S
    <3> QED
      BY <3>1, LeastNatural
  <2>3. PICK p \in i..e - 1 : k = (e - 1) - p /\ ~Good(p)
    <3> HIDE DEF Good
    <3> QED
      BY <2>2
  <2>4. Placed(buf, p) /\ ~\E z : f[(p - i) + 1] = z - i /\ Ok(p, z)
    BY <2>3
  <2>5. p \in 2..e - 1 /\ p \in Nat /\ p >= i
    BY <1>1, <1>2
  <2>6. PICK r \in 0..(e - 1) - p :
               /\ FindLwsEnd(From(buf, p)) = r
               /\ r = 0 => buf[p] \notin Lws /\ (buf[p] = "cr" => p = e - 1)
               /\ Placed(buf, p + r) /\ IsGap(buf, p, p + r)
    BY <2>4, <2>5, LwsInLine
  <2> DEFINE q == (p - i) + 1
  <2>7. q \in 1..Len(b) + 1 /\ q \in Nat /\ (i + q) - 1 = p /\ r \in Nat
    <3> HIDE DEF b
    <3> QED
      BY <1>1, <1>2, <1>3, <2>5
  <2>8. From(b, q) = From(buf, p)
    <3>1. q \in 1..Len(buf) - i + 2
      BY <1>1, <1>2, <2>5
    <3> QED
      BY <1>2, <2>7, <3>1, FromFrom
  <2>9. /\ r = 0 => f[q] = q - 1
        /\ r > 0 => f[q] = f[q + r]
    BY <1>4, <2>6, <2>7, <2>8 DEF AreEnds
  <2> HIDE DEF b
  <2>10. CASE r = 0
    <3>1. f[(p - i) + 1] = p - i
      BY <1>2, <2>5, <2>9, <2>10
    <3>2. p \in p..e - 1
      BY <1>1, <2>5
    <3>3. IsGap(buf, p, p)
      BY <2>5 DEF IsGap
    <3>4. Ok(p, p)
      BY <2>4, <2>6, <2>10, <3>2, <3>3
    <3> HIDE DEF Ok
    <3> QED
      BY <2>4, <3>1, <3>4
  <2>11. CASE r > 0
    <3> DEFINE p1 == p + r
    <3>1. p1 \in i..e - 1 /\ (e - 1) - p1 \in Nat /\ (e - 1) - p1 < k /\ p1 \in Nat /\ p1 > p
          /\ (p1 - i) + 1 = q + r
      BY <1>1, <1>2, <2>3, <2>5, <2>7, <2>11
    <3> HIDE DEF p1
    <3>2. (e - 1) - p1 \notin S
      <4> SUFFICES ASSUME (e - 1) - p1 \in S PROVE FALSE
        OBVIOUS
      <4>1. k <= (e - 1) - p1 /\ k \in Nat
        BY <2>2
      <4> HIDE DEF S
      <4> QED
        BY <3>1, <4>1
    <3>3. Good(p1)
      <4> HIDE DEF Good
      <4> QED
        BY <3>1, <3>2
    <3>4. Placed(buf, p1)
      BY <2>6 DEF p1
    <3>5. PICK z : f[(p1 - i) + 1] = z - i /\ Ok(p1, z)
      BY <3>3, <3>4
    <3>6. f[(p - i) + 1] = z - i
      BY <2>9, <2>11, <3>1, <3>5
    <3>7. z \in Nat /\ z \in p..e - 1 /\ z >= p1
      BY <1>1, <2>5, <3>1, <3>5
    <3>8. IsGap(buf, p, z)
      <4> SUFFICES ASSUME NEW j \in p..z - 1
                   PROVE  buf[j] \in Blanks /\ (buf[j] = "nl" => j > p /\ buf[j - 1] = "cr")
        BY DEF IsGap
      <4>1. CASE j \in p..p1 - 1
        <5>1. IsGap(buf, p, p1)
          BY <2>6 DEF p1
        <5> QED
          BY <4>1, <5>1 DEF IsGap
      <4>2. CASE j \in p1..z - 1
        <5>1. buf[j] \in Blanks /\ (buf[j] = "nl" => j > p1 /\ buf[j - 1] = "cr")
          BY <3>5, <4>2 DEF IsGap
        <5> QED
          BY <2>5, <3>1, <4>2, <5>1
      <4> QED
        BY <2>5, <3>1, <3>7, <4>1, <4>2
    <3>9. Ok(p, z)
      BY <3>5, <3>7, <3>8
    <3> HIDE DEF Ok
    <3> QED
      BY <2>4, <3>6, <3>9
  <2> QED
    BY <2>7, <2>10, <2>11
<1>6. i \in i..e - 1 /\ (i - i) + 1 = 1
  BY <1>1, <1>2
<1>7. PICK z : f[1] = z - i /\ Ok(i, z)
  <2>1. Good(i)
    BY <1>5, <1>6
  <2> QED
    BY <1>6, <2>1
<1>8. z - i \in 0..(e - 1) - i /\ i + (z - i) = z
  BY <1>1, <1>2, <1>7
<1> QED
  BY <1>4, <1>7, <1>8

-----------------------------------------------------------------------------
(* The recursion of the values. *)

Strings == Seq(Chars)
Lists == Seq(Strings)

\* Where the values go on behind "i".
NextValue(buf, i) ==
    i + IF buf[i] \in Text THEN EndOf(Text, From(buf, i)) ELSE FindMultiLwsEnd(From(buf, i))

\* The values from "i" on, if those that go on are "v".
ValuesStep(buf, i, v) ==
    IF i > Len(buf) THEN {}
    ELSE IF buf[i] \in Text
    THEN LET end == EndOf(Text, From(buf, i)) IN
         IF end = None THEN {} ELSE {<<SubSeq(buf, i, i + end - 1)>> \o rest : rest \in v}
    ELSE IF buf[i] = "ctl" THEN {}
    ELSE LET end == FindMultiLwsEnd(From(buf, i)) IN
         IF end < 0 THEN {} ELSE IF end = 0 THEN {<< >>} ELSE v

\* They do not end at "i".
GoesOn(buf, i) ==
    /\ i <= Len(buf)
    /\ IF buf[i] \in Text THEN EndOf(Text, From(buf, i)) # None
       ELSE buf[i] # "ctl" /\ FindMultiLwsEnd(From(buf, i)) > 0

LEMMA NextValueIs ==
    ASSUME NEW buf \in Seq(Chars), NEW i \in 1..Len(buf) + 1
    PROVE  GoesOn(buf, i) => NextValue(buf, i) \in i + 1..Len(buf) + 1
<1> SUFFICES ASSUME GoesOn(buf, i) PROVE NextValue(buf, i) \in i + 1..Len(buf) + 1
  OBVIOUS
<1>1. Len(buf) \in Nat /\ i \in Nat /\ i >= 1 /\ i <= Len(buf)
  BY DEF GoesOn
<1>2. CASE buf[i] \in Text
  <2> DEFINE r == EndOf(Text, From(buf, i))
  <2>1. r # None
    BY <1>2 DEF GoesOn
  <2>2. r \in 0..Len(buf) - i /\ buf[i + r] \notin Text
    BY <2>1, EndOfFound
  <2>3. NextValue(buf, i) = i + r
    BY <1>2 DEF NextValue
  <2> HIDE DEF r
  <2>4. r # 0
    <3> SUFFICES ASSUME r = 0 PROVE FALSE
      OBVIOUS
    <3>1. i + r = i
      BY <1>1
    <3> QED
      BY <1>2, <2>2, <3>1
  <2> QED
    BY <1>1, <2>2, <2>3, <2>4
<1>3. CASE buf[i] \notin Text
  <2> DEFINE r == FindMultiLwsEnd(From(buf, i))
  <2>1. r > 0 /\ NextValue(buf, i) = i + r
    BY <1>3 DEF GoesOn, NextValue
  <2>2. r \in {None, Invalid} \/ r \in 0..Len(buf) - i + 1
    BY MultiBound
  <2> HIDE DEF r
  <2>3. None = -1 /\ Invalid = -2
    BY DEF None, Invalid
  <2>4. r \in 0..Len(buf) - i + 1
    BY <2>1, <2>2, <2>3
  <2> QED
    BY <1>1, <2>1, <2>4
<1> QED
  BY <1>2, <1>3

\* A step that does not go on.
LEMMA ValuesEnd ==
    ASSUME NEW buf, NEW i, ~GoesOn(buf, i), NEW v, NEW w,
           FindMultiLwsEnd(From(buf, i)) \in Int, i \in Int, Len(buf) \in Int
    PROVE  ValuesStep(buf, i, v) = ValuesStep(buf, i, w)
<1>1. CASE i > Len(buf)
  BY <1>1 DEF ValuesStep
<1>2. CASE i <= Len(buf) /\ buf[i] \in Text
  BY <1>2 DEF ValuesStep, GoesOn
<1>3. CASE i <= Len(buf) /\ buf[i] \notin Text
  <2> DEFINE r == FindMultiLwsEnd(From(buf, i))
  <2>1. buf[i] = "ctl" \/ ~(r > 0)
    BY <1>3 DEF GoesOn
  <2>2. ~(r > 0) => r < 0 \/ r = 0
    <3> HIDE DEF r
    <3>1. r \in Int
      BY DEF r
    <3> QED
      BY <3>1
  <2>3. \A x : ValuesStep(buf, i, x) = IF buf[i] = "ctl" THEN {}
                                      ELSE IF r < 0 THEN {} ELSE IF r = 0 THEN {<< >>} ELSE x
    <3>1. ~(i > Len(buf))
      BY <1>3
    <3> QED
      BY <1>3, <3>1, Zenon DEF ValuesStep
  <2> HIDE DEF r
  <2> QED
    BY <2>1, <2>2, <2>3
<1> QED
  BY <1>1, <1>2, <1>3

\* One value in front of others.
LEMMA Prepend ==
    ASSUME NEW S, NEW x \in S, NEW rest \in Seq(S)
    PROVE  <<x>> \o rest \in Seq(S)
OBVIOUS

LEMMA ValuesType ==
    ASSUME NEW buf \in Seq(Chars), NEW i \in 1..Len(buf) + 1, NEW v \in SUBSET Lists
    PROVE  ValuesStep(buf, i, v) \in SUBSET Lists
<1> DEFINE r == EndOf(Text, From(buf, i))
           m == FindMultiLwsEnd(From(buf, i))
           some == {<<SubSeq(buf, i, i + r - 1)>> \o rest : rest \in v}
<1>0. Len(buf) \in Nat /\ i \in Nat /\ i >= 1
  OBVIOUS
<1>1. r # None => some \in SUBSET Lists
  <2> SUFFICES ASSUME r # None, NEW rest \in v
               PROVE  <<SubSeq(buf, i, i + r - 1)>> \o rest \in Lists
    OBVIOUS
  <2>1. r \in 0..Len(buf) - i
    BY EndOfFound
  <2> HIDE DEF r
  <2>2. i \in 1..Len(buf) + 1 /\ i + r - 1 \in 0..Len(buf)
    BY <1>0, <2>1
  <2>3. SubSeq(buf, i, i + r - 1) \in Seq(Chars)
    BY <2>2
  <2>4. rest \in Seq(Strings) /\ SubSeq(buf, i, i + r - 1) \in Strings
    BY <2>3 DEF Lists, Strings
  <2> QED
    BY <2>4, Prepend DEF Lists
<1>2. {<< >>} \in SUBSET Lists
  BY DEF Lists
<1>3. ValuesStep(buf, i, v) = IF i > Len(buf) THEN {}
                              ELSE IF buf[i] \in Text THEN IF r = None THEN {} ELSE some
                              ELSE IF buf[i] = "ctl" THEN {}
                              ELSE IF m < 0 THEN {} ELSE IF m = 0 THEN {<< >>} ELSE v
  BY Zenon DEF ValuesStep
<1> HIDE DEF r, m, some
<1> QED
  BY <1>1, <1>2, <1>3

\* What Values is worked out by.
AreLists(f, buf) ==
    \A i \in 1..Len(buf) + 1 :
        f[i] \in SUBSET Lists /\ f[i] = ValuesStep(buf, i, f[NextValue(buf, i)])

LEMMA ValuesDefined ==
    ASSUME NEW buf \in Seq(Chars)
    PROVE  \E f : AreLists(f, buf) /\ \A i \in 1..Len(buf) + 1 : Values(buf, i) = f[i]
<1> DEFINE N == Len(buf) + 1
           V == SUBSET Lists
           goes(i) == GoesOn(buf, i)
           to(i) == NextValue(buf, i)
           is(i, v) == ValuesStep(buf, i, v)
           next == [i \in 1..N |-> IF goes(i) THEN to(i) ELSE 0]
           step == [i \in 1..N |-> [v \in V |-> is(i, v)]]
           Rec(f) == f = [i \in 1..N |-> is(i, f[to(i)])]
<1>0. Len(buf) \in Nat /\ N \in Nat
  OBVIOUS
<1>1. \A i \in 1..N : goes(i) => to(i) \in i + 1..N
  BY NextValueIs
<1>2. \A i \in 1..N, v \in V : is(i, v) \in V
  BY ValuesType
<1>3. \A i \in 1..N : ~goes(i) => \A v, w : is(i, v) = is(i, w)
  <2> SUFFICES ASSUME NEW i \in 1..N, ~goes(i), NEW v, NEW w PROVE is(i, v) = is(i, w)
    OBVIOUS
  <2>1. FindMultiLwsEnd(From(buf, i)) \in {None, Invalid}
        \/ FindMultiLwsEnd(From(buf, i)) \in 0..Len(buf) - i + 1
    BY MultiBound
  <2>2. FindMultiLwsEnd(From(buf, i)) \in Int /\ i \in Int /\ Len(buf) \in Int
    BY <1>0, <2>1 DEF None, Invalid
  <2> QED
    BY <2>2, ValuesEnd
<1>4. \A j \in 1..N : Values(buf, j) = (CHOOSE f : Rec(f))[j]
  <2> SUFFICES ASSUME NEW j \in 1..N PROVE Values(buf, j) = (CHOOSE f : Rec(f))[j]
    OBVIOUS
  <2>1. ASSUME NEW f, NEW i \in 1..N
        PROVE  is(i, f[to(i)]) =
                 IF i > Len(buf) THEN {}
                 ELSE IF buf[i] \in Text
                 THEN LET end == EndOf(Text, From(buf, i)) IN
                      IF end = None THEN {}
                      ELSE {<<SubSeq(buf, i, i + end - 1)>> \o rest : rest \in f[i + end]}
                 ELSE IF buf[i] = "ctl" THEN {}
                 ELSE LET end == FindMultiLwsEnd(From(buf, i)) IN
                      IF end < 0 THEN {} ELSE IF end = 0 THEN {<< >>} ELSE f[i + end]
    <3>1. CASE buf[i] \in Text
      <4>1. to(i) = i + EndOf(Text, From(buf, i))
        BY <3>1 DEF NextValue
      <4> HIDE DEF to
      <4> QED
        BY <3>1, <4>1 DEF ValuesStep
    <3>2. CASE buf[i] \notin Text
      <4>1. to(i) = i + FindMultiLwsEnd(From(buf, i))
        BY <3>2 DEF NextValue
      <4> HIDE DEF to
      <4> QED
        BY <3>2, <4>1 DEF ValuesStep
    <3> QED
      BY <3>1, <3>2
  <2> DEFINE body(f, i) ==
                 IF i > Len(buf) THEN {}
                 ELSE IF buf[i] \in Text
                 THEN LET end == EndOf(Text, From(buf, i)) IN
                      IF end = None THEN {}
                      ELSE {<<SubSeq(buf, i, i + end - 1)>> \o rest : rest \in f[i + end]}
                 ELSE IF buf[i] = "ctl" THEN {}
                 ELSE LET end == FindMultiLwsEnd(From(buf, i)) IN
                      IF end < 0 THEN {} ELSE IF end = 0 THEN {<< >>} ELSE f[i + end]
  <2>2. Values(buf, j) = (CHOOSE f : f = [i \in 1..N |-> body(f, i)])[j]
    BY Zenon DEF Values
  <2>3. \A f : [i \in 1..N |-> body(f, i)] = [i \in 1..N |-> is(i, f[to(i)])]
    <3>1. \A f : \A i \in 1..N : is(i, f[to(i)]) = body(f, i)
      BY <2>1
    <3> HIDE DEF body, is, to, N
    <3> QED
      BY <3>1
  <2>4. \A f : f = [i \in 1..N |-> body(f, i)] <=> Rec(f)
    <3> HIDE DEF body, is, to, N
    <3> QED
      BY <2>3
  <2>5. (CHOOSE f : f = [i \in 1..N |-> body(f, i)]) = (CHOOSE f : Rec(f))
    <3> HIDE DEF body, Rec, N
    <3> QED
      BY <2>4
  <2> QED
    BY <2>2, <2>5
<1> HIDE DEF goes, to, is, V
<1>5. step \in [1..N -> [V -> V]] /\ \A i \in 1..N, v \in V : step[i][v] = is(i, v)
  BY <1>2
<1>6. /\ next \in [1..N -> Nat]
      /\ \A i \in 1..N : goes(i) => next[i] = to(i)
  <2>1. \A i \in 1..N : (IF goes(i) THEN to(i) ELSE 0) \in Nat
    BY <1>0, <1>1
  <2> HIDE DEF N
  <2> QED
    BY <2>1
<1>7. {} \in V
  BY DEF V
<1> HIDE DEF N, next, step
<1>8. PICK f : IsDescent(f, 1, N, V, {}, next, step)
  BY <1>0, <1>5, <1>6, <1>7, Descent
<1>9. f \in [1..N -> V] /\ \A i \in 1..N : f[i] = is(i, f[to(i)])
  <2>1. f \in [1..N -> V]
    BY <1>8 DEF IsDescent
  <2>2. ASSUME NEW i \in 1..N PROVE f[i] = is(i, f[to(i)])
    <3>1. f[i] = step[i][IF next[i] \in i + 1..N THEN f[next[i]] ELSE {}]
      BY <1>8 DEF IsDescent
    <3>2. CASE goes(i)
      <4>1. next[i] = to(i) /\ next[i] \in i + 1..N
        BY <1>1, <1>6, <3>2
      <4>2. f[i] = step[i][f[to(i)]]
        BY <3>1, <4>1
      <4>3. f[to(i)] \in V
        <5>1. to(i) \in 1..N
          BY <1>0, <4>1
        <5> QED
          BY <2>1, <5>1
      <4> QED
        BY <1>5, <4>2, <4>3
    <3>3. CASE ~goes(i)
      <4>1. \A v, w : is(i, v) = is(i, w)
        BY <1>3, <3>3
      <4>2. (IF next[i] \in i + 1..N THEN f[next[i]] ELSE {}) \in V
        <5>1. next[i] \in i + 1..N => next[i] \in 1..N
          BY <1>0
        <5> QED
          BY <1>7, <2>1, <5>1
      <4>3. f[i] = is(i, IF next[i] \in i + 1..N THEN f[next[i]] ELSE {})
        BY <1>5, <3>1, <4>2
      <4> QED
        BY <4>1, <4>3
    <3> QED
      BY <3>2, <3>3
  <2> QED
    BY <2>1, <2>2
<1>10. Rec(f)
  <2>1. f = [i \in 1..N |-> f[i]]
    BY <1>9
  <2> QED
    BY <1>9, <2>1
<1> DEFINE g == CHOOSE h : Rec(h)
<1>11. Rec(g)
  BY <1>10
<1> HIDE DEF g
<1>12. \A i \in 1..N : g[i] = is(i, g[to(i)])
  BY <1>11
<1>13. \A i \in 1..N : g[i] \in V
  <2> DEFINE S == {k \in Nat : \E i \in 1..N : k = N - i /\ g[i] \notin V}
  <2> SUFFICES ASSUME NEW j \in 1..N, g[j] \notin V PROVE FALSE
    OBVIOUS
  <2>1. N - j \in S
    BY <1>0
  <2>2. PICK k \in S : \A m \in S : k <= m
    <3>1. S \in SUBSET Nat /\ S # {}
      BY <2>1
    <3> HIDE DEF S
    <3> QED
      BY <3>1, LeastNatural
  <2>3. PICK i \in 1..N : k = N - i /\ g[i] \notin V
    BY <2>2
  <2>4. g[i] = is(i, g[to(i)])
    BY <1>12
  <2>5. CASE goes(i)
    <3> DEFINE n == to(i)
    <3>1. n \in i + 1..N
      BY <1>1, <2>5
    <3> HIDE DEF n
    <3>2. n \in 1..N /\ N - n \in Nat /\ N - n < k
      BY <1>0, <2>3, <3>1
    <3>3. N - n \notin S
      <4> SUFFICES ASSUME N - n \in S PROVE FALSE
        OBVIOUS
      <4>1. k <= N - n /\ k \in Nat
        BY <2>2
      <4> HIDE DEF S
      <4> QED
        BY <3>2, <4>1
    <3>4. g[n] \in V
      BY <3>2, <3>3
    <3>5. is(i, g[n]) \in V
      BY <1>2, <3>4
    <3> QED
      BY <2>3, <2>4, <3>5 DEF n
  <2>6. CASE ~goes(i)
    <3>1. is(i, g[to(i)]) = is(i, {})
      BY <1>3, <2>6
    <3>2. is(i, {}) \in V
      BY <1>2, <1>7
    <3> QED
      BY <2>3, <2>4, <3>1, <3>2
  <2> QED
    BY <2>5, <2>6
<1>14. AreLists(g, buf)
  BY <1>12, <1>13 DEF AreLists, N, V, is, to
<1>15. \A i \in 1..N : Values(buf, i) = g[i]
  BY <1>4 DEF g
<1> QED
  BY <1>14, <1>15 DEF N

-----------------------------------------------------------------------------
(* The values of a line. *)

\* In front of each control there is a bare NL.
Clean(buf, i, e) ==
    \A k \in i..e : buf[k] = "ctl" => \E j \in i..k : buf[j] = "nl" /\ buf[j - 1] # "cr"

\* What is neither control nor bare NL may be left out.
LEMMA CleanSkip ==
    ASSUME NEW buf, NEW e \in Nat, NEW i \in Nat, NEW k \in i..e,
           \A j \in i..k - 1 : buf[j] # "ctl" /\ (buf[j] = "nl" => buf[j - 1] = "cr")
    PROVE  Clean(buf, i, e) <=> Clean(buf, k, e)
<1>1. ASSUME Clean(buf, i, e), NEW m \in k..e, buf[m] = "ctl"
      PROVE  \E j \in k..m : buf[j] = "nl" /\ buf[j - 1] # "cr"
  <2>1. m \in i..e
    OBVIOUS
  <2>2. PICK j \in i..m : buf[j] = "nl" /\ buf[j - 1] # "cr"
    BY <1>1, <2>1 DEF Clean
  <2>3. j \notin i..k - 1
    BY <2>2
  <2>4. j \in k..m
    BY <2>3
  <2> QED
    BY <2>2, <2>4
<1>2. ASSUME Clean(buf, k, e), NEW m \in i..e, buf[m] = "ctl"
      PROVE  \E j \in i..m : buf[j] = "nl" /\ buf[j - 1] # "cr"
  <2>1. m \notin i..k - 1
    BY <1>2
  <2>2. m \in k..e
    BY <2>1
  <2>3. PICK j \in k..m : buf[j] = "nl" /\ buf[j - 1] # "cr"
    BY <1>2, <2>2 DEF Clean
  <2>4. j \in i..m
    OBVIOUS
  <2> QED
    BY <2>3, <2>4
<1> QED
  BY <1>1, <1>2 DEF Clean

\* How the values go on from a place in a line.
LEMMA ValuesAt ==
    ASSUME NEW buf \in Seq(Chars), NEW e, IsLine(buf, e), NEW i \in 2..e - 1, Placed(buf, i)
    PROVE  \/ /\ buf[i] = "ctl" /\ \A v : ValuesStep(buf, i, v) = {}
           \/ /\ buf[i] = "nl" /\ buf[i - 1] # "cr" /\ \A v : ValuesStep(buf, i, v) = {<< >>}
           \/ /\ buf[i] = "cr" /\ i = e - 1 /\ \A v : ValuesStep(buf, i, v) = {<< >>}
           \/ \E k \in i + 1..e - 1 :
                  /\ NextValue(buf, i) = k /\ Placed(buf, k)
                  /\ \/ /\ \A j \in i..k - 1 : buf[j] \in Text
                        /\ \A v : ValuesStep(buf, i, v)
                                    = {<<SubSeq(buf, i, k - 1)>> \o rest : rest \in v}
                     \/ /\ IsGap(buf, i, k)
                        /\ \A v : ValuesStep(buf, i, v) = v
<1>1. /\ e \in Nat /\ e >= 3 /\ e <= Len(buf) - 1 /\ Len(buf) \in Nat
  BY LineFacts
<1>2. /\ i \in 1..Len(buf) + 1 /\ i \in Nat /\ i >= 2 /\ i <= e - 1 /\ ~(i > Len(buf))
      /\ buf[i] \in Chars
  <2>1. i \in 1..Len(buf) /\ i \in 1..Len(buf) + 1 /\ i \in Nat /\ i >= 2 /\ i <= e - 1 /\ ~(i > Len(buf))
    BY <1>1
  <2>2. buf[i] \in Chars
    BY <2>1
  <2> QED
    BY <2>1, <2>2
<1>3. CASE buf[i] \in Text
  <2>0. "cr" \notin Text
    BY DEF Text
  <2>1. PICK r \in 0..(e - 1) - i :
            /\ EndOf(Text, From(buf, i)) = r /\ buf[i + r] \notin Text
            /\ \A j \in i..(i + r) - 1 : buf[j] \in Text
    BY <2>0, BlanksInLine
  <2>2. r # 0
    <3> SUFFICES ASSUME r = 0 PROVE FALSE
      OBVIOUS
    <3>1. i + r = i
      BY <1>2
    <3> QED
      BY <1>3, <2>1, <3>1
  <2> DEFINE k == i + r
  <2>3. k \in i + 1..e - 1 /\ NextValue(buf, i) = k /\ i + r - 1 = k - 1
        /\ k - 1 \in i..k - 1 /\ r # None
    <3>1. NextValue(buf, i) = k
      BY <1>3, <2>1 DEF NextValue
    <3> QED
      BY <1>1, <1>2, <2>2, <3>1 DEF None
  <2>4. \A v : ValuesStep(buf, i, v) = {<<SubSeq(buf, i, k - 1)>> \o rest : rest \in v}
    <3> SUFFICES ASSUME NEW v
                 PROVE  ValuesStep(buf, i, v) = {<<SubSeq(buf, i, k - 1)>> \o rest : rest \in v}
      OBVIOUS
    <3>1. ValuesStep(buf, i, v)
            = LET end == EndOf(Text, From(buf, i)) IN
              IF end = None THEN {} ELSE {<<SubSeq(buf, i, i + end - 1)>> \o rest : rest \in v}
      BY <1>2, <1>3 DEF ValuesStep
    <3>2. ValuesStep(buf, i, v) = {<<SubSeq(buf, i, i + r - 1)>> \o rest : rest \in v}
      BY <2>1, <2>3, <3>1
    <3>3. i + r - 1 = k - 1
      BY <2>3
    <3> HIDE DEF k
    <3> QED
      BY <3>2, <3>3
  <2>5. Placed(buf, k)
    <3>1. buf[k - 1] \in Text
      BY <2>1, <2>3
    <3> QED
      BY <2>0, <3>1 DEF Placed
  <2>6. \A j \in i..k - 1 : buf[j] \in Text
    BY <2>1
  <2> HIDE DEF k
  <2> QED
    BY <2>3, <2>4, <2>5, <2>6
<1>4. CASE buf[i] = "ctl"
  <2>1. buf[i] \notin Text
    BY <1>4 DEF Text
  <2> QED
    BY <1>2, <1>4, <2>1 DEF ValuesStep
<1>5. CASE buf[i] \notin Text /\ buf[i] # "ctl"
  <2>1. PICK m \in 0..(e - 1) - i :
               /\ FindMultiLwsEnd(From(buf, i)) = m
               /\ buf[i + m] \notin Lws /\ (buf[i + m] = "cr" => i + m = e - 1)
               /\ Placed(buf, i + m) /\ IsGap(buf, i, i + m)
    BY MultiInLine
  <2>2. \A v : ValuesStep(buf, i, v) = IF m < 0 THEN {} ELSE IF m = 0 THEN {<< >>} ELSE v
    BY <1>2, <1>5, <2>1 DEF ValuesStep
  <2>3. CASE m = 0
    <3>1. i + m = i
      BY <1>2, <2>3
    <3>2. buf[i] \notin Lws /\ (buf[i] = "cr" => i = e - 1)
      BY <2>1, <3>1
    <3>3. buf[i] = "cr" \/ buf[i] = "nl"
      BY <1>2, <1>5, <3>2 DEF Chars, Text, Lws
    <3>4. \A v : ValuesStep(buf, i, v) = {<< >>}
      BY <2>2, <2>3
    <3>5. buf[i] = "nl" => buf[i - 1] # "cr"
      BY DEF Placed
    <3> QED
      BY <3>2, <3>3, <3>4, <3>5
  <2>4. CASE m # 0
    <3> DEFINE k == i + m
    <3>1. k \in i + 1..e - 1
      BY <1>1, <1>2, <2>4
    <3>2. NextValue(buf, i) = k
      BY <1>5, <2>1 DEF NextValue
    <3>3. \A v : ValuesStep(buf, i, v) = v
      <4>1. ~(m < 0) /\ ~(m = 0)
        BY <2>4
      <4> QED
        BY <2>2, <4>1
    <3>4. Placed(buf, k) /\ IsGap(buf, i, k)
      BY <2>1
    <3> HIDE DEF k
    <3> QED
      BY <3>1, <3>2, <3>3, <3>4
  <2> QED
    BY <2>3, <2>4
<1> QED
  BY <1>3, <1>4, <1>5

\* There are values, unless a control is in them.
LEMMA ValuesInLine ==
    ASSUME NEW buf \in Seq(Chars), NEW e, IsLine(buf, e), NEW i \in 2..e - 1, Placed(buf, i)
    PROVE  Values(buf, i) # {} <=> Clean(buf, i, e)
<1>1. /\ e \in Nat /\ e >= 3 /\ e <= Len(buf) - 1 /\ Len(buf) \in Nat
      /\ buf[e - 1] = "cr" /\ buf[e] = "nl"
  BY LineFacts
<1>2. PICK f : AreLists(f, buf) /\ \A j \in 1..Len(buf) + 1 : Values(buf, j) = f[j]
  BY ValuesDefined
<1> DEFINE Good(p) == Placed(buf, p) => (f[p] # {} <=> Clean(buf, p, e))
           S == {k \in Nat : \E p \in 2..e - 1 : k = (e - 1) - p /\ ~Good(p)}
<1>3. \A p \in 2..e - 1 : Good(p)
  <2> SUFFICES ASSUME NEW p0 \in 2..e - 1, ~Good(p0) PROVE FALSE
    OBVIOUS
  <2>1. (e - 1) - p0 \in S
    <3>1. (e - 1) - p0 \in Nat
      BY <1>1
    <3> HIDE DEF Good
    <3> QED
      BY <3>1
  <2>2. PICK k \in S : \A m \in S : k <= m
    <3>1. S \in SUBSET Nat /\ S # {}
      BY <2>1
    <3> HIDE DEF S
    <3> QED
      BY <3>1, LeastNatural
  <2>3. PICK p \in 2..e - 1 : k = (e - 1) - p /\ ~Good(p)
    <3> HIDE DEF Good
    <3> QED
      BY <2>2
  <2>4. Placed(buf, p) /\ ~(f[p] # {} <=> Clean(buf, p, e))
    BY <2>3
  <2>5. p \in Nat /\ p >= 2 /\ p <= e - 1 /\ p \in 1..Len(buf) + 1
    BY <1>1
  <2>6. f[p] = ValuesStep(buf, p, f[NextValue(buf, p)])
    BY <1>2, <2>5 DEF AreLists
  <2>7. CASE buf[p] = "ctl" /\ \A v : ValuesStep(buf, p, v) = {}
    <3>1. f[p] = {}
      BY <2>6, <2>7
    <3>2. ~Clean(buf, p, e)
      <4>1. p \in p..e /\ \A j \in p..p : j = p
        BY <1>1, <2>5
      <4>2. buf[p] # "nl"
        BY <2>7
      <4> QED
        BY <2>7, <4>1, <4>2 DEF Clean
    <3> QED
      BY <2>4, <3>1, <3>2
  <2>8. CASE buf[p] = "nl" /\ buf[p - 1] # "cr" /\ \A v : ValuesStep(buf, p, v) = {<< >>}
    <3>1. f[p] # {}
      BY <2>6, <2>8
    <3>2. Clean(buf, p, e)
      <4>1. \A m \in p..e : p \in p..m
        BY <2>5
      <4> QED
        BY <2>8, <4>1 DEF Clean
    <3> QED
      BY <2>4, <3>1, <3>2
  <2>9. CASE buf[p] = "cr" /\ p = e - 1 /\ \A v : ValuesStep(buf, p, v) = {<< >>}
    <3>1. f[p] # {}
      BY SMTT(30), <2>6, <2>9
    <3>2. Clean(buf, p, e)
      <4>1. \A m \in p..e : m = e - 1 \/ m = e
        BY <1>1, <2>9
      <4>2. \A m \in p..e : buf[m] # "ctl"
        BY <1>1, <4>1
      <4> QED
        BY <4>2 DEF Clean
    <3> QED
      BY <2>4, <3>1, <3>2
  <2>10. ASSUME NEW n \in p + 1..e - 1, NextValue(buf, p) = n, Placed(buf, n),
                \/ /\ \A j \in p..n - 1 : buf[j] \in Text
                   /\ \A v : ValuesStep(buf, p, v)
                               = {<<SubSeq(buf, p, n - 1)>> \o rest : rest \in v}
                \/ /\ IsGap(buf, p, n)
                   /\ \A v : ValuesStep(buf, p, v) = v
         PROVE  FALSE
    <3>1. n \in 2..e - 1 /\ (e - 1) - n \in Nat /\ (e - 1) - n < k /\ n \in p..e
      BY <1>1, <2>3, <2>5
    <3>2. (e - 1) - n \notin S
      <4> SUFFICES ASSUME (e - 1) - n \in S PROVE FALSE
        OBVIOUS
      <4>1. k <= (e - 1) - n /\ k \in Nat
        BY <2>2
      <4> HIDE DEF S
      <4> QED
        BY <3>1, <4>1
    <3>3. Good(n)
      <4> HIDE DEF Good
      <4> QED
        BY <3>1, <3>2
    <3>4. f[n] # {} <=> Clean(buf, n, e)
      BY <2>10, <3>3
    <3>5. f[p] = ValuesStep(buf, p, f[n])
      BY <2>6, <2>10
    <3>6. f[p] # {} <=> f[n] # {}
      <4>1. CASE \A v : ValuesStep(buf, p, v) = {<<SubSeq(buf, p, n - 1)>> \o rest : rest \in v}
        <5> DEFINE first == <<SubSeq(buf, p, n - 1)>>
        <5>1. f[p] = {first \o rest : rest \in f[n]}
          BY <3>5, <4>1
        <5> HIDE DEF first
        <5> QED
          BY <5>1
      <4>2. CASE \A v : ValuesStep(buf, p, v) = v
        BY <3>5, <4>2
      <4> QED
        BY <2>10, <4>1, <4>2
    <3>7. \A j \in p..n - 1 : buf[j] # "ctl" /\ (buf[j] = "nl" => buf[j - 1] = "cr")
      <4>1. CASE \A j \in p..n - 1 : buf[j] \in Text
        BY <4>1 DEF Text
      <4>2. CASE IsGap(buf, p, n)
        BY <4>2 DEF IsGap, Blanks
      <4> QED
        BY <2>10, <4>1, <4>2
    <3>8. Clean(buf, p, e) <=> Clean(buf, n, e)
      BY <1>1, <2>5, <3>1, <3>7, CleanSkip
    <3> QED
      BY <2>4, <3>4, <3>6, <3>8
  <2> QED
    BY <2>4, <2>7, <2>8, <2>9, <2>10, ValuesAt
<1>4. Good(i) /\ i \in 1..Len(buf) + 1
  BY <1>1, <1>3
<1>5. Values(buf, i) = f[i]
  BY <1>2, <1>4
<1> HIDE DEF S
<1> QED
  BY <1>4, <1>5

-----------------------------------------------------------------------------
(* The line as a header. *)

\* A line is a header if there is a colon behind its name and its values are clean.
IsHeader(buf, e, colon) ==
    /\ colon \in 2..e - 2 /\ buf[colon] = ":"
    /\ \A i \in 1..colon - 1 : buf[i] \in Token
    /\ Clean(buf, colon + 1, e)

LEMMA FromAll ==
    ASSUME NEW buf \in Seq(Chars)
    PROVE  From(buf, 1) = buf
<1>1. 1 \in 1..Len(buf) + 1 /\ Len(buf) - 1 + 1 = Len(buf)
  OBVIOUS
<1>2. /\ From(buf, 1) \in Seq(Chars) /\ Len(From(buf, 1)) = Len(buf)
      /\ \A k \in 1..Len(buf) : From(buf, 1)[k] = buf[(1 + k) - 1]
  BY <1>1, FromIs
<1>3. \A k \in 1..Len(buf) : (1 + k) - 1 = k
  OBVIOUS
<1>4. \A k \in 1..Len(buf) : From(buf, 1)[k] = buf[k]
  BY <1>2, <1>3
<1> QED
  BY <1>2, <1>4, StringsEqual

\* Where the name of a header ends, and where its values begin.
LEMMA NameEnd ==
    ASSUME NEW buf \in Seq(Chars), NEW e, IsLine(buf, e)
    PROVE  \E name \in 0..e - 2 :
               /\ EndOf(Token, buf) = name /\ buf[name + 1] \notin Token
               /\ \A j \in 1..name : buf[j] \in Token
<1>1. /\ e \in Nat /\ e >= 3 /\ e <= Len(buf) - 1 /\ Len(buf) \in Nat /\ buf[e - 1] = "cr"
  BY LineFacts
<1>2. 1 \in 1..Len(buf) + 1 /\ e - 1 \in 1..Len(buf)
  BY <1>1
<1>3. buf[e - 1] \notin Token
  BY <1>1 DEF Token
<1>4. PICK r \in 0..Len(buf) - 1 :
          /\ EndOf(Token, buf) = r /\ buf[1 + r] \notin Token
          /\ \A j \in 1..(1 + r) - 1 : buf[j] \in Token
  BY <1>2, <1>3, FromAll, EndOfFound
<1>5. e - 1 \notin 1..(1 + r) - 1
  BY <1>3, <1>4
<1>6. r \in 0..e - 2 /\ 1 + r = r + 1 /\ (1 + r) - 1 = r
  BY <1>1, <1>5
<1> QED
  BY <1>4, <1>6

LEMMA HeaderIs ==
    ASSUME NEW buf \in Seq(Chars), NEW e, IsLine(buf, e)
    PROVE  ParseRequestHeader(buf) # {} <=> \E colon : IsHeader(buf, e, colon)
<1>1. /\ e \in Nat /\ e >= 3 /\ e <= Len(buf) - 1 /\ Len(buf) \in Nat /\ buf[e - 1] = "cr"
  BY LineFacts
<1>2. PICK name \in 0..e - 2 :
          /\ EndOf(Token, buf) = name /\ buf[name + 1] \notin Token
          /\ \A j \in 1..name : buf[j] \in Token
  BY NameEnd
<1> DEFINE lws == FindMultiLwsEnd(From(buf, name + 2))
           vs == Values(buf, name + lws + 2)
<1>3. ParseRequestHeader(buf)
        = IF name <= 0 \/ name + 1 >= Len(buf) THEN {}
          ELSE IF buf[name + 1] # ":" \/ lws < 0 THEN {}
          ELSE {[name |-> SubSeq(buf, 1, name), values |-> v] : v \in vs}
  BY <1>2 DEF ParseRequestHeader
<1>4. \A colon : IsHeader(buf, e, colon) => colon = name + 1
  <2> SUFFICES ASSUME NEW colon, IsHeader(buf, e, colon) PROVE colon = name + 1
    OBVIOUS
  <2>1. colon \in 2..e - 2 /\ buf[colon] = ":" /\ \A i \in 1..colon - 1 : buf[i] \in Token
    BY DEF IsHeader
  <2>2. colon \notin 1..name
    BY <1>2, <2>1 DEF Token
  <2>3. name + 1 \notin 1..colon - 1
    BY <1>2, <2>1
  <2> QED
    BY <1>1, <2>1, <2>2, <2>3
<1>5. CASE ~(name > 0 /\ buf[name + 1] = ":")
  <2>1. ParseRequestHeader(buf) = {}
    BY <1>3, <1>5
  <2>2. \A colon : ~IsHeader(buf, e, colon)
    <3> SUFFICES ASSUME NEW colon, IsHeader(buf, e, colon) PROVE FALSE
      OBVIOUS
    <3>1. colon \in 2..e - 2 /\ buf[colon] = ":" /\ colon = name + 1
      BY <1>4 DEF IsHeader
    <3> QED
      BY <1>5, <3>1
  <2> QED
    BY <2>1, <2>2
<1>6. CASE name > 0 /\ buf[name + 1] = ":"
  <2>1. name + 1 # e - 1
    BY <1>1, <1>6
  <2>2. /\ name + 1 \in 2..e - 2 /\ name + 2 \in 2..e - 1 /\ (name + 2) - 1 = name + 1
        /\ ~(name <= 0 \/ name + 1 >= Len(buf)) /\ (name + 1) + 1 = name + 2
        /\ (name + 1) - 1 = name /\ name + 2 \in Nat
    BY <1>1, <1>6, <2>1
  <2>3. Placed(buf, name + 2)
    BY <1>6, <2>2 DEF Placed
  <2>4. PICK m \in 0..(e - 1) - (name + 2) :
               /\ lws = m
               /\ Placed(buf, (name + 2) + m) /\ IsGap(buf, name + 2, (name + 2) + m)
    BY <2>2, <2>3, MultiInLine
  <2>5. /\ (name + 2) + m \in 2..e - 1 /\ name + m + 2 = (name + 2) + m /\ ~(m < 0)
        /\ (name + 2) + m \in name + 2..e
    BY <1>1, <2>2
  <2> DEFINE i == (name + 2) + m
  <2>6. Values(buf, i) # {} <=> Clean(buf, i, e)
    BY <2>4, <2>5, ValuesInLine
  <2>7. Clean(buf, name + 2, e) <=> Clean(buf, i, e)
    <3>1. \A j \in name + 2..i - 1 : buf[j] # "ctl" /\ (buf[j] = "nl" => buf[j - 1] = "cr")
      BY <2>4 DEF IsGap, Blanks
    <3> QED
      BY <1>1, <2>2, <2>5, <3>1, CleanSkip
  <2>8. vs = Values(buf, i)
    BY <2>4, <2>5
  <2>9. ~(buf[name + 1] # ":" \/ lws < 0)
    BY <1>6, <2>4, <2>5
  <2>10. ParseRequestHeader(buf) = {[name |-> SubSeq(buf, 1, name), values |-> v] : v \in vs}
    <3> HIDE DEF lws, vs
    <3> QED
      BY <1>3, <2>2, <2>9
  <2>11. ParseRequestHeader(buf) # {} <=> vs # {}
    <3> HIDE DEF vs
    <3> QED
      BY <2>10
  <2>12. IsHeader(buf, e, name + 1) <=> Clean(buf, name + 2, e)
    BY <1>2, <1>6, <2>2 DEF IsHeader
  <2>13. (\E colon : IsHeader(buf, e, colon)) <=> IsHeader(buf, e, name + 1)
    BY <1>4
  <2> HIDE DEF vs, i
  <2> QED
    BY <2>6, <2>7, <2>8, <2>11, <2>12, <2>13
<1> QED
  BY <1>5, <1>6

IsColon(first, last, colon) ==
    /\ colon \in first + 1..last - 2 /\ input[colon] = ":"
    /\ \A i \in first..colon - 1 : input[i] \in Token
    /\ \A i \in colon + 1..last : input[i] = "ctl" => \E j \in colon + 1..i : BareNl(j)

\* What is in a buffer from "i" to "e" is in the input, "c" further on.
LEMMA Shifted ==
    ASSUME NEW c \in Nat, NEW i \in Nat, NEW e \in Nat
    PROVE  /\ \A j \in i..e : c + j \in c + i..c + e
           /\ \A k \in c + i..c + e : k - c \in i..e /\ c + (k - c) = k /\ k \in Nat /\ k - c \in Int
OBVIOUS

LEMMA CleanInInput ==
    ASSUME TypeInv, NEW e \in Nat, e <= Len(Buffer), NEW i \in Nat, i >= 2
    PROVE  Clean(Buffer, i, e)
             <=> \A k \in consumed + i..consumed + e :
                     input[k] = "ctl" => \E j \in consumed + i..k : BareNl(j)
<1>0. consumed \in Nat
  BY TypeFacts
<1>1. \A j \in i..e : /\ j \in 1..Len(Buffer) /\ j - 1 \in 1..Len(Buffer) /\ j \in Nat
                      /\ consumed + j # 1 /\ (consumed + j) - 1 = consumed + (j - 1)
  BY <1>0
<1>2. \A j \in i..e : Buffer[j] = input[consumed + j] /\ Buffer[j - 1] = input[(consumed + j) - 1]
  BY <1>1, BufferIs
<1>3. \A j \in i..e : BareNl(consumed + j) <=> (Buffer[j] = "nl" /\ Buffer[j - 1] # "cr")
  BY <1>1, <1>2 DEF BareNl
<1>4. ASSUME Clean(Buffer, i, e), NEW k \in consumed + i..consumed + e, input[k] = "ctl"
      PROVE  \E j \in consumed + i..k : BareNl(j)
  <2>1. k - consumed \in i..e /\ consumed + (k - consumed) = k
    BY <1>0, Shifted
  <2>2. Buffer[k - consumed] = "ctl"
    BY <1>2, <1>4, <2>1
  <2>3. PICK j \in i..k - consumed : Buffer[j] = "nl" /\ Buffer[j - 1] # "cr"
    BY <1>4, <2>1, <2>2 DEF Clean
  <2>4. j \in i..e /\ consumed + j \in consumed + i..k
    BY <1>0, <2>1
  <2> QED
    BY <1>3, <2>3, <2>4
<1>5. ASSUME \A k \in consumed + i..consumed + e :
                 input[k] = "ctl" => \E j \in consumed + i..k : BareNl(j),
             NEW k \in i..e, Buffer[k] = "ctl"
      PROVE  \E j \in i..k : Buffer[j] = "nl" /\ Buffer[j - 1] # "cr"
  <2>1. consumed + k \in consumed + i..consumed + e
    BY <1>0, Shifted
  <2>2. PICK j \in consumed + i..consumed + k : BareNl(j)
    BY <1>2, <1>5, <2>1
  <2>3. k \in Nat
    OBVIOUS
  <2>4. j - consumed \in i..k /\ consumed + (j - consumed) = j
    BY <1>0, <2>3, Shifted
  <2>5. j - consumed \in i..e
    BY <2>4
  <2> QED
    BY <1>3, <2>2, <2>4, <2>5
<1> QED
  BY <1>4, <1>5 DEF Clean

LEMMA ColonInInput ==
    ASSUME TypeInv, NEW e, IsLine(Buffer, e), NEW colon \in Nat
    PROVE  IsHeader(Buffer, e, colon) <=> IsColon(consumed + 1, consumed + e, consumed + colon)
<1>0. consumed \in Nat
  BY TypeFacts
<1>1. Buffer \in Seq(Chars)
  BY BufferIs
<1>2. e \in Nat /\ e >= 3 /\ e <= Len(Buffer) - 1 /\ Len(Buffer) \in Nat
  BY <1>1, LineFacts
<1>3. colon \in 2..e - 2
        <=> consumed + colon \in (consumed + 1) + 1..(consumed + e) - 2
  BY <1>0, <1>2
<1>4. ASSUME colon \in 2..e - 2
      PROVE  IsHeader(Buffer, e, colon) <=> IsColon(consumed + 1, consumed + e, consumed + colon)
  <2>1. Buffer[colon] = input[consumed + colon]
    <3>1. colon \in 1..Len(Buffer)
      BY <1>2, <1>4
    <3> QED
      BY <3>1, BufferIs
  <2>2. (\A i \in 1..colon - 1 : Buffer[i] \in Token)
          <=> \A i \in consumed + 1..(consumed + colon) - 1 : input[i] \in Token
    <3>1. \A i \in 1..colon - 1 : /\ consumed + i \in consumed + 1..(consumed + colon) - 1
                                  /\ i \in 1..Len(Buffer)
      BY <1>0, <1>2, <1>4
    <3>2. \A i \in consumed + 1..(consumed + colon) - 1 :
              i - consumed \in 1..colon - 1 /\ consumed + (i - consumed) = i
      BY <1>0
    <3>3. \A i \in 1..colon - 1 : Buffer[i] = input[consumed + i]
      BY <3>1, BufferIs
    <3> QED
      BY <3>1, <3>2, <3>3
  <2>3. /\ colon + 1 \in Nat /\ colon + 1 >= 2 /\ e <= Len(Buffer)
        /\ consumed + (colon + 1) = (consumed + colon) + 1
    BY <1>0, <1>2, <1>4
  <2>4. Clean(Buffer, colon + 1, e)
          <=> \A k \in (consumed + colon) + 1..consumed + e :
                  input[k] = "ctl" => \E j \in (consumed + colon) + 1..k : BareNl(j)
    BY <1>2, <2>3, CleanInInput
  <2> QED
    BY <1>3, <1>4, <2>1, <2>2, <2>4 DEF IsHeader, IsColon
<1> QED
  BY <1>3, <1>4 DEF IsHeader, IsColon

\* The parser takes a line for a header exactly if it is a good one.
LEMMA HeaderContent ==
    ASSUME TypeInv, NEW e, IsLine(Buffer, e)
    PROVE  GoodLine(consumed + 1, consumed + e) <=> e <= LineMax /\ ParseRequestHeader(Buffer) # {}
<1>0. consumed \in Nat
  BY TypeFacts
<1>1. Buffer \in Seq(Chars)
  BY BufferIs
<1>2. e \in Nat /\ e >= 3
  BY <1>1, LineFacts
<1>3. (consumed + e) - (consumed + 1) + 1 = e
  BY <1>0, <1>2
<1>4. GoodLine(consumed + 1, consumed + e)
        <=> e <= LineMax /\ \E colon : IsColon(consumed + 1, consumed + e, colon)
  BY <1>3 DEF GoodLine, IsColon
<1>5. \A colon : IsHeader(Buffer, e, colon) => colon \in Nat
  BY <1>2 DEF IsHeader
<1>6. \A colon : IsColon(consumed + 1, consumed + e, colon)
                   => colon - consumed \in Nat /\ consumed + (colon - consumed) = colon
  <2> SUFFICES ASSUME NEW colon, IsColon(consumed + 1, consumed + e, colon)
               PROVE  colon - consumed \in Nat /\ consumed + (colon - consumed) = colon
    OBVIOUS
  <2>1. colon \in (consumed + 1) + 1..(consumed + e) - 2
    BY DEF IsColon
  <2> QED
    BY <1>0, <1>2, <2>1
<1>7. (\E colon : IsColon(consumed + 1, consumed + e, colon)) <=> \E colon : IsHeader(Buffer, e, colon)
  <2>1. ASSUME NEW colon, IsColon(consumed + 1, consumed + e, colon)
        PROVE  \E i : IsHeader(Buffer, e, i)
    BY <1>6, <2>1, ColonInInput
  <2>2. ASSUME NEW colon, IsHeader(Buffer, e, colon)
        PROVE  \E i : IsColon(consumed + 1, consumed + e, i)
    BY <1>5, <2>2, ColonInInput
  <2> QED
    BY <2>1, <2>2
<1> QED
  BY <1>1, <1>4, <1>7, HeaderIs

-----------------------------------------------------------------------------
(* The invariant. *)

\* A full buffer holds no end of a line with the character behind it.
NoLineFits ==
    \A i \in LineEnds : i > consumed => i - consumed + (IF consumed = 0 THEN 0 ELSE 1) > BufSize

NoGoodHead == \A g : ~GoodHead(g)

Inv ==
    /\ TypeInv
    /\ at = "start" => consumed = 0
    /\ at = "headers" => Parsed(consumed)
    /\ at = "done" => GoodHead(consumed)
    /\ \A i \in EmptyLines : consumed <= i
    /\ why \in {"invalid", "too long", "eof"} => NoGoodHead
    /\ why = "full" => NoLineFits

LEMMA SameInput ==
    ASSUME input' = input
    PROVE  /\ LineEnds' = LineEnds /\ EmptyLines' = EmptyLines
           /\ \A c : Parsed(c)' <=> Parsed(c)
           /\ \A g : GoodHead(g)' <=> GoodHead(g)
<1>1. LineEnds' = LineEnds /\ EmptyLines' = EmptyLines
  BY DEF LineEnds, EmptyLines, At
<1>2. ASSUME NEW c
      PROVE  Parsed(c)' <=> Parsed(c)
  BY DEF Parsed, Regular, CrNlAt, EmptyLines, IsStart, LineEnds, At, GoodLines, GoodLine, PrevEnd, BareNl
<1>3. ASSUME NEW g
      PROVE  GoodHead(g)' <=> GoodHead(g)
  BY DEF GoodHead, Regular, CrNlAt, EmptyLines, IsStart, LineEnds, At, GoodLines, GoodLine, PrevEnd, BareNl
<1> QED
  BY <1>1, <1>2, <1>3

LEMMA SameRefusal ==
    ASSUME input' = input
    PROVE  /\ NoGoodHead' <=> NoGoodHead
           /\ consumed' = consumed => (NoLineFits' <=> NoLineFits)
BY SameInput DEF NoGoodHead, NoLineFits

LEMMA InitInv ==
    ASSUME Init
    PROVE  Inv
<1>1. input \in Seq(Chars)
  BY Constants DEF Init
<1>2. TypeInv
  <2>1. Len(input) \in Nat
    BY <1>1
  <2>2. received = 0 /\ consumed = 0 /\ at = "start" /\ why = ""
    BY DEF Init
  <2>3. received <= Len(input) /\ consumed <= received
    <3> DEFINE n == Len(input)
    <3>1. n \in Nat
      BY <2>1
    <3> HIDE DEF n
    <3>2. 0 <= n
      BY <3>1
    <3>3. 0 <= Len(input) /\ 0 <= 0
      BY <3>2 DEF n
    <3> QED
      BY <2>2, <3>3, Zenon
  <2> QED
    BY <1>1, <2>2, <2>3 DEF TypeInv
<1>3. \A i \in EmptyLines : consumed <= i
  <2>1. \A i \in EmptyLines : i \in Nat
    BY <1>1, EmptyLineFacts
  <2>2. consumed = 0
    BY DEF Init
  <2> QED
    BY <2>1, <2>2
<1> QED
  BY <1>2, <1>3 DEF Init, Inv

\* A request is refused for what it is refused for.
LEMMA FailStep ==
    ASSUME Inv, NEW reason, Fail(reason),
           reason \in {"invalid", "too long", "eof"} => NoGoodHead,
           reason = "full" => NoLineFits
    PROVE  Inv'
<1>1. at' = "failed" /\ why' = reason /\ UNCHANGED <<input, received, consumed>>
  BY DEF Fail
<1>2. TypeInv'
  BY <1>1 DEF Inv, TypeInv
<1>3. \A i \in EmptyLines' : consumed' <= i
  BY <1>1, SameInput DEF Inv
<1>4. /\ why' \in {"invalid", "too long", "eof"} => NoGoodHead'
      /\ why' = "full" => NoLineFits'
  BY <1>1, SameRefusal
<1> QED
  BY <1>1, <1>2, <1>3, <1>4 DEF Inv

LEMMA HeadersBehind ==
    ASSUME Inv, at = "headers"
    PROVE  Behind /\ Parsed(consumed) /\ consumed \in Nat /\ consumed >= 2
<1>1. TypeInv /\ Parsed(consumed)
  BY DEF Inv
<1>2. input \in Seq(Chars)
  BY <1>1, TypeFacts
<1> QED
  BY <1>1, <1>2, ParsedFacts DEF Behind

LEMMA ReadIntoBufferStep ==
    ASSUME Inv, ReadIntoBuffer
    PROVE  Inv'
<1>1. PICK n \in 1..BufSize - Buffered :
          /\ received + n <= Len(input) /\ received' = received + n
          /\ UNCHANGED <<input, consumed, at, why, fields>>
  BY DEF ReadIntoBuffer
<1>2. TypeInv'
  <2>1. TypeInv
    BY DEF Inv
  <2>2. received \in Nat /\ consumed \in Nat /\ consumed <= received
    BY <2>1, TypeFacts
  <2>3. received + n \in Nat /\ consumed <= received + n
    BY <1>1, <2>2
  <2> QED
    BY <1>1, <2>1, <2>3 DEF TypeInv
<1>3. \A i \in EmptyLines' : consumed' <= i
  BY <1>1, SameInput DEF Inv
<1>4. /\ at' = "headers" => Parsed(consumed)'
      /\ at' = "done" => GoodHead(consumed)'
  BY <1>1, SameInput DEF Inv
<1>5. /\ why' \in {"invalid", "too long", "eof"} => NoGoodHead'
      /\ why' = "full" => NoLineFits'
  BY <1>1, SameRefusal DEF Inv
<1> QED
  BY <1>1, <1>2, <1>3, <1>4, <1>5 DEF Inv

LEMMA NothingAtStart ==
    ASSUME Inv, at = "start", NeedsMore
    PROVE  /\ Buffered = BufSize => NoLineFits
           /\ received = Len(input) => NoGoodHead
<1>1. AtStart /\ consumed = 0
  BY DEF Inv, AtStart
<1>2. FindStartLineEnd(Buffer) = None
  BY DEF NeedsMore
<1>3. /\ \A i \in LineEnds : received < i
      /\ received = Len(input) => EmptyLines = {}
  BY <1>1, <1>2, NoStartFound
<1>4. ASSUME Buffered = BufSize PROVE NoLineFits
  <2>1. received \in Nat /\ input \in Seq(Chars)
    BY <1>1, StartBuffer
  <2>2. received = BufSize
    BY <1>1, <1>4, <2>1 DEF Buffered
  <2>3. \A i \in LineEnds : i \in Int
    BY DEF LineEnds
  <2> QED
    BY <1>1, <1>3, <2>1, <2>2, <2>3 DEF NoLineFits
<1>5. ASSUME received = Len(input) PROVE NoGoodHead
  BY <1>3, <1>5 DEF NoGoodHead, GoodHead
<1> QED
  BY <1>4, <1>5

LEMMA NothingInHeaders ==
    ASSUME Inv, at = "headers", NeedsMore
    PROVE  /\ Buffered = BufSize => NoLineFits
           /\ received = Len(input) => NoGoodHead
<1>1. Behind /\ Parsed(consumed) /\ consumed \in Nat /\ consumed >= 2
  BY HeadersBehind
<1>2. TypeInv /\ received \in Nat /\ Buffered = received - consumed
  BY <1>1, TypeFacts DEF Behind, Buffered
<1>3. \A i \in LineEnds : i \in Int
  BY DEF LineEnds
<1>4. CASE EndsHead
  <2>1. Buffered = 1
    BY <1>4 DEF NeedsMore
  <2>2. ASSUME Buffered = BufSize PROVE NoLineFits
    BY <1>1, <1>3, <2>1, <2>2 DEF NoLineFits
  <2>3. ASSUME received = Len(input), NEW g, GoodHead(g) PROVE FALSE
    <3>1. consumed + 2 <= Len(input)
      BY <1>1, <1>4, <2>3, EndInvalid
    <3> QED
      BY <1>1, <1>2, <2>1, <2>3, <3>1
  <2> QED
    BY <2>2, <2>3 DEF NoGoodHead
<1>5. CASE ~EndsHead
  <2>1. FindHeaderEnd(Buffer) = None
    BY <1>5 DEF NeedsMore
  <2>2. /\ \A i \in LineEnds : consumed < i => received <= i
        /\ received = Len(input) => \A i \in EmptyLines : i <= consumed
    BY <1>1, <1>5, <2>1, NoLineFound
  <2>3. ASSUME Buffered = BufSize PROVE NoLineFits
    BY <1>1, <1>2, <1>3, <2>2, <2>3 DEF NoLineFits
  <2>4. ASSUME received = Len(input), NEW g, GoodHead(g) PROVE FALSE
    <3>1. input \in Seq(Chars)
      BY <1>2, TypeFacts
    <3>2. g \in EmptyLines /\ g \in Nat
      BY <2>4, <3>1, EmptyLineFacts DEF GoodHead
    <3>3. consumed < g
      BY <1>1, <3>1, <3>2, ParsedFacts
    <3> QED
      BY <1>1, <2>2, <2>4, <3>2, <3>3
  <2> QED
    BY <2>3, <2>4 DEF NoGoodHead
<1> QED
  BY <1>4, <1>5

LEMMA ReadNothingStep ==
    ASSUME Inv, ReadNothing
    PROVE  Inv'
<1> DEFINE reason == IF Buffered = BufSize THEN "full" ELSE "eof"
<1>1. /\ at \in {"start", "headers"} /\ NeedsMore /\ Fail(reason)
      /\ Buffered = BufSize \/ received = Len(input)
  BY DEF ReadNothing
<1>2. /\ Buffered = BufSize => NoLineFits
      /\ received = Len(input) => NoGoodHead
  BY <1>1, NothingAtStart, NothingInHeaders
<1>3. /\ reason \in {"invalid", "too long", "eof"} => NoGoodHead
      /\ reason = "full" => NoLineFits
  BY <1>1, <1>2
<1> HIDE DEF reason
<1> QED
  BY <1>1, <1>3, FailStep

LEMMA TimeOutStep ==
    ASSUME Inv, TimeOut
    PROVE  Inv'
<1>1. Fail("timeout")
  BY DEF TimeOut
<1> QED
  BY <1>1, FailStep

LEMMA ReadStartLineStep ==
    ASSUME Inv, ReadStartLine
    PROVE  Inv'
<1> DEFINE end == FindStartLineEnd(Buffer)
<1>1. AtStart /\ consumed = 0 /\ at = "start" /\ end # None
  BY DEF Inv, AtStart, ReadStartLine, NeedsMore
<1>2. input \in Seq(Chars) /\ received \in Nat /\ received <= Len(input) /\ Len(input) \in Nat
  BY <1>1, StartBuffer
<1>3. \/ end = Invalid /\ \A s : ~IsStart(s)
      \/ /\ end \in 2..received /\ IsStart(end)
         /\ SubSeq(Buffer, 1, end) = SubSeq(input, 1, end)
  BY <1>1, StartFound
<1>4. IF end = Invalid THEN Fail("invalid")
      ELSE IF ~ParseStartLine(SubSeq(Buffer, 1, end)) THEN Fail("invalid")
      ELSE /\ consumed' = consumed + end /\ at' = "headers"
           /\ UNCHANGED <<input, received, why, fields>>
  BY DEF ReadStartLine
<1> HIDE DEF end
<1>5. CASE end = Invalid
  <2>1. NoGoodHead
    BY <1>3, <1>5 DEF NoGoodHead, GoodHead, Invalid
  <2> QED
    BY <1>4, <1>5, <2>1, FailStep
<1>6. CASE end # Invalid /\ ~ParseStartLine(SubSeq(Buffer, 1, end))
  <2>1. IsStart(end) /\ ~ParseStartLine(SubSeq(input, 1, end))
    BY <1>3, <1>6
  <2>2. \A s : IsStart(s) => s = end
    BY <1>2, <2>1, StartFirst
  <2>3. NoGoodHead
    BY <2>1, <2>2 DEF NoGoodHead, GoodHead
  <2> QED
    BY <1>4, <1>6, <2>3, FailStep
<1>7. CASE end # Invalid /\ ParseStartLine(SubSeq(Buffer, 1, end))
  <2>1. end \in 2..received /\ IsStart(end) /\ ParseStartLine(SubSeq(input, 1, end))
    BY <1>3, <1>7
  <2>2. consumed' = end /\ at' = "headers" /\ UNCHANGED <<input, received, why>>
    BY <1>1, <1>4, <1>7, <2>1
  <2>3. Parsed(end)
    BY <1>2, <2>1, StartParsed
  <2>4. TypeInv'
    <3>1. TypeInv
      BY DEF Inv
    <3>2. end \in Nat /\ end <= received
      BY <1>2, <2>1
    <3> QED
      BY <1>1, <2>2, <3>1, <3>2 DEF TypeInv
  <2>5. Parsed(consumed)'
    BY <2>2, <2>3, SameInput
  <2>6. \A i \in EmptyLines' : consumed' <= i
    <3>1. \A i \in EmptyLines : end < i /\ i \in Int
      BY <1>2, <2>3, ParsedFacts, EmptyLineFacts
    <3>2. end \in Int
      BY <2>1
    <3> QED
      BY <2>2, <3>1, <3>2, SameInput
  <2>7. why' = ""
    BY <1>1, <2>2 DEF Inv, TypeInv
  <2> QED
    BY <2>2, <2>4, <2>5, <2>6, <2>7 DEF Inv
<1> QED
  BY <1>5, <1>6, <1>7

\* A line that is a header does not begin with a blank.
LEMMA HeaderBegins ==
    ASSUME TypeInv, NEW e, IsLine(Buffer, e), ParseRequestHeader(Buffer) # {}
    PROVE  input[consumed + 1] \notin Lws
<1>1. Buffer \in Seq(Chars)
  BY BufferIs
<1>2. PICK colon : IsHeader(Buffer, e, colon)
  BY <1>1, HeaderIs
<1>3. e \in Nat /\ e >= 3 /\ e <= Len(Buffer) - 1 /\ Len(Buffer) \in Nat
  BY <1>1, LineFacts
<1>4. 1 \in 1..colon - 1 /\ 1 \in 1..Len(Buffer)
  BY <1>2, <1>3 DEF IsHeader
<1>5. Buffer[1] \in Token /\ Buffer[1] = input[consumed + 1]
  BY <1>2, <1>4, BufferIs DEF IsHeader
<1> QED
  BY <1>5 DEF Token, Lws

LEMMA ReadHeaderStep ==
    ASSUME Inv, ReadHeader
    PROVE  Inv'
<1> DEFINE end == FindHeaderEnd(Buffer)
<1>1. at = "headers" /\ ~EndsHead /\ end # None
  BY DEF ReadHeader, NeedsMore
<1>2. Behind /\ Parsed(consumed) /\ consumed \in Nat /\ consumed >= 2 /\ TypeInv
  BY <1>1, HeadersBehind DEF Behind
<1>3. /\ input \in Seq(Chars) /\ received \in Nat /\ received <= Len(input)
      /\ Len(input) \in Nat /\ LineMax \in Nat /\ Buffer \in Seq(Chars)
  BY <1>2, TypeFacts, Constants, BufferIs
<1>4. end = Invalid \/ (end \in Nat /\ IsLine(Buffer, end))
  <2>1. Len(Buffer) > 0 => Buffer[1] # "cr"
    BY <1>1, <1>2, NotAtEnd
  <2> QED
    BY <1>1, <1>3, <2>1, HeaderEndFound
<1>5. \/ end = Invalid /\ Fail("invalid")
      \/ end > LineMax /\ Fail("too long")
      \/ end \in 1..LineMax /\ ParseRequestHeader(Buffer) = {} /\ Fail("invalid")
      \/ /\ end \in 1..LineMax /\ ParseRequestHeader(Buffer) # {}
         /\ consumed' = consumed + end /\ UNCHANGED <<input, received, at, why>>
  BY DEF ReadHeader, Progress
<1>6. CASE end = Invalid
  <2>1. NoGoodHead
    BY <1>1, <1>2, <1>6, HeaderInvalid DEF NoGoodHead
  <2>2. Fail("invalid")
    <3>1. end = -2 /\ LineMax \in Nat
      BY <1>3, <1>6 DEF Invalid
    <3> HIDE DEF end
    <3>2. ~(end > LineMax) /\ end \notin 1..LineMax
      BY <3>1
    <3> QED
      BY <1>5, <3>2
  <2> QED
    BY <2>1, <2>2, FailStep
<1> HIDE DEF end
<1>7. CASE end \in Nat /\ IsLine(Buffer, end)
  <2>1. GoodLine(consumed + 1, consumed + end)
          <=> end <= LineMax /\ ParseRequestHeader(Buffer) # {}
    BY <1>2, <1>7, HeaderContent
  <2>2. ~GoodLine(consumed + 1, consumed + end) => NoGoodHead
    BY <1>2, <1>7, HeaderGood DEF NoGoodHead
  <2>3. CASE end > LineMax /\ Fail("too long")
    <3>1. end \in Nat /\ LineMax \in Nat /\ end > LineMax
      BY <1>3, <1>7, <2>3
    <3>2. ~(end <= LineMax)
      BY <3>1
    <3> QED
      BY <2>1, <2>2, <2>3, <3>2, FailStep
  <2>4. CASE ParseRequestHeader(Buffer) = {} /\ Fail("invalid")
    BY <2>1, <2>2, <2>4, FailStep
  <2>5. CASE /\ end \in 1..LineMax /\ ParseRequestHeader(Buffer) # {}
             /\ consumed' = consumed + end /\ UNCHANGED <<input, received, at, why>>
    <3>1. GoodLine(consumed + 1, consumed + end)
      BY <1>3, <2>1, <2>5
    <3>2. input[consumed + 1] \notin Lws
      BY <1>2, <1>7, <2>5, HeaderBegins
    <3>3. Parsed(consumed + end)
      BY <1>2, <1>7, <3>1, <3>2, HeaderParsed
    <3>4. Parsed(consumed)'
      BY <2>5, <3>3, SameInput
    <3>5. consumed + end < received /\ consumed + end \in Nat
      BY <1>2, <1>7, LineInInput
    <3>6. TypeInv'
      <4>1. consumed + end <= received
        BY <1>3, <3>5
      <4> QED
        BY <1>2, <2>5, <3>5, <4>1 DEF TypeInv
    <3>7. \A i \in EmptyLines' : consumed' <= i
      <4>1. \A i \in EmptyLines : consumed + end < i /\ i \in Int
        BY <1>3, <3>3, ParsedFacts, EmptyLineFacts
      <4> QED
        BY <2>5, <3>5, <4>1, SameInput
    <3>8. why' = "" /\ at' = "headers"
      BY <1>1, <1>2, <2>5 DEF TypeInv
    <3> QED
      BY <3>4, <3>6, <3>7, <3>8 DEF Inv
  <2>6. end # Invalid
    BY <1>7 DEF Invalid
  <2> QED
    BY <1>5, <2>3, <2>4, <2>5, <2>6
<1> QED
  BY <1>4, <1>6, <1>7

LEMMA ReadEndStep ==
    ASSUME Inv, ReadEnd
    PROVE  Inv'
<1>1. at = "headers" /\ EndsHead /\ Buffered # 1
  BY DEF ReadEnd, NeedsMore
<1>2. Behind /\ Parsed(consumed) /\ consumed \in Nat /\ consumed >= 2 /\ TypeInv
  BY <1>1, HeadersBehind DEF Behind
<1>3. /\ input \in Seq(Chars) /\ received \in Nat /\ received <= Len(input)
      /\ Len(input) \in Nat
  BY <1>2, TypeFacts
<1>4. /\ Len(Buffer) >= 2 /\ Len(Buffer) = received - consumed
      /\ Buffer[1] = input[consumed + 1] /\ Buffer[2] = input[consumed + 2]
      /\ Buffer[1] = "cr"
  <2>1. Buffer # << >> /\ Buffer[1] = "cr"
    BY <1>1 DEF EndsHead
  <2>2. Len(Buffer) \in Nat /\ Len(Buffer) # 1 /\ Buffer \in Seq(Chars)
    BY <1>1, <1>2, BufferIs
  <2>3. Len(Buffer) # 0
    BY <2>1, <2>2
  <2>4. Len(Buffer) >= 2 /\ 1 \in 1..Len(Buffer) /\ 2 \in 1..Len(Buffer)
    <3> DEFINE n == Len(Buffer)
    <3>1. n \in Nat /\ n # 0 /\ n # 1
      BY <2>2, <2>3
    <3> HIDE DEF n
    <3>2. n >= 2 /\ 1 \in 1..n /\ 2 \in 1..n
      BY <3>1
    <3> QED
      BY <3>2 DEF n
  <2> QED
    BY <1>2, <2>1, <2>4, BufferIs
<1>5. CASE Buffer[2] # "nl"
  <2>1. Fail("invalid")
    BY <1>5 DEF ReadEnd
  <2>2. NoGoodHead
    BY <1>1, <1>2, <1>4, <1>5, EndInvalid DEF NoGoodHead
  <2> QED
    BY <2>1, <2>2, FailStep
<1>6. CASE Buffer[2] = "nl"
  <2>1. consumed' = consumed + 2 /\ at' = "done" /\ UNCHANGED <<input, received, why>>
    BY <1>6 DEF ReadEnd
  <2>2. /\ (consumed + 2) - 1 = consumed + 1 /\ consumed + 2 <= received
        /\ consumed + 2 <= Len(input) /\ consumed + 2 \in Nat
    BY <1>2, <1>3, <1>4
  <2>3. CrNlAt(consumed + 2)
    BY <1>4, <1>6, <2>2 DEF CrNlAt
  <2>4. GoodHead(consumed + 2)
    BY <1>2, <2>2, <2>3, HeadEnds
  <2>5. GoodHead(consumed)'
    BY <2>1, <2>4, SameInput
  <2>6. TypeInv'
    BY <1>1, <1>2, <2>1, <2>2 DEF TypeInv
  <2>7. \A i \in EmptyLines' : consumed' <= i
    BY <2>1, <2>4, SameInput DEF GoodHead
  <2>8. why' = ""
    BY <1>1, <1>2, <2>1 DEF TypeInv
  <2> QED
    BY <2>1, <2>5, <2>6, <2>7, <2>8 DEF Inv
<1> QED
  BY <1>5, <1>6

LEMMA StutterStep ==
    ASSUME Inv, UNCHANGED vars
    PROVE  Inv'
<1>1. UNCHANGED <<input, received, consumed, at, why>>
  BY DEF vars
<1>2. TypeInv'
  BY <1>1 DEF Inv, TypeInv
<1>3. \A i \in EmptyLines' : consumed' <= i
  BY <1>1, SameInput DEF Inv
<1>4. /\ at' = "headers" => Parsed(consumed)'
      /\ at' = "done" => GoodHead(consumed)'
  BY <1>1, SameInput DEF Inv
<1>5. /\ why' \in {"invalid", "too long", "eof"} => NoGoodHead'
      /\ why' = "full" => NoLineFits'
  BY <1>1, SameRefusal DEF Inv
<1> QED
  BY <1>1, <1>2, <1>3, <1>4, <1>5 DEF Inv

\* What has been parsed is a prefix of good lines, and no request is refused that is one.
THEOREM Invariance == Spec => []Inv
<1>1. Init => Inv
  BY InitInv
<1>2. Inv /\ [Next]_vars => Inv'
  BY ReadIntoBufferStep, ReadNothingStep, TimeOutStep, ReadStartLineStep, ReadHeaderStep,
     ReadEndStep, StutterStep DEF Next
<1> QED
  BY <1>1, <1>2, PTL DEF Spec

\* A head that is done ends at the first empty line of the input, and nothing behind
\* that is ever taken for a part of it, whatever a line is folded into and wherever
\* the reads of read_into_buffer end.
THEOREM EndIsFirstEmptyLine == Spec => []StopsAtEmptyLine
<1>1. Inv => StopsAtEmptyLine
  <2> SUFFICES ASSUME Inv PROVE StopsAtEmptyLine
    OBVIOUS
  <2>1. TypeInv /\ input \in Seq(Chars)
    BY TypeFacts DEF Inv
  <2>2. EmptyLines \in SUBSET Nat
    BY <2>1, EmptyLineFacts
  <2>3. EmptyLines \in SUBSET Int
    BY <2>2
  <2>4. EmptyLines # {} => consumed <= Min(EmptyLines)
    BY <2>2, MinFound DEF Inv
  <2>5. at = "done" => EmptyLines # {} /\ consumed = Min(EmptyLines)
    <3> SUFFICES ASSUME at = "done"
                 PROVE  EmptyLines # {} /\ consumed = Min(EmptyLines)
      OBVIOUS
    <3>1. consumed \in EmptyLines /\ \A i \in EmptyLines : consumed <= i
      BY DEF Inv, GoodHead
    <3> QED
      BY <2>3, <3>1, MinIs
  <2> QED
    BY <2>4, <2>5 DEF StopsAtEmptyLine
<1> QED
  BY <1>1, Invariance, PTL

\* Whether read_request_inner accepts a head depends on the head alone: the two parsers
\* of a line agree with each other and with what a good line is, however the input is
\* split into reads; and "full" means a line that cannot fit.
THEOREM RefusalIsOfTheHead == Spec => []RefusedForItself
<1>1. Inv => RefusedForItself
  <2> SUFFICES ASSUME Inv PROVE RefusedForItself
    OBVIOUS
  <2>1. TypeInv /\ input \in Seq(Chars)
    BY TypeFacts DEF Inv
  <2>2. at = "done" => Acceptable
    <3> SUFFICES ASSUME at = "done" PROVE Acceptable
      OBVIOUS
    <3>1. GoodHead(consumed)
      BY DEF Inv
    <3>2. consumed \in EmptyLines /\ \A i \in EmptyLines : consumed <= i
      BY <3>1 DEF GoodHead
    <3> QED
      BY <2>1, <3>1, <3>2, AcceptableIs
  <2>3. why \in {"invalid", "too long", "eof"} => ~Acceptable
    BY <2>1, AcceptableHas DEF Inv, NoGoodHead
  <2>4. why = "full" => NoLineFits
    BY DEF Inv
  <2> QED
    BY <2>2, <2>3, <2>4 DEF RefusedForItself, NoLineFits
<1> QED
  BY <1>1, Invariance, PTL

-----------------------------------------------------------------------------
(* Joining strings, and leaving out blanks.  FlattenSeq and NoBlank go     *)
(* through their sequence place by place; what is needed of them is that   *)
(* the one joins and that the other respects joints.                       *)

\* FlattenSeq's own recursion.
FlattenIs(u, ss) ==
    /\ u[1] = ss[1]
    /\ \A n \in 2..Len(ss) : u[n] = u[n - 1] \o ss[n]

LEMMA FlattenDefined ==
    ASSUME NEW ss \in Seq(Seq(Chars)), ss # << >>
    PROVE  \E u \in [1..Len(ss) -> Seq(Chars)] :
               FlattenIs(u, ss) /\ FlattenSeq(ss) = u[Len(ss)]
<1> DEFINE N == Len(ss)
           V == Seq(Chars)
           base == << >>
           step == [n \in 1..N |-> [v \in V |-> v \o ss[n]]]
           Rec(u) == u = [i \in 1..N |-> IF i = 1 THEN ss[i] ELSE u[i - 1] \o ss[i]]
<1>1. N \in Nat /\ N > 0 /\ \A n \in 1..N : ss[n] \in V
  OBVIOUS
<1>2. base \in V /\ \A v \in V, w \in V : v \o w \in V
  OBVIOUS
<1>3. step \in [1..N -> [V -> V]]
  BY <1>1, <1>2
<1>4. \A n \in 1..N, v \in V : step[n][v] = v \o ss[n]
  OBVIOUS
<1>5. \A v \in V : base \o v = v
  OBVIOUS
<1>6. FlattenSeq(ss) = (CHOOSE u : Rec(u))[N]
  BY <1>1 DEF FlattenSeq
<1> HIDE DEF N, V, base, step
<1>7. PICK f : IsRecursion(f, N, V, base, step)
  <2>1. N \in Nat /\ base \in V
    BY <1>1, <1>2
  <2> QED
    BY <1>3, <2>1, Recursion
<1> DEFINE g == [i \in 1..N |-> f[i]]
<1>8. ASSUME NEW n \in 1..N PROVE f[n - 1] \in V /\ f[n] = f[n - 1] \o ss[n]
  <2>1. n - 1 \in 0..N
    BY <1>1
  <2>2. f[n - 1] \in V
    BY <1>7, <2>1 DEF IsRecursion
  <2>3. f[n] = step[n][f[n - 1]]
    BY <1>7 DEF IsRecursion
  <2> QED
    BY <1>4, <2>2, <2>3
<1>9. f[1] = ss[1]
  <2>1. 1 \in 1..N /\ 1 - 1 = 0
    BY <1>1
  <2>2. f[1] = f[0] \o ss[1] /\ f[0] = base /\ ss[1] \in V
    BY <1>1, <1>7, <1>8, <2>1 DEF IsRecursion
  <2> QED
    BY <1>5, <2>2
<1>10. Rec(g)
  <2>1. ASSUME NEW i \in 1..N PROVE g[i] = IF i = 1 THEN ss[i] ELSE g[i - 1] \o ss[i]
    <3>1. g[i] = f[i]
      OBVIOUS
    <3>2. CASE i = 1
      BY <1>9, <3>1, <3>2
    <3>3. CASE i # 1
      <4>1. i - 1 \in 1..N
        BY <1>1, <3>3
      <4>2. g[i - 1] = f[i - 1]
        BY <4>1
      <4> QED
        BY <1>8, <3>1, <3>3, <4>2
    <3> QED
      BY <3>2, <3>3
  <2> HIDE DEF g
  <2>2. g = [i \in 1..N |-> g[i]]
    BY DEF g
  <2> QED
    BY <2>1, <2>2
<1> DEFINE u == CHOOSE w : Rec(w)
<1>11. Rec(u)
  BY <1>10
<1> HIDE DEF g, u
<1>12. /\ u = [i \in 1..N |-> u[i]]
       /\ \A i \in 1..N : u[i] = IF i = 1 THEN ss[i] ELSE u[i - 1] \o ss[i]
  BY <1>11
<1>13. FlattenIs(u, ss)
  <2>1. 1 \in 1..N /\ \A n \in 2..N : n \in 1..N /\ n # 1
    BY <1>1
  <2>2. u[1] = ss[1] /\ \A n \in 2..N : u[n] = u[n - 1] \o ss[n]
    BY <1>12, <2>1
  <2> QED
    BY <2>2 DEF FlattenIs, N
<1>14. \A n \in 1..N : u[n] = f[n]
  <2> DEFINE T == {k \in Nat : k + 1 <= N => u[k + 1] = f[k + 1]}
  <2>1. 0 \in T
    <3>1. 1 \in 1..N
      BY <1>1
    <3>2. u[1] = f[1]
      BY <1>9, <1>12, <3>1
    <3> QED
      BY <3>2
  <2>2. ASSUME NEW k \in Nat, k \in T PROVE k + 1 \in T
    <3> SUFFICES ASSUME (k + 1) + 1 <= N PROVE u[(k + 1) + 1] = f[(k + 1) + 1]
      OBVIOUS
    <3>1. PICK m \in 1..N : m = (k + 1) + 1
      BY <1>1
    <3>2. m # 1 /\ m - 1 = k + 1 /\ k + 1 <= N
      BY <1>1, <3>1
    <3>3. u[m - 1] = f[m - 1]
      BY <2>2, <3>2
    <3>4. u[m] = u[m - 1] \o ss[m] /\ f[m] = f[m - 1] \o ss[m]
      BY <1>8, <1>12, <3>2
    <3> QED
      BY <3>1, <3>3, <3>4
  <2> HIDE DEF T
  <2>3. Nat \subseteq T
    BY <2>1, <2>2, Induction
  <2>4. ASSUME NEW n \in 1..N PROVE u[n] = f[n]
    <3>1. n - 1 \in T /\ (n - 1) + 1 = n /\ n <= N
      BY <1>1, <2>3
    <3> QED
      BY <3>1 DEF T
  <2> QED
    BY <2>4
<1>15. u \in [1..N -> V]
  BY <1>1, <1>7, <1>12, <1>14 DEF IsRecursion
<1> QED
  BY <1>6, <1>13, <1>15 DEF N, V, u

\* One more string is joined to the end.
LEMMA FlattenAppend ==
    ASSUME NEW ss \in Seq(Seq(Chars)), NEW s \in Seq(Chars)
    PROVE  /\ FlattenSeq(ss) \in Seq(Chars)
           /\ FlattenSeq(Append(ss, s)) = FlattenSeq(ss) \o s
<1> DEFINE N == Len(ss)
           tt == Append(ss, s)
<1>1. /\ tt \in Seq(Seq(Chars)) /\ tt # << >> /\ Len(tt) = N + 1 /\ N \in Nat
      /\ tt[N + 1] = s /\ \A i \in 1..N : tt[i] = ss[i]
  <2> DEFINE V == Seq(Chars)
  <2>1. ss \in Seq(V) /\ s \in V
    OBVIOUS
  <2> HIDE DEF V
  <2>2. /\ tt \in Seq(V) /\ Len(tt) = N + 1 /\ N \in Nat
        /\ tt[N + 1] = s /\ \A i \in 1..N : tt[i] = ss[i]
    BY <2>1
  <2>3. tt # << >>
    <3>1. Len(tt) # 0 /\ Len(<< >>) = 0
      BY <2>2
    <3> QED
      BY <3>1
  <2> QED
    BY <2>2, <2>3 DEF V
<1> HIDE DEF tt
<1>2. PICK v \in [1..Len(tt) -> Seq(Chars)] : FlattenIs(v, tt) /\ FlattenSeq(tt) = v[Len(tt)]
  BY <1>1, FlattenDefined
<1>3. CASE ss = << >>
  <2>1. FlattenSeq(ss) = << >>
    BY <1>3 DEF FlattenSeq
  <2>2. FlattenSeq(tt) = s
    BY <1>1, <1>2, <1>3 DEF FlattenIs
  <2> QED
    BY <2>1, <2>2 DEF tt
<1>4. CASE ss # << >>
  <2>1. PICK u \in [1..N -> Seq(Chars)] : FlattenIs(u, ss) /\ FlattenSeq(ss) = u[N]
    BY <1>4, FlattenDefined
  <2>2. N > 0
    BY <1>4
  <2> DEFINE T == {k \in Nat : k + 1 <= N => u[k + 1] = v[k + 1]}
  <2>3. 0 \in T
    BY <1>1, <1>2, <2>1, <2>2 DEF FlattenIs
  <2>4. ASSUME NEW k \in Nat, k \in T PROVE k + 1 \in T
    <3> SUFFICES ASSUME (k + 1) + 1 <= N PROVE u[(k + 1) + 1] = v[(k + 1) + 1]
      OBVIOUS
    <3>1. PICK m \in 2..N : m = (k + 1) + 1
      BY <1>1
    <3>2. m - 1 = k + 1 /\ k + 1 <= N /\ m \in 1..N /\ m \in 2..N + 1
      BY <1>1, <3>1
    <3>3. u[m - 1] = v[m - 1]
      BY <2>4, <3>2
    <3>4. u[m] = u[m - 1] \o ss[m] /\ v[m] = v[m - 1] \o tt[m] /\ tt[m] = ss[m]
      BY <1>1, <1>2, <2>1, <3>2 DEF FlattenIs
    <3> QED
      BY <3>1, <3>3, <3>4
  <2> HIDE DEF T
  <2>5. Nat \subseteq T
    BY <2>3, <2>4, Induction
  <2>6. N - 1 \in T /\ (N - 1) + 1 = N
    BY <1>1, <2>2, <2>5
  <2>7. u[N] = v[N]
    BY <2>6 DEF T
  <2>8. v[N + 1] = v[N] \o tt[N + 1]
    <3>1. N + 1 \in 2..Len(tt) /\ (N + 1) - 1 = N
      BY <1>1, <2>2
    <3> QED
      BY <1>2, <3>1 DEF FlattenIs
  <2>9. u[N] \in Seq(Chars)
    BY <1>1, <2>1, <2>2
  <2> QED
    BY <1>1, <1>2, <2>1, <2>7, <2>8, <2>9 DEF tt
<1> QED
  BY <1>3, <1>4

\* The recursion of NoBlank.
KeptIs(u, s) ==
    /\ u[0] = << >>
    /\ \A n \in 1..Len(s) : u[n] = IF s[n] \in Blanks THEN u[n - 1] ELSE Append(u[n - 1], s[n])

LEMMA KeptDefined ==
    ASSUME NEW s \in Seq(Chars)
    PROVE  \E u : /\ u \in [0..Len(s) -> Seq(Chars)]
                  /\ KeptIs(u, s) /\ NoBlank(s) = u[Len(s)]
<1> DEFINE N == Len(s)
           V == Seq(Chars)
           base == << >>
           next(n, v) == IF s[n] \in Blanks THEN v ELSE Append(v, s[n])
           step == [n \in 1..N |-> [v \in V |-> next(n, v)]]
           Rec(u) == u = [n \in 0..N |-> IF n = 0 THEN base ELSE next(n, u[n - 1])]
<1>1. N \in Nat /\ \A n \in 1..N : s[n] \in Chars
  OBVIOUS
<1>2. base \in V
  OBVIOUS
<1>3. \A n \in 1..N, v \in V : next(n, v) \in V
  BY <1>1
<1>4. step \in [1..N -> [V -> V]] /\ \A n \in 1..N, v \in V : step[n][v] = next(n, v)
  BY <1>3
<1>5. NoBlank(s) = (CHOOSE u : Rec(u))[N]
  <2>1. \A u : [n \in 0..Len(s) |->
                    IF n = 0 THEN << >>
                    ELSE IF s[n] \in Blanks THEN u[n - 1] ELSE Append(u[n - 1], s[n])]
               = [n \in 0..N |-> IF n = 0 THEN base ELSE next(n, u[n - 1])]
    OBVIOUS
  <2> QED
    BY <2>1, Zenon DEF NoBlank
<1> HIDE DEF N, V, base, next, step
<1>6. PICK f : IsRecursion(f, N, V, base, step)
  BY <1>1, <1>2, <1>4, Recursion
<1>7. ASSUME NEW n \in 1..N PROVE f[n] = next(n, f[n - 1])
  <2>1. n - 1 \in 0..N /\ f[n] = step[n][f[n - 1]]
    BY <1>1, <1>6 DEF IsRecursion
  <2>2. f[n - 1] \in V
    BY <1>6, <2>1 DEF IsRecursion
  <2> QED
    BY <1>4, <2>1, <2>2
<1>8. Rec(f)
  <2>1. ASSUME NEW n \in 0..N PROVE f[n] = IF n = 0 THEN base ELSE next(n, f[n - 1])
    <3>1. n # 0 => n \in 1..N
      BY <1>1
    <3> QED
      BY <1>6, <1>7, <3>1 DEF IsRecursion
  <2>2. f = [n \in 0..N |-> f[n]]
    BY <1>6 DEF IsRecursion
  <2> QED
    BY <2>1, <2>2
<1> DEFINE u == CHOOSE w : Rec(w)
<1>9. Rec(u)
  BY <1>8
<1> HIDE DEF u
<1>10. /\ u = [n \in 0..N |-> u[n]]
       /\ \A n \in 0..N : u[n] = IF n = 0 THEN base ELSE next(n, u[n - 1])
  BY <1>9
<1>11. u[0] = base /\ \A n \in 1..N : u[n] = next(n, u[n - 1])
  BY <1>1, <1>10
<1>12. \A n \in 0..N : u[n] = f[n]
  <2>1. u[0] = f[0]
    BY <1>6, <1>11 DEF IsRecursion
  <2>2. \A n \in 1..N : u[n - 1] = f[n - 1] => u[n] = f[n]
    BY <1>7, <1>11
  <2> QED
    BY <1>1, <2>1, <2>2, RecursionAgrees, ZenonT(60)
<1>13. u \in [0..N -> V]
  BY <1>6, <1>10, <1>12 DEF IsRecursion
<1>14. KeptIs(u, s)
  BY <1>11 DEF KeptIs, N, base, next
<1> QED
  BY <1>5, <1>13, <1>14 DEF N, V, u

\* One more character is kept, or it is a blank.
LEMMA NoBlankAppend ==
    ASSUME NEW s \in Seq(Chars), NEW c \in Chars
    PROVE  /\ NoBlank(s) \in Seq(Chars)
           /\ NoBlank(Append(s, c)) =
                  IF c \in Blanks THEN NoBlank(s) ELSE Append(NoBlank(s), c)
<1> DEFINE N == Len(s)
           t == Append(s, c)
<1>1. /\ t \in Seq(Chars) /\ Len(t) = N + 1 /\ N \in Nat /\ t[N + 1] = c
      /\ \A i \in 1..N : t[i] = s[i]
  OBVIOUS
<1> HIDE DEF t
<1>2. PICK u : /\ u \in [0..N -> Seq(Chars)]
               /\ KeptIs(u, s) /\ NoBlank(s) = u[N]
  BY KeptDefined
<1>3. PICK v : /\ v \in [0..Len(t) -> Seq(Chars)]
               /\ KeptIs(v, t) /\ NoBlank(t) = v[Len(t)]
  BY <1>1, KeptDefined
<1>4. \A n \in 0..N : u[n] = v[n]
  <2>1. u[0] = v[0]
    BY <1>2, <1>3 DEF KeptIs
  <2>2. ASSUME NEW n \in 1..N, u[n - 1] = v[n - 1] PROVE u[n] = v[n]
    <3>1. n \in 1..Len(t) /\ t[n] = s[n]
      BY <1>1
    <3> QED
      BY <1>2, <1>3, <2>2, <3>1 DEF KeptIs
  <2> QED
    BY <1>1, <2>1, <2>2, RecursionAgrees, ZenonT(60)
<1>5. u[N] = v[N] /\ u[N] \in Seq(Chars)
  BY <1>1, <1>2, <1>4
<1>6. v[N + 1] = IF c \in Blanks THEN v[N] ELSE Append(v[N], c)
  <2>1. N + 1 \in 1..Len(t) /\ (N + 1) - 1 = N
    BY <1>1
  <2> QED
    BY <1>1, <1>3, <2>1 DEF KeptIs
<1> QED
  BY <1>1, <1>2, <1>3, <1>5, <1>6 DEF t

\* Nothing is joined to nothing, and nothing is kept of it.
LEMMA OfNothing ==
    FlattenSeq(<< >>) = << >> /\ NoBlank(<< >>) = << >>
<1>1. FlattenSeq(<< >>) = << >>
  BY DEF FlattenSeq
<1>2. << >> \in Seq(Chars) /\ Len(<< >>) = 0
  OBVIOUS
<1>3. PICK u : KeptIs(u, << >>) /\ NoBlank(<< >>) = u[Len(<< >>)]
  BY <1>2, KeptDefined
<1> QED
  BY <1>1, <1>2, <1>3 DEF KeptIs

\* A sequence has a last element.
LEMMA LastApart ==
    ASSUME NEW S, NEW t \in Seq(S), NEW n \in Nat, Len(t) = n + 1
    PROVE  \E f \in Seq(S), x \in S : t = Append(f, x) /\ Len(f) = n
<1> DEFINE f == [i \in 1..n |-> t[i]]
<1>1. f \in Seq(S) /\ Len(f) = n /\ t[n + 1] \in S
  OBVIOUS
<1>2. \A i \in 1..n : f[i] = t[i]
  OBVIOUS
<1> HIDE DEF f
<1>3. t = Append(f, t[n + 1])
  BY <1>1, <1>2
<1> QED
  BY <1>1, <1>3

LEMMA JoinAppend ==
    ASSUME NEW S, NEW s \in Seq(S), NEW f \in Seq(S), NEW x \in S
    PROVE  s \o Append(f, x) = Append(s \o f, x) /\ s \o f \in Seq(S)
OBVIOUS

LEMMA JoinNothing ==
    ASSUME NEW S, NEW s \in Seq(S)
    PROVE  s \o << >> = s /\ << >> \o s = s
OBVIOUS

LEMMA JoinJoin ==
    ASSUME NEW s \in Seq(Chars), NEW t \in Seq(Chars), NEW v \in Seq(Chars)
    PROVE  (s \o t) \o v = s \o (t \o v)
OBVIOUS

LEMMA NoLength ==
    ASSUME NEW S, NEW s \in Seq(S), Len(s) = 0
    PROVE  s = << >>
OBVIOUS

\* What is true of nothing, and of a sequence with one more element, is true of each.
LEMMA SequenceInduction ==
    ASSUME NEW S, NEW T, << >> \in T, \A f \in Seq(S), x \in S : f \in T => Append(f, x) \in T
    PROVE  \A s \in Seq(S) : s \in T
<1> DEFINE N == {n \in Nat : \A s \in Seq(S) : Len(s) = n => s \in T}
<1>1. 0 \in N
  BY NoLength
<1>2. ASSUME NEW n \in Nat, n \in N PROVE n + 1 \in N
  <2> SUFFICES ASSUME NEW s \in Seq(S), Len(s) = n + 1 PROVE s \in T
    OBVIOUS
  <2>1. PICK f \in Seq(S), x \in S : s = Append(f, x) /\ Len(f) = n
    BY LastApart
  <2>2. f \in T
    BY <1>2, <2>1
  <2> QED
    BY <2>1, <2>2
<1> HIDE DEF N
<1>3. Nat \subseteq N
  BY <1>1, <1>2, Induction
<1>4. ASSUME NEW s \in Seq(S) PROVE s \in T
  <2>1. Len(s) \in N
    BY <1>3
  <2> QED
    BY <2>1 DEF N
<1> QED
  BY <1>4

LEMMA NoBlankJoin ==
    ASSUME NEW s \in Seq(Chars), NEW t \in Seq(Chars)
    PROVE  NoBlank(s \o t) = NoBlank(s) \o NoBlank(t)
<1> DEFINE T == {v \in Seq(Chars) : NoBlank(s \o v) = NoBlank(s) \o NoBlank(v)}
<1>1. NoBlank(s) \in Seq(Chars) /\ << >> \in Seq(Chars)
  <2>1. "cr" \in Chars
    BY DEF Chars
  <2> QED
    BY <2>1, NoBlankAppend
<1>2. << >> \in T
  <2>1. s \o << >> = s /\ NoBlank(s) \o << >> = NoBlank(s)
    BY <1>1, JoinNothing
  <2> QED
    BY <1>1, <2>1, OfNothing
<1>3. ASSUME NEW f \in Seq(Chars), NEW c \in Chars, f \in T PROVE Append(f, c) \in T
  <2>1. s \o Append(f, c) = Append(s \o f, c) /\ s \o f \in Seq(Chars)
    BY JoinAppend
  <2>2. NoBlank(s \o f) = NoBlank(s) \o NoBlank(f)
    BY <1>3
  <2>3. NoBlank(f) \in Seq(Chars) /\ Append(f, c) \in Seq(Chars)
    BY NoBlankAppend
  <2>4. NoBlank(Append(s \o f, c))
          = IF c \in Blanks THEN NoBlank(s \o f) ELSE Append(NoBlank(s \o f), c)
    BY <2>1, NoBlankAppend
  <2>5. NoBlank(Append(f, c)) = IF c \in Blanks THEN NoBlank(f) ELSE Append(NoBlank(f), c)
    BY NoBlankAppend
  <2>6. NoBlank(s) \o Append(NoBlank(f), c) = Append(NoBlank(s) \o NoBlank(f), c)
    BY <1>1, <2>3, JoinAppend
  <2>7. NoBlank(s \o Append(f, c)) = NoBlank(s) \o NoBlank(Append(f, c))
    BY <2>1, <2>2, <2>4, <2>5, <2>6
  <2> QED
    BY <2>3, <2>7
<1> HIDE DEF T
<1>4. t \in T
  BY <1>2, <1>3, SequenceInduction
<1> QED
  BY <1>4 DEF T

\* Nothing is kept of blanks, and all of a string without any.
LEMMA NoBlankOfBlanks ==
    ASSUME NEW s \in Seq(Chars), \A i \in 1..Len(s) : s[i] \in Blanks
    PROVE  NoBlank(s) = << >>
<1> DEFINE T == {v \in Seq(Chars) : (\A i \in 1..Len(v) : v[i] \in Blanks) => NoBlank(v) = << >>}
<1>1. << >> \in T
  BY OfNothing
<1>2. ASSUME NEW f \in Seq(Chars), NEW c \in Chars, f \in T PROVE Append(f, c) \in T
  <2> DEFINE v == Append(f, c)
  <2>1. /\ v \in Seq(Chars) /\ Len(v) = Len(f) + 1 /\ v[Len(f) + 1] = c /\ Len(f) \in Nat
        /\ \A i \in 1..Len(f) : v[i] = f[i]
    OBVIOUS
  <2>2. NoBlank(v) = IF c \in Blanks THEN NoBlank(f) ELSE Append(NoBlank(f), c)
    BY NoBlankAppend
  <2> HIDE DEF v
  <2>3. ASSUME \A i \in 1..Len(v) : v[i] \in Blanks PROVE NoBlank(v) = << >>
    <3>1. Len(f) + 1 \in 1..Len(v) /\ \A i \in 1..Len(f) : i \in 1..Len(v)
      BY <2>1
    <3>2. c \in Blanks /\ \A i \in 1..Len(f) : f[i] \in Blanks
      BY <2>1, <2>3, <3>1
    <3> QED
      BY <1>2, <2>2, <3>2
  <2> QED
    BY <2>1, <2>3 DEF v
<1> HIDE DEF T
<1>3. s \in T
  BY <1>1, <1>2, SequenceInduction
<1> QED
  BY <1>3 DEF T

LEMMA NoBlankOfOthers ==
    ASSUME NEW s \in Seq(Chars), \A i \in 1..Len(s) : s[i] \notin Blanks
    PROVE  NoBlank(s) = s
<1> DEFINE T == {v \in Seq(Chars) : (\A i \in 1..Len(v) : v[i] \notin Blanks) => NoBlank(v) = v}
<1>1. << >> \in T
  BY OfNothing
<1>2. ASSUME NEW f \in Seq(Chars), NEW c \in Chars, f \in T PROVE Append(f, c) \in T
  <2> DEFINE v == Append(f, c)
  <2>1. /\ v \in Seq(Chars) /\ Len(v) = Len(f) + 1 /\ v[Len(f) + 1] = c /\ Len(f) \in Nat
        /\ \A i \in 1..Len(f) : v[i] = f[i]
    OBVIOUS
  <2>2. NoBlank(v) = IF c \in Blanks THEN NoBlank(f) ELSE Append(NoBlank(f), c)
    BY NoBlankAppend
  <2>3. v = Append(f, c)
    OBVIOUS
  <2> HIDE DEF v
  <2>4. ASSUME \A i \in 1..Len(v) : v[i] \notin Blanks PROVE NoBlank(v) = v
    <3>1. Len(f) + 1 \in 1..Len(v) /\ \A i \in 1..Len(f) : i \in 1..Len(v)
      BY <2>1
    <3>2. c \notin Blanks /\ \A i \in 1..Len(f) : f[i] \notin Blanks
      BY <2>1, <2>4, <3>1
    <3> QED
      BY <1>2, <2>2, <2>3, <3>2
  <2> QED
    BY <2>1, <2>4 DEF v
<1> HIDE DEF T
<1>3. s \in T
  BY <1>1, <1>2, SequenceInduction
<1> QED
  BY <1>3 DEF T

\* A string put in front is joined in front.
LEMMA FlattenPrepend ==
    ASSUME NEW s \in Seq(Chars), NEW rest \in Seq(Seq(Chars))
    PROVE  FlattenSeq(<<s>> \o rest) = s \o FlattenSeq(rest)
<1> DEFINE V == Seq(Chars)
           T == {v \in Seq(V) : FlattenSeq(<<s>> \o v) = s \o FlattenSeq(v)}
<1>0. s \in V /\ rest \in Seq(V) /\ << >> \in Seq(V) /\ << >> \in V
  OBVIOUS
<1>1. << >> \in T
  <2>1. <<s>> \o << >> = Append(<< >>, s)
    <3> HIDE DEF V
    <3> QED
      BY <1>0
  <2>2. FlattenSeq(Append(<< >>, s)) = FlattenSeq(<< >>) \o s
    BY <1>0, FlattenAppend
  <2>3. << >> \o s = s /\ s \o << >> = s
    BY <1>0, JoinNothing
  <2> QED
    BY <1>0, <2>1, <2>2, <2>3, OfNothing
<1>2. ASSUME NEW f \in Seq(V), NEW x \in V, f \in T PROVE Append(f, x) \in T
  <2>1. <<s>> \o Append(f, x) = Append(<<s>> \o f, x) /\ <<s>> \o f \in Seq(V) /\ Append(f, x) \in Seq(V)
    <3> HIDE DEF V, T
    <3>1. <<s>> \in Seq(V)
      BY <1>0
    <3> QED
      BY <3>1, JoinAppend
  <2>2. FlattenSeq(Append(<<s>> \o f, x)) = FlattenSeq(<<s>> \o f) \o x
    BY <2>1, FlattenAppend
  <2>3. FlattenSeq(Append(f, x)) = FlattenSeq(f) \o x /\ FlattenSeq(f) \in V
    BY FlattenAppend
  <2>4. FlattenSeq(<<s>> \o f) = s \o FlattenSeq(f)
    BY <1>2
  <2>5. (s \o FlattenSeq(f)) \o x = s \o (FlattenSeq(f) \o x)
    BY <2>3, JoinJoin
  <2>6. FlattenSeq(<<s>> \o Append(f, x)) = s \o FlattenSeq(Append(f, x))
    BY <2>1, <2>2, <2>3, <2>4, <2>5
  <2> QED
    BY <2>1, <2>6
<1> HIDE DEF T
<1>3. rest \in T
  <2> HIDE DEF V
  <2> QED
    BY <1>0, <1>1, <1>2, SequenceInduction
<1> QED
  BY <1>3 DEF T

LEMMA JoinIs ==
    ASSUME NEW S, NEW q \in Seq(S), NEW r \in Seq(S)
    PROVE  /\ q \o r \in Seq(S) /\ Len(q \o r) = Len(q) + Len(r)
           /\ \A j \in 1..Len(q) + Len(r) : (q \o r)[j] = IF j <= Len(q) THEN q[j] ELSE r[j - Len(q)]
OBVIOUS

\* A string and its parts.
LEMMA PartIs ==
    ASSUME NEW s \in Seq(Chars), NEW i \in Nat, NEW e \in Nat, 1 <= i, i <= e + 1, e <= Len(s)
    PROVE  /\ SubSeq(s, i, e) \in Seq(Chars) /\ Len(SubSeq(s, i, e)) = e - i + 1
           /\ \A j \in 1..e - i + 1 : SubSeq(s, i, e)[j] = s[(i + j) - 1]
OBVIOUS

LEMMA PartJoin ==
    ASSUME NEW s \in Seq(Chars), NEW i \in Nat, NEW k \in Nat, NEW e \in Nat,
           1 <= i, i <= k, k <= e + 1, e <= Len(s)
    PROVE  SubSeq(s, i, e) = SubSeq(s, i, k - 1) \o SubSeq(s, k, e)
<1>1. k - 1 \in Nat /\ i <= (k - 1) + 1 /\ k - 1 <= Len(s) /\ 1 <= k /\ i <= e + 1
  BY SMT
<1> DEFINE p == SubSeq(s, i, e)
           q == SubSeq(s, i, k - 1)
           r == SubSeq(s, k, e)
<1>2. /\ p \in Seq(Chars) /\ Len(p) = e - i + 1
      /\ \A j \in 1..e - i + 1 : p[j] = s[(i + j) - 1]
  BY <1>1, PartIs
<1>3. /\ q \in Seq(Chars) /\ Len(q) = (k - 1) - i + 1
      /\ \A j \in 1..(k - 1) - i + 1 : q[j] = s[(i + j) - 1]
  BY <1>1, PartIs
<1>4. /\ r \in Seq(Chars) /\ Len(r) = e - k + 1
      /\ \A j \in 1..e - k + 1 : r[j] = s[(k + j) - 1]
  BY <1>1, PartIs
<1> HIDE DEF p, q, r
<1>5. /\ q \o r \in Seq(Chars) /\ Len(q \o r) = Len(q) + Len(r)
      /\ \A j \in 1..Len(q) + Len(r) : (q \o r)[j] = IF j <= Len(q) THEN q[j] ELSE r[j - Len(q)]
  BY <1>3, <1>4, JoinIs
<1>6. Len(p) = Len(q) + Len(r)
  BY <1>2, <1>3, <1>4
<1>7. \A j \in 1..Len(q) + Len(r) : p[j] = IF j <= Len(q) THEN q[j] ELSE r[j - Len(q)]
  <2> SUFFICES ASSUME NEW j \in 1..Len(q) + Len(r)
               PROVE  p[j] = IF j <= Len(q) THEN q[j] ELSE r[j - Len(q)]
    OBVIOUS
  <2>1. j \in 1..e - i + 1 /\ p[j] = s[(i + j) - 1]
    BY <1>2, <1>3, <1>4
  <2>2. CASE j <= Len(q)
    <3>1. j \in 1..(k - 1) - i + 1
      BY <1>3, <2>1, <2>2
    <3> QED
      BY <1>3, <2>1, <2>2, <3>1
  <2>3. CASE ~(j <= Len(q))
    <3>1. j - Len(q) \in 1..e - k + 1 /\ (k + (j - Len(q))) - 1 = (i + j) - 1
      BY <1>3, <2>1, <2>3
    <3> QED
      BY <1>4, <2>1, <2>3, <3>1
  <2> QED
    BY <2>2, <2>3
<1>8. p = q \o r
  BY <1>2, <1>5, <1>6, <1>7, StringsEqual
<1> QED
  BY <1>8 DEF p, q, r

LEMMA NoBlankParts ==
    ASSUME NEW s \in Seq(Chars), NEW i \in Nat, NEW k \in Nat, NEW e \in Nat,
           1 <= i, i <= k, k <= e + 1, e <= Len(s)
    PROVE  /\ NoBlank(SubSeq(s, i, e)) = NoBlank(SubSeq(s, i, k - 1)) \o NoBlank(SubSeq(s, k, e))
           /\ SubSeq(s, i, k - 1) \in Seq(Chars) /\ SubSeq(s, k, e) \in Seq(Chars)
<1>1. k - 1 \in Nat /\ i <= (k - 1) + 1 /\ k - 1 <= Len(s) /\ 1 <= k
  BY SMT
<1>2. SubSeq(s, i, k - 1) \in Seq(Chars) /\ SubSeq(s, k, e) \in Seq(Chars)
  BY <1>1, PartIs
<1>3. SubSeq(s, i, e) = SubSeq(s, i, k - 1) \o SubSeq(s, k, e)
  BY PartJoin
<1> QED
  BY <1>2, <1>3, NoBlankJoin

-----------------------------------------------------------------------------
(* What the fields keep of a line. *)

\* Every NL of the line is one of a CRNL.
Paired(buf, e) == \A j \in 2..e : buf[j] = "nl" => buf[j - 1] = "cr"

\* The first character of a line's last CRNL begins nothing but blanks.
LEMMA LastBlanks ==
    ASSUME NEW buf \in Seq(Chars), NEW e, IsLine(buf, e)
    PROVE  NoBlank(SubSeq(buf, e - 1, e)) = << >>
<1>1. e \in Nat /\ e >= 3 /\ e <= Len(buf) - 1 /\ Len(buf) \in Nat /\ buf[e - 1] = "cr" /\ buf[e] = "nl"
  BY LineFacts
<1>2. /\ e - 1 \in Nat /\ 1 <= e - 1 /\ e - 1 <= e + 1 /\ e <= Len(buf) /\ e - (e - 1) + 1 = 2
      /\ \A j \in 1..2 : ((e - 1) + j) - 1 = e - 1 \/ ((e - 1) + j) - 1 = e
  BY <1>1
<1> DEFINE s == SubSeq(buf, e - 1, e)
<1>3. s \in Seq(Chars) /\ Len(s) = 2 /\ \A j \in 1..2 : s[j] = buf[((e - 1) + j) - 1]
  BY <1>1, <1>2, PartIs
<1>4. \A j \in 1..Len(s) : s[j] \in Blanks
  <2> HIDE DEF s
  <2> QED
    BY <1>1, <1>2, <1>3 DEF Blanks
<1> HIDE DEF s
<1>5. NoBlank(s) = << >>
  BY <1>3, <1>4, NoBlankOfBlanks
<1> QED
  BY <1>5 DEF s

\* A gap adds nothing.
LEMMA GapKeepsNothing ==
    ASSUME NEW buf \in Seq(Chars), NEW e \in Nat, e <= Len(buf), NEW i \in Nat, NEW k \in Nat,
           1 <= i, i <= k, k <= e + 1, IsGap(buf, i, k)
    PROVE  NoBlank(SubSeq(buf, i, e)) = NoBlank(SubSeq(buf, k, e))
<1>1. /\ k - 1 \in Nat /\ i <= (k - 1) + 1 /\ k - 1 <= Len(buf) /\ Len(buf) \in Nat
      /\ 1 <= k /\ (k - 1) - i + 1 = k - i
  OBVIOUS
<1> DEFINE s == SubSeq(buf, i, k - 1)
<1>2. s \in Seq(Chars) /\ Len(s) = k - i /\ \A j \in 1..k - i : s[j] = buf[(i + j) - 1]
  BY <1>1, PartIs
<1>3. \A j \in 1..Len(s) : s[j] \in Blanks
  <2>1. \A j \in 1..k - i : (i + j) - 1 \in i..k - 1
    OBVIOUS
  <2> HIDE DEF s
  <2> QED
    BY <1>2, <2>1 DEF IsGap
<1>4. NoBlank(s) = << >>
  <2> HIDE DEF s
  <2> QED
    BY <1>2, <1>3, NoBlankOfBlanks
<1> DEFINE t == SubSeq(buf, k, e)
<1>5. NoBlank(SubSeq(buf, i, e)) = NoBlank(s) \o NoBlank(t) /\ t \in Seq(Chars)
  BY NoBlankParts
<1> HIDE DEF s, t
<1>6. NoBlank(t) \in Seq(Chars)
  <2>1. "cr" \in Chars
    BY DEF Chars
  <2> QED
    BY <1>5, <2>1, NoBlankAppend
<1>7. << >> \o NoBlank(t) = NoBlank(t)
  BY <1>6, JoinNothing
<1> QED
  BY <1>4, <1>5, <1>7 DEF t

LEMMA ValuesKept ==
    ASSUME NEW buf \in Seq(Chars), NEW e, IsLine(buf, e), Paired(buf, e), NEW i \in 2..e - 1,
           Placed(buf, i), NEW list \in Values(buf, i)
    PROVE  list \in Seq(Seq(Chars)) /\ NoBlank(FlattenSeq(list)) = NoBlank(SubSeq(buf, i, e))
<1>1. /\ e \in Nat /\ e >= 3 /\ e <= Len(buf) - 1 /\ Len(buf) \in Nat
      /\ buf[e - 1] = "cr" /\ buf[e] = "nl"
  BY LineFacts
<1>2. PICK f : AreLists(f, buf) /\ \A j \in 1..Len(buf) + 1 : Values(buf, j) = f[j]
  BY ValuesDefined
<1> DEFINE Good(p) == Placed(buf, p) =>
               \A v \in f[p] : NoBlank(FlattenSeq(v)) = NoBlank(SubSeq(buf, p, e))
           S == {k \in Nat : \E p \in 2..e - 1 : k = (e - 1) - p /\ ~Good(p)}
<1>3. \A p \in 2..e - 1 : Good(p)
  <2> SUFFICES ASSUME NEW p0 \in 2..e - 1, ~Good(p0) PROVE FALSE
    OBVIOUS
  <2>1. (e - 1) - p0 \in S
    <3>1. (e - 1) - p0 \in Nat
      BY <1>1
    <3> HIDE DEF Good
    <3> QED
      BY <3>1
  <2>2. PICK k \in S : \A m \in S : k <= m
    <3>1. S \in SUBSET Nat /\ S # {}
      BY <2>1
    <3> HIDE DEF S
    <3> QED
      BY <3>1, LeastNatural
  <2>3. PICK p \in 2..e - 1 : k = (e - 1) - p /\ ~Good(p)
    <3> HIDE DEF Good
    <3> QED
      BY <2>2
  <2>4. Placed(buf, p)
    BY <2>3
  <2>5. PICK v \in f[p] : NoBlank(FlattenSeq(v)) # NoBlank(SubSeq(buf, p, e))
    BY <2>3
  <2>6. p \in Nat /\ p >= 2 /\ p <= e - 1 /\ p \in 1..Len(buf) + 1 /\ p \in 2..e /\ e <= Len(buf)
    BY <1>1
  <2>7. f[p] = ValuesStep(buf, p, f[NextValue(buf, p)])
    BY <1>2, <2>6 DEF AreLists
  <2>8. CASE buf[p] = "ctl" /\ \A w : ValuesStep(buf, p, w) = {}
    BY <2>5, <2>7, <2>8
  <2>9. CASE buf[p] = "nl" /\ buf[p - 1] # "cr"
    BY <2>6, <2>9 DEF Paired
  <2>10. CASE buf[p] = "cr" /\ p = e - 1 /\ \A w : ValuesStep(buf, p, w) = {<< >>}
    <3>1. v = << >>
      BY <2>5, <2>7, <2>10
    <3>2. NoBlank(SubSeq(buf, p, e)) = << >>
      BY <2>10, LastBlanks
    <3> QED
      BY <2>5, <3>1, <3>2, OfNothing
  <2>11. ASSUME NEW n \in p + 1..e - 1, NextValue(buf, p) = n, Placed(buf, n),
                \/ /\ \A j \in p..n - 1 : buf[j] \in Text
                   /\ \A w : ValuesStep(buf, p, w)
                               = {<<SubSeq(buf, p, n - 1)>> \o rest : rest \in w}
                \/ /\ IsGap(buf, p, n)
                   /\ \A w : ValuesStep(buf, p, w) = w
         PROVE  FALSE
    <3>1. /\ n \in 2..e - 1 /\ (e - 1) - n \in Nat /\ (e - 1) - n < k /\ n \in 1..Len(buf) + 1
          /\ n \in Nat /\ 1 <= p /\ p <= n /\ n <= e + 1
      <4>1. k = (e - 1) - p
        BY <2>3
      <4> HIDE DEF Good, S
      <4> QED
        BY <1>1, <2>6, <4>1
    <3>2. (e - 1) - n \notin S
      <4> SUFFICES ASSUME (e - 1) - n \in S PROVE FALSE
        OBVIOUS
      <4>1. k <= (e - 1) - n /\ k \in Nat
        BY <2>2
      <4> HIDE DEF S
      <4> QED
        BY <3>1, <4>1
    <3>3. Good(n)
      <4> HIDE DEF Good
      <4> QED
        BY <3>1, <3>2
    <3>4. f[n] \in SUBSET Seq(Seq(Chars))
      BY <1>2, <3>1 DEF AreLists, Lists, Strings
    <3>5. f[p] = ValuesStep(buf, p, f[n])
      BY <2>7, <2>11
    <3>6. CASE \A w : ValuesStep(buf, p, w) = {<<SubSeq(buf, p, n - 1)>> \o rest : rest \in w}
      <4> DEFINE s == SubSeq(buf, p, n - 1)
                 t == SubSeq(buf, n, e)
      <4>1. f[p] = {<<s>> \o rest : rest \in f[n]}
        BY <3>5, <3>6
      <4>2. /\ NoBlank(SubSeq(buf, p, e)) = NoBlank(s) \o NoBlank(t)
            /\ s \in Seq(Chars) /\ t \in Seq(Chars)
        BY <1>1, <2>6, <3>1, NoBlankParts
      <4> HIDE DEF s
      <4>3. PICK rest \in f[n] : v = <<s>> \o rest
        BY <2>5, <4>1
      <4>4. rest \in Seq(Seq(Chars))
        BY <3>4
      <4>5. FlattenSeq(v) = s \o FlattenSeq(rest) /\ FlattenSeq(rest) \in Seq(Chars)
        BY <4>2, <4>3, <4>4, FlattenPrepend, FlattenAppend
      <4>6. NoBlank(FlattenSeq(v)) = NoBlank(s) \o NoBlank(FlattenSeq(rest))
        BY <4>2, <4>5, NoBlankJoin
      <4>7. NoBlank(FlattenSeq(rest)) = NoBlank(t)
        BY <2>11, <3>3
      <4> QED
        BY <2>5, <4>2, <4>6, <4>7
    <3>7. CASE IsGap(buf, p, n) /\ \A w : ValuesStep(buf, p, w) = w
      <4>1. f[p] = f[n]
        BY <3>5, <3>7
      <4>2. NoBlank(SubSeq(buf, p, e)) = NoBlank(SubSeq(buf, n, e))
        BY <1>1, <2>6, <3>1, <3>7, GapKeepsNothing
      <4> QED
        BY <2>5, <2>11, <3>3, <4>1, <4>2
    <3> QED
      BY <2>11, <3>6, <3>7
  <2> QED
    BY <2>4, <2>8, <2>9, <2>10, <2>11, ValuesAt
<1>4. Good(i) /\ i \in 1..Len(buf) + 1
  BY <1>1, <1>3
<1>5. Values(buf, i) = f[i]
  BY <1>2, <1>4
<1>6. f[i] \in SUBSET Seq(Seq(Chars))
  BY <1>2, <1>4 DEF AreLists, Lists, Strings
<1> HIDE DEF S
<1> QED
  BY <1>4, <1>5, <1>6

\* The field of a line, put together again, is the line without its blanks.
LEMMA HeaderKept ==
    ASSUME NEW buf \in Seq(Chars), NEW e, IsLine(buf, e), Paired(buf, e),
           NEW field \in ParseRequestHeader(buf)
    PROVE  Whole(field) = NoBlank(SubSeq(buf, 1, e))
<1>1. /\ e \in Nat /\ e >= 3 /\ e <= Len(buf) - 1 /\ Len(buf) \in Nat /\ buf[e - 1] = "cr"
  BY LineFacts
<1>2. PICK name \in 0..e - 2 :
          /\ EndOf(Token, buf) = name /\ buf[name + 1] \notin Token
          /\ \A j \in 1..name : buf[j] \in Token
  BY NameEnd
<1> DEFINE lws == FindMultiLwsEnd(From(buf, name + 2))
           vs == Values(buf, name + lws + 2)
<1>3. ParseRequestHeader(buf)
        = IF name <= 0 \/ name + 1 >= Len(buf) THEN {}
          ELSE IF buf[name + 1] # ":" \/ lws < 0 THEN {}
          ELSE {[name |-> SubSeq(buf, 1, name), values |-> v] : v \in vs}
  BY <1>2 DEF ParseRequestHeader
<1>4. /\ name > 0 /\ buf[name + 1] = ":"
      /\ \E v \in vs : field = [name |-> SubSeq(buf, 1, name), values |-> v]
  <2> HIDE DEF lws, vs
  <2> QED
    BY <1>2, <1>3
<1>5. name + 1 # e - 1
  BY <1>1, <1>4
<1>6. /\ name + 1 \in 2..e - 2 /\ name + 2 \in 2..e - 1 /\ (name + 2) - 1 = name + 1
      /\ (name + 1) + 1 = name + 2 /\ name \in Nat /\ (name + 1) - 1 = name
      /\ name + 2 \in Nat /\ name + 1 \in Nat /\ name + 2 \in 2..e
      /\ name <= Len(buf) /\ e <= Len(buf) /\ name + 1 <= Len(buf)
      /\ name + 1 <= e + 1 /\ name + 2 <= e + 1 /\ name - 1 + 1 = name
  BY <1>1, <1>2, <1>4, <1>5
<1>7. Placed(buf, name + 2)
  BY <1>4, <1>6 DEF Placed
<1>8. PICK m \in 0..(e - 1) - (name + 2) :
             /\ lws = m /\ IsGap(buf, name + 2, (name + 2) + m)
             /\ Placed(buf, (name + 2) + m)
  BY <1>6, <1>7, MultiInLine
<1> DEFINE i == (name + 2) + m
<1>9. i \in 2..e - 1 /\ name + m + 2 = i /\ i \in Nat /\ name + 2 <= i /\ i <= e + 1
  BY <1>1, <1>6
<1>10. vs = Values(buf, i)
  BY <1>8, <1>9
<1> HIDE DEF lws, vs
<1>11. PICK v \in Values(buf, i) : field = [name |-> SubSeq(buf, 1, name), values |-> v]
  BY <1>4, <1>10
<1>12. NoBlank(FlattenSeq(v)) = NoBlank(SubSeq(buf, i, e))
  BY <1>8, <1>9, ValuesKept
<1>13. NoBlank(SubSeq(buf, name + 2, e)) = NoBlank(SubSeq(buf, i, e))
  <2> HIDE DEF i
  <2>1. 1 <= name + 2
    BY <1>6
  <2>2. IsGap(buf, name + 2, i)
    BY <1>8 DEF i
  <2> QED
    BY <1>1, <1>6, <1>9, <2>1, <2>2, GapKeepsNothing
<1> HIDE DEF i
<1> DEFINE n == SubSeq(buf, 1, name)
           c == SubSeq(buf, name + 1, name + 1)
           r == SubSeq(buf, name + 2, e)
<1>14. /\ NoBlank(SubSeq(buf, 1, e)) = NoBlank(n) \o NoBlank(SubSeq(buf, name + 1, e))
       /\ n \in Seq(Chars)
  <2>1. /\ 1 \in Nat /\ name + 1 \in Nat /\ e \in Nat
        /\ 1 <= 1 /\ 1 <= name + 1 /\ name + 1 <= e + 1 /\ e <= Len(buf)
    BY <1>1, <1>6
  <2>2. /\ NoBlank(SubSeq(buf, 1, e))
             = NoBlank(SubSeq(buf, 1, (name + 1) - 1)) \o NoBlank(SubSeq(buf, name + 1, e))
        /\ SubSeq(buf, 1, (name + 1) - 1) \in Seq(Chars)
    BY ZenonT(30), <2>1, NoBlankParts
  <2> QED
    BY <1>6, <2>2
<1>15. /\ NoBlank(SubSeq(buf, name + 1, e)) = NoBlank(c) \o NoBlank(r)
       /\ c \in Seq(Chars) /\ r \in Seq(Chars)
  <2>1. 1 <= name + 1 /\ name + 1 <= name + 2
    BY <1>6
  <2>2. /\ NoBlank(SubSeq(buf, name + 1, e))
             = NoBlank(SubSeq(buf, name + 1, (name + 2) - 1)) \o NoBlank(r)
        /\ SubSeq(buf, name + 1, (name + 2) - 1) \in Seq(Chars) /\ r \in Seq(Chars)
    BY <1>1, <1>6, <2>1, NoBlankParts
  <2> QED
    BY <1>6, <2>2
<1>16. NoBlank(n) = n
  <2>1. /\ Len(n) = name - 1 + 1 /\ \A j \in 1..name - 1 + 1 : n[j] = buf[(1 + j) - 1]
    BY <1>6, PartIs
  <2>2. \A j \in 1..name : (1 + j) - 1 = j
    OBVIOUS
  <2>3. \A j \in 1..Len(n) : n[j] \notin Blanks
    <3> HIDE DEF n
    <3> QED
      BY <1>2, <1>6, <2>1, <2>2 DEF Token, Blanks
  <2> HIDE DEF n
  <2> QED
    BY <1>14, <2>3, NoBlankOfOthers
<1>17. c = <<":">> /\ NoBlank(c) = c
  <2>1. 1 <= name + 1 /\ (name + 1) - (name + 1) + 1 = 1 /\ ((name + 1) + 1) - 1 = name + 1
        /\ name + 1 <= (name + 1) + 1
    BY <1>6
  <2>2. Len(c) = 1 /\ c[1] = buf[name + 1]
    <3>1. /\ Len(c) = (name + 1) - (name + 1) + 1
          /\ \A j \in 1..(name + 1) - (name + 1) + 1 : c[j] = buf[((name + 1) + j) - 1]
      BY <1>6, <2>1, PartIs
    <3> HIDE DEF c
    <3> QED
      BY <2>1, <3>1
  <2> HIDE DEF c
  <2>3. \A j \in 1..Len(c) : c[j] \notin Blanks
    BY <1>4, <2>2 DEF Blanks
  <2>4. c = <<":">>
    BY <1>4, <1>15, <2>2
  <2> QED
    BY <1>15, <2>3, <2>4, NoBlankOfOthers
<1>18. Whole(field) = n \o <<":">> \o NoBlank(FlattenSeq(v))
  BY <1>11 DEF Whole
<1> HIDE DEF n, c, r
<1>19. NoBlank(r) \in Seq(Chars) /\ NoBlank(FlattenSeq(v)) = NoBlank(r)
  <2>1. "cr" \in Chars
    BY DEF Chars
  <2> QED
    BY <1>12, <1>13, <1>15, <2>1, NoBlankAppend DEF r
<1>20. (n \o c) \o NoBlank(r) = n \o (c \o NoBlank(r))
  BY <1>14, <1>15, <1>19, JoinJoin
<1> QED
  BY <1>14, <1>15, <1>16, <1>17, <1>18, <1>19, <1>20

-----------------------------------------------------------------------------
(* The fields hold what was parsed. *)

Fields == [name : Seq(Chars), values : Seq(Seq(Chars))]

Wholes == [i \in DOMAIN fields |-> Whole(fields[i])]

NoBareNl(c) == \A i \in 1..c : ~BareNl(i)

EndsUpto(c) == {i \in LineEnds \ EmptyLines : i <= c}

\* The fields hold the lines behind the start line's end, "s".
HoldLines(s) ==
    /\ IsStart(s) /\ s <= consumed
    /\ NoBareNl(consumed) =>
           /\ Wholes \in Seq(Seq(Chars))
           /\ FlattenSeq(Wholes) = NoBlank(SubSeq(input, s + 1, consumed))
    /\ consumed \in LineEnds \cup EmptyLines =>
           s \in LineEnds /\ Cardinality(EndsUpto(consumed)) = Len(fields) + 1

FieldsInv ==
    /\ fields \in Seq(Fields)
    /\ consumed = 0 => fields = << >>
    /\ consumed # 0 => \E s : HoldLines(s)
    /\ fields # << >> => consumed \in LineEnds \cup EmptyLines

LEMMA SameFields ==
    ASSUME FieldsInv, UNCHANGED <<input, consumed, fields>>
    PROVE  FieldsInv'
<1>1. \A s : IsStart(s)' <=> IsStart(s)
  BY DEF IsStart, CrNlAt
<1>2. LineEnds' = LineEnds /\ EmptyLines' = EmptyLines
  BY SameInput
<1>3. NoBareNl(consumed)' <=> NoBareNl(consumed)
  BY DEF NoBareNl, BareNl
<1>4. Wholes' = Wholes /\ EndsUpto(consumed)' = EndsUpto(consumed)
  BY <1>2 DEF Wholes, EndsUpto
<1>5. \A s : HoldLines(s) => HoldLines(s)'
  BY <1>1, <1>2, <1>3, <1>4 DEF HoldLines
<1> QED
  BY <1>2, <1>5 DEF FieldsInv

LEMMA EndsFinite ==
    ASSUME input \in Seq(Chars), NEW c
    PROVE  IsFiniteSet(EndsUpto(c)) /\ EndsUpto(c) \in SUBSET Int
<1>1. Len(input) \in Nat
  OBVIOUS
<1>2. EndsUpto(c) \subseteq 1..Len(input)
  BY <1>1 DEF EndsUpto, LineEnds
<1>3. IsFiniteSet(1..Len(input))
  BY <1>1, FS_Interval
<1> QED
  BY <1>2, <1>3, FS_Subset

\* At the end of the start line there is one end of a line.
LEMMA EndsAtStart ==
    ASSUME input \in Seq(Chars), NEW s, IsStart(s)
    PROVE  /\ s \notin EmptyLines
           /\ s \in LineEnds => Cardinality(EndsUpto(s)) = 1
<1>1. s \in Nat
  BY DEF IsStart
<1>2. s \notin EmptyLines
  BY <1>1, StartFirst
<1>3. ASSUME s \in LineEnds PROVE EndsUpto(s) = {s}
  <2>1. \A i \in LineEnds : s <= i /\ i \in Int
    BY StartFirst DEF LineEnds
  <2>2. \A i \in EndsUpto(s) : i = s
    BY <1>1, <2>1 DEF EndsUpto
  <2>3. s \in EndsUpto(s)
    BY <1>1, <1>2, <1>3 DEF EndsUpto
  <2> QED
    BY <2>2, <2>3
<1> QED
  BY <1>2, <1>3, FS_Singleton

LEMMA SubSeqNone ==
    ASSUME NEW t \in Seq(Chars), NEW i \in Nat
    PROVE  SubSeq(t, i + 1, i) = << >>
<1>1. i < i + 1
  OBVIOUS
<1> QED
  BY <1>1

LEMMA InitFields ==
    ASSUME Init
    PROVE  FieldsInv
<1>1. << >> \in Seq(Fields)
  OBVIOUS
<1>2. fields = << >> /\ consumed = 0
  BY DEF Init
<1> QED
  BY <1>1, <1>2, Zenon DEF FieldsInv

LEMMA ReadStartLineFields ==
    ASSUME Inv, FieldsInv, ReadStartLine
    PROVE  FieldsInv'
<1> DEFINE end == FindStartLineEnd(Buffer)
<1>1. AtStart /\ consumed = 0 /\ at = "start" /\ end # None
  BY DEF Inv, AtStart, ReadStartLine, NeedsMore
<1>2. input \in Seq(Chars)
  BY <1>1, StartBuffer
<1>3. \/ end = Invalid /\ \A s : ~IsStart(s)
      \/ end \in 2..received /\ IsStart(end)
  BY <1>1, StartFound
<1>4. \/ Fail("invalid")
      \/ end # Invalid /\ consumed' = consumed + end /\ UNCHANGED <<input, fields>>
  BY DEF ReadStartLine
<1> HIDE DEF end
<1>5. CASE Fail("invalid")
  BY <1>5, SameFields DEF Fail
<1>6. CASE end # Invalid /\ consumed' = consumed + end /\ UNCHANGED <<input, fields>>
  <2>0. PICK s : s = end
    OBVIOUS
  <2>1. s \in 2..received /\ IsStart(s) /\ s \in Nat /\ s # 0
    BY <1>3, <1>6, <2>0
  <2>2. consumed' = s /\ fields = << >> /\ fields' = << >> /\ input' = input
    BY <1>1, <1>6, <2>0, <2>1 DEF FieldsInv
  <2>3. IsStart(s)'
    BY <2>1, <2>2 DEF IsStart, CrNlAt
  <2>4. Wholes' = << >>
    BY <2>2 DEF Wholes
  <2>5. FlattenSeq(Wholes') = NoBlank(SubSeq(input', s + 1, consumed'))
    <3>1. SubSeq(input', s + 1, consumed') = << >>
      BY <1>2, <2>1, <2>2, SubSeqNone
    <3> QED
      BY <2>4, <3>1, OfNothing
  <2>6. consumed' \in (LineEnds \cup EmptyLines)' =>
            s \in LineEnds' /\ Cardinality(EndsUpto(consumed)') = Len(fields') + 1
    <3>1. LineEnds' = LineEnds /\ EmptyLines' = EmptyLines /\ EndsUpto(consumed)' = EndsUpto(s)
      BY <2>2, SameInput DEF EndsUpto
    <3>2. s \notin EmptyLines /\ (s \in LineEnds => Cardinality(EndsUpto(s)) = 1)
      BY <1>2, <2>1, EndsAtStart
    <3>3. Len(fields') + 1 = 1
      BY <2>2
    <3> QED
      BY <2>2, <3>1, <3>2, <3>3
  <2>7. Wholes' \in Seq(Seq(Chars)) /\ fields' \in Seq(Fields)
    BY <2>2, <2>4
  <2>8. s <= consumed'
    BY <2>1, <2>2
  <2>9. HoldLines(s)'
    BY <2>3, <2>5, <2>6, <2>7, <2>8 DEF HoldLines
  <2> QED
    BY <2>1, <2>2, <2>7, <2>9 DEF FieldsInv
<1> QED
  BY <1>4, <1>5, <1>6

\* Every field the parser yields is a name and a list of values.
LEMMA HeaderType ==
    ASSUME NEW buf \in Seq(Chars)
    PROVE  ParseRequestHeader(buf) \in SUBSET Fields
<1> DEFINE name == EndOf(Token, buf)
           lws == FindMultiLwsEnd(From(buf, name + 2))
           vs == Values(buf, name + lws + 2)
<1>1. SUFFICES ASSUME NEW field \in ParseRequestHeader(buf) PROVE field \in Fields
  OBVIOUS
<1>2. ParseRequestHeader(buf)
        = IF name <= 0 \/ name + 1 >= Len(buf) THEN {}
          ELSE IF buf[name + 1] # ":" \/ lws < 0 THEN {}
          ELSE {[name |-> SubSeq(buf, 1, name), values |-> v] : v \in vs}
  BY DEF ParseRequestHeader
<1>3. /\ ~(name <= 0) /\ ~(name + 1 >= Len(buf)) /\ ~(lws < 0)
      /\ \E v \in vs : field = [name |-> SubSeq(buf, 1, name), values |-> v]
  <2> HIDE DEF name, lws, vs
  <2> QED
    BY <1>1, <1>2
<1>4. name = None \/ name \in 0..Len(buf) - 1
  <2>1. 1 \in 1..Len(buf) + 1
    OBVIOUS
  <2> QED
    BY <2>1, FromAll, EndOfFound
<1>5. /\ Len(buf) \in Nat /\ name \in Nat /\ name >= 1 /\ name <= Len(buf)
      /\ name + 2 \in 1..Len(buf) + 1
  <2> HIDE DEF name
  <2>1. Len(buf) \in Nat
    OBVIOUS
  <2> QED
    BY <1>3, <1>4, <2>1 DEF None
<1> HIDE DEF name
<1>6. lws \in {None, Invalid} \/ lws \in 0..Len(buf) - (name + 2) + 1
  BY <1>5, MultiBound
<1> HIDE DEF lws
<1>7. name + lws + 2 \in 1..Len(buf) + 1
  BY <1>3, <1>5, <1>6 DEF None, Invalid
<1>8. vs \in SUBSET Seq(Seq(Chars))
  <2>1. PICK f : AreLists(f, buf) /\ \A j \in 1..Len(buf) + 1 : Values(buf, j) = f[j]
    BY ValuesDefined
  <2> QED
    BY <1>7, <2>1 DEF AreLists, Lists, Strings
<1> HIDE DEF vs
<1>9. SubSeq(buf, 1, name) \in Seq(Chars)
  <2>1. 1 \in Nat /\ 1 <= 1 /\ 1 <= name + 1
    BY <1>5
  <2> QED
    BY <1>5, <2>1, PartIs
<1> QED
  BY <1>3, <1>8, <1>9 DEF Fields

\* A line in the buffer is one of the input.
LEMMA LineIs ==
    ASSUME TypeInv, NEW e \in Nat, e <= Len(Buffer)
    PROVE  SubSeq(Buffer, 1, e) = SubSeq(input, consumed + 1, consumed + e)
<1>1. /\ input \in Seq(Chars) /\ consumed \in Nat /\ received \in Nat /\ received <= Len(input)
      /\ Len(input) \in Nat /\ Buffer \in Seq(Chars) /\ Len(Buffer) = received - consumed
  BY TypeFacts, BufferIs
<1>2. /\ consumed + 1 \in Nat /\ consumed + e \in Nat /\ 1 <= consumed + 1
      /\ consumed + 1 <= (consumed + e) + 1 /\ consumed + e <= Len(input)
      /\ (consumed + e) - (consumed + 1) + 1 = e /\ e - 1 + 1 = e /\ 1 <= 1 /\ 1 <= e + 1
  BY <1>1
<1> DEFINE s == SubSeq(Buffer, 1, e)
           t == SubSeq(input, consumed + 1, consumed + e)
<1>3. s \in Seq(Chars) /\ Len(s) = e /\ \A j \in 1..e : s[j] = Buffer[(1 + j) - 1]
  <2>1. s \in Seq(Chars) /\ Len(s) = e - 1 + 1 /\ \A j \in 1..e - 1 + 1 : s[j] = Buffer[(1 + j) - 1]
    BY <1>1, <1>2, PartIs
  <2> HIDE DEF s
  <2> QED
    BY <1>2, <2>1
<1>4. t \in Seq(Chars) /\ Len(t) = e /\ \A j \in 1..e : t[j] = input[((consumed + 1) + j) - 1]
  <2>1. /\ t \in Seq(Chars) /\ Len(t) = (consumed + e) - (consumed + 1) + 1
        /\ \A j \in 1..(consumed + e) - (consumed + 1) + 1 : t[j] = input[((consumed + 1) + j) - 1]
    BY <1>1, <1>2, PartIs
  <2> HIDE DEF t
  <2> QED
    BY <1>2, <2>1
<1>5. \A j \in 1..e : /\ (1 + j) - 1 = j /\ ((consumed + 1) + j) - 1 = consumed + j
                      /\ j \in 1..Len(Buffer)
  BY <1>1
<1>6. \A j \in 1..e : s[j] = t[j]
  <2> HIDE DEF s, t
  <2> QED
    BY <1>3, <1>4, <1>5, BufferIs
<1> HIDE DEF s, t
<1>7. s = t
  BY <1>3, <1>4, <1>6, StringsEqual
<1> QED
  BY <1>7 DEF s, t

LEMMA LinePaired ==
    ASSUME TypeInv, NEW e \in Nat, e <= Len(Buffer), NoBareNl(consumed + e)
    PROVE  NoBareNl(consumed) /\ Paired(Buffer, e)
<1>1. consumed \in Nat
  BY TypeFacts
<1>2. \A i \in 1..consumed : i \in 1..consumed + e
  BY <1>1
<1>3. \A j \in 2..e : /\ consumed + j \in 1..consumed + e /\ consumed + j # 1
                      /\ (consumed + j) - 1 = consumed + (j - 1)
                      /\ j \in 1..Len(Buffer) /\ j - 1 \in 1..Len(Buffer)
  <2>1. Len(Buffer) \in Nat
    BY BufferIs
  <2> QED
    BY <1>1, <2>1
<1>4. \A j \in 2..e : Buffer[j] = input[consumed + j] /\ Buffer[j - 1] = input[(consumed + j) - 1]
  BY <1>3, BufferIs
<1>5. \A j \in 2..e : Buffer[j] = "nl" => Buffer[j - 1] = "cr"
  BY <1>3, <1>4 DEF NoBareNl, BareNl
<1> QED
  BY <1>2, <1>5 DEF NoBareNl, Paired

\* The next line has one more end, its own.
LEMMA EndsOfLine ==
    ASSUME Behind, NEW e, IsLine(Buffer, e)
    PROVE  /\ consumed + e \in LineEnds
           /\ Cardinality(EndsUpto(consumed + e)) = Cardinality(EndsUpto(consumed)) + 1
<1>1. /\ e \in Nat /\ e >= 3 /\ consumed + e \in LineEnds
      /\ \A i \in LineEnds : consumed < i => consumed + e <= i
      /\ \A i \in EmptyLines : consumed < i => consumed + e + 2 <= i
  BY LineInInput
<1>2. input \in Seq(Chars) /\ consumed \in Nat
  BY TypeFacts DEF Behind
<1>3. \A i \in LineEnds : i \in Int
  BY DEF LineEnds
<1>4. consumed + e \notin EmptyLines /\ consumed + e \in Nat /\ ~(consumed + e <= consumed)
  BY <1>1, <1>2
<1>5. \A i \in LineEnds : i <= consumed + e <=> i <= consumed \/ i = consumed + e
  BY <1>1, <1>2, <1>3
<1>6. EndsUpto(consumed + e) = EndsUpto(consumed) \cup {consumed + e}
  BY <1>1, <1>4, <1>5 DEF EndsUpto
<1>7. consumed + e \notin EndsUpto(consumed)
  BY <1>4 DEF EndsUpto
<1>8. IsFiniteSet(EndsUpto(consumed))
  BY <1>2, EndsFinite
<1> QED
  BY <1>1, <1>6, <1>7, <1>8, FS_AddElement

LEMMA WholesAppend ==
    ASSUME fields \in Seq(Fields), NEW field \in Fields, fields' = Append(fields, field)
    PROVE  /\ fields' \in Seq(Fields) /\ Len(fields') = Len(fields) + 1 /\ fields' # << >>
           /\ Wholes \in Seq(Seq(Chars)) /\ Whole(field) \in Seq(Chars)
                  => Wholes' = Append(Wholes, Whole(field))
<1>1. /\ fields' \in Seq(Fields) /\ Len(fields') = Len(fields) + 1 /\ Len(fields) \in Nat
      /\ DOMAIN fields' = 1..Len(fields) + 1 /\ DOMAIN fields = 1..Len(fields)
      /\ fields'[Len(fields) + 1] = field /\ \A i \in 1..Len(fields) : fields'[i] = fields[i]
  OBVIOUS
<1>2. fields' # << >>
  <2>1. Len(fields') # 0 /\ Len(<< >>) = 0
    BY <1>1
  <2> QED
    BY <2>1
<1>3. ASSUME Wholes \in Seq(Seq(Chars)), Whole(field) \in Seq(Chars)
      PROVE  Wholes' = Append(Wholes, Whole(field))
  <2> DEFINE V == Seq(Chars)
             n == Len(fields)
             w == Wholes
             x == Whole(field)
             a == Append(w, x)
             b == Wholes'
  <2>1. n \in Nat /\ b = [i \in 1..n + 1 |-> Whole(fields'[i])] /\ w = [i \in 1..n |-> Whole(fields[i])]
    BY <1>1 DEF Wholes
  <2>2. w \in Seq(V) /\ x \in V
    BY <1>3
  <2> HIDE DEF V, w, x
  <2>3. Len(w) = n
    <3> HIDE DEF n
    <3> QED
      BY <2>1, <2>2
  <2>4. a = [i \in 1..n + 1 |-> IF i = n + 1 THEN x ELSE w[i]]
    <3> HIDE DEF n
    <3> QED
      BY <2>1, <2>2, <2>3
  <2>5. \A i \in 1..n + 1 : Whole(fields'[i]) = IF i = n + 1 THEN x ELSE w[i]
    <3> SUFFICES ASSUME NEW i \in 1..n + 1
                 PROVE  Whole(fields'[i]) = IF i = n + 1 THEN x ELSE w[i]
      OBVIOUS
    <3>1. CASE i = n + 1
      BY <1>1, <3>1 DEF x
    <3>2. CASE i # n + 1
      <4>1. i \in 1..n
        BY <2>1, <3>2
      <4>2. fields'[i] = fields[i] /\ w[i] = Whole(fields[i])
        BY <1>1, <2>1, <4>1
      <4> QED
        BY <3>2, <4>2
    <3> QED
      BY <3>1, <3>2
  <2> HIDE DEF a, b, n
  <2>6. b = a
    BY <2>1, <2>4, <2>5
  <2> QED
    BY <2>6 DEF a, b, w, x
<1> QED
  BY <1>1, <1>2, <1>3

\* The parser of start lines leaves one behind, whose end is the first.
LEMMA HeldIs ==
    ASSUME Inv, FieldsInv, at = "headers"
    PROVE  /\ Behind /\ Parsed(consumed) /\ consumed \in Nat /\ consumed >= 2
           /\ TypeInv /\ input \in Seq(Chars) /\ fields \in Seq(Fields)
           /\ \E s \in 2..consumed : HoldLines(s)
<1>1. /\ Behind /\ Parsed(consumed) /\ consumed \in Nat /\ consumed >= 2 /\ TypeInv
  BY HeadersBehind DEF Behind
<1>2. PICK s : HoldLines(s)
  BY <1>1 DEF FieldsInv
<1>3. s \in 2..Len(input) /\ s <= consumed
  BY <1>2 DEF HoldLines, IsStart
<1>4. s \in 2..consumed
  BY <1>1, <1>3
<1> QED
  BY <1>1, <1>2, <1>4, TypeFacts DEF FieldsInv

LEMMA HeaderFields ==
    ASSUME Inv, FieldsInv, at = "headers",
           NEW e, IsLine(Buffer, e), NEW field \in ParseRequestHeader(Buffer),
           fields' = Append(fields, field), consumed' = consumed + e, input' = input
    PROVE  FieldsInv'
<1>1. /\ Behind /\ Parsed(consumed) /\ consumed \in Nat /\ consumed >= 2
      /\ TypeInv /\ input \in Seq(Chars) /\ fields \in Seq(Fields)
  BY HeldIs
<1>2. PICK s \in 2..consumed : HoldLines(s)
  BY HeldIs
<1>3. Buffer \in Seq(Chars) /\ Len(Buffer) = received - consumed
  BY <1>1, BufferIs
<1>4. /\ e \in Nat /\ e >= 3 /\ e <= Len(Buffer) - 1 /\ Len(Buffer) \in Nat
  BY <1>3, LineFacts
<1>5. field \in Fields
  BY <1>3, HeaderType
<1>6. consumed \in LineEnds
  <2>1. input[consumed + 1] \notin Lws
    BY <1>1, HeaderBegins
  <2>2. consumed \in 2..Len(input) - 1
    <3>1. received \in Nat /\ received <= Len(input) /\ Len(input) \in Nat
      BY <1>1, TypeFacts
    <3> QED
      BY <1>1, <1>3, <1>4, <3>1
  <2>3. CrNlAt(consumed)
    BY <1>1 DEF Behind
  <2> QED
    BY <1>1, <2>1, <2>2, <2>3, LineEndIs
<1>7. s \in LineEnds /\ Cardinality(EndsUpto(consumed)) = Len(fields) + 1
  BY <1>2, <1>6 DEF HoldLines
<1>8. /\ consumed + e \in LineEnds
      /\ Cardinality(EndsUpto(consumed + e)) = Cardinality(EndsUpto(consumed)) + 1
  BY <1>1, EndsOfLine
<1>9. /\ fields' \in Seq(Fields) /\ Len(fields') = Len(fields) + 1 /\ fields' # << >>
      /\ Wholes \in Seq(Seq(Chars)) /\ Whole(field) \in Seq(Chars)
             => Wholes' = Append(Wholes, Whole(field))
  BY <1>1, <1>5, WholesAppend
<1>10. ASSUME NoBareNl(consumed + e)
       PROVE  /\ Wholes' \in Seq(Seq(Chars))
              /\ FlattenSeq(Wholes') = NoBlank(SubSeq(input, s + 1, consumed + e))
  <2>1. e <= Len(Buffer)
    BY <1>4
  <2>2. NoBareNl(consumed) /\ Paired(Buffer, e)
    BY <1>1, <1>4, <1>10, <2>1, LinePaired
  <2>3. Wholes \in Seq(Seq(Chars)) /\ FlattenSeq(Wholes) = NoBlank(SubSeq(input, s + 1, consumed))
    BY <1>2, <2>2 DEF HoldLines
  <2> DEFINE line == SubSeq(input, consumed + 1, consumed + e)
  <2>4. Whole(field) = NoBlank(line)
    <3>1. Whole(field) = NoBlank(SubSeq(Buffer, 1, e))
      BY <1>3, <2>2, HeaderKept
    <3>2. SubSeq(Buffer, 1, e) = line
      BY <1>1, <1>4, <2>1, LineIs
    <3> QED
      BY <3>1, <3>2
  <2>5. /\ NoBlank(SubSeq(input, s + 1, consumed + e))
               = NoBlank(SubSeq(input, s + 1, consumed)) \o NoBlank(line)
        /\ line \in Seq(Chars)
    <3>1. /\ s + 1 \in Nat /\ consumed + 1 \in Nat /\ consumed + e \in Nat
          /\ 1 <= s + 1 /\ s + 1 <= consumed + 1 /\ consumed + 1 <= (consumed + e) + 1
          /\ (consumed + 1) - 1 = consumed
      BY <1>1, <1>4
    <3>2. consumed + e <= Len(input)
      <4>1. received \in Nat /\ received <= Len(input) /\ Len(input) \in Nat
        BY <1>1, TypeFacts
      <4> QED
        BY <1>1, <1>3, <1>4, <4>1
    <3>3. /\ NoBlank(SubSeq(input, s + 1, consumed + e))
               = NoBlank(SubSeq(input, s + 1, (consumed + 1) - 1)) \o NoBlank(line)
          /\ line \in Seq(Chars)
      BY ZenonT(30), <1>1, <3>1, <3>2, NoBlankParts
    <3> QED
      BY <3>1, <3>3
  <2> HIDE DEF line
  <2>6. Whole(field) \in Seq(Chars)
    <3>1. "cr" \in Chars
      BY DEF Chars
    <3> QED
      BY <2>4, <2>5, <3>1, NoBlankAppend
  <2>7. Wholes' = Append(Wholes, Whole(field))
    BY <1>9, <2>3, <2>6
  <2>8. FlattenSeq(Append(Wholes, Whole(field))) = FlattenSeq(Wholes) \o Whole(field)
    BY <2>3, <2>6, FlattenAppend
  <2>9. Append(Wholes, Whole(field)) \in Seq(Seq(Chars))
    <3> DEFINE V == Seq(Chars)
               w == Wholes
               x == Whole(field)
    <3>1. w \in Seq(V) /\ x \in V
      BY <2>3, <2>6
    <3> HIDE DEF V, w, x
    <3>2. Append(w, x) \in Seq(V)
      BY <3>1
    <3> QED
      BY <3>2 DEF V, w, x
  <2> QED
    BY <2>3, <2>4, <2>5, <2>7, <2>8, <2>9
<1>11. LineEnds' = LineEnds /\ EmptyLines' = EmptyLines /\ EndsUpto(consumed)' = EndsUpto(consumed + e)
  BY SameInput DEF EndsUpto
<1>12. HoldLines(s)'
  <2>1. IsStart(s)'
    BY <1>2 DEF HoldLines, IsStart, CrNlAt
  <2>2. s <= consumed' /\ s \in Nat
    BY <1>1, <1>4
  <2>3. NoBareNl(consumed)' => NoBareNl(consumed + e)
    BY DEF NoBareNl, BareNl
  <2>4. s \in LineEnds' /\ Cardinality(EndsUpto(consumed)') = Len(fields') + 1
    BY <1>7, <1>8, <1>9, <1>11
  <2>5. NoBareNl(consumed)' => /\ Wholes' \in Seq(Seq(Chars))
                               /\ FlattenSeq(Wholes') = NoBlank(SubSeq(input', s + 1, consumed'))
    BY <1>10, <2>3
  <2> QED
    BY <2>1, <2>2, <2>4, <2>5 DEF HoldLines
<1>13. consumed' # 0 /\ consumed' \in LineEnds'
  BY <1>1, <1>4, <1>8, <1>11
<1> QED
  BY <1>9, <1>12, <1>13 DEF FieldsInv

LEMMA ReadHeaderFields ==
    ASSUME Inv, FieldsInv, ReadHeader
    PROVE  FieldsInv'
<1> DEFINE end == FindHeaderEnd(Buffer)
<1>1. at = "headers" /\ ~EndsHead /\ end # None
  BY DEF ReadHeader, NeedsMore
<1>2. Behind /\ Parsed(consumed) /\ consumed \in Nat /\ consumed >= 2 /\ TypeInv
  BY <1>1, HeadersBehind DEF Behind
<1>3. end = Invalid \/ IsLine(Buffer, end)
  <2>1. Len(Buffer) > 0 => Buffer[1] # "cr"
    BY <1>1, <1>2, NotAtEnd
  <2>2. Buffer \in Seq(Chars)
    BY <1>2, BufferIs
  <2> QED
    BY <1>1, <2>1, <2>2, HeaderEndFound
<1>4. \/ \E reason : Fail(reason)
      \/ /\ end \in 1..LineMax
         /\ \E field \in ParseRequestHeader(Buffer) : fields' = Append(fields, field)
         /\ consumed' = consumed + end /\ input' = input
  BY DEF ReadHeader, Progress
<1>5. end \in 1..LineMax => end # Invalid
  <2>1. LineMax \in Nat
    BY Constants
  <2> HIDE DEF end
  <2> QED
    BY <2>1 DEF Invalid
<1> HIDE DEF end
<1>6. CASE \E reason : Fail(reason)
  BY <1>6, SameFields DEF Fail
<1>7. CASE /\ end \in 1..LineMax
           /\ \E field \in ParseRequestHeader(Buffer) : fields' = Append(fields, field)
           /\ consumed' = consumed + end /\ input' = input
  <2>1. PICK e : e = end
    OBVIOUS
  <2>2. IsLine(Buffer, e) /\ consumed' = consumed + e
    BY <1>3, <1>5, <1>7, <2>1
  <2>3. PICK field \in ParseRequestHeader(Buffer) : fields' = Append(fields, field)
    BY <1>7
  <2> QED
    BY <1>1, <1>7, <2>2, <2>3, HeaderFields
<1> QED
  BY <1>4, <1>6, <1>7

LEMMA ReadEndFields ==
    ASSUME Inv, FieldsInv, ReadEnd, Inv'
    PROVE  FieldsInv'
<1>1. /\ at = "headers"
      /\ \/ Fail("invalid")
         \/ consumed' = consumed + 2 /\ at' = "done" /\ UNCHANGED <<input, fields>>
  BY DEF ReadEnd
<1>2. CASE Fail("invalid")
  BY <1>2, SameFields DEF Fail
<1>3. CASE consumed' = consumed + 2 /\ at' = "done" /\ UNCHANGED <<input, fields>>
  <2>1. /\ Behind /\ Parsed(consumed) /\ consumed \in Nat /\ consumed >= 2
        /\ TypeInv /\ input \in Seq(Chars) /\ fields \in Seq(Fields)
    BY <1>1, HeldIs
  <2>2. PICK s \in 2..consumed : HoldLines(s)
    BY <1>1, HeldIs
  <2>3. PICK c : c = consumed
    OBVIOUS
  <2>4. c + 2 \in EmptyLines
    <3>1. GoodHead(consumed)' /\ consumed' = c + 2
      BY <1>3, <2>3 DEF Inv
    <3>2. GoodHead(c + 2)
      BY <1>3, <3>1, SameInput
    <3> QED
      BY <3>2 DEF GoodHead
  <2>5. /\ c + 2 \in 4..Len(input) /\ c \in LineEnds /\ input[c + 1] = "cr" /\ input[c + 2] = "nl"
        /\ Len(input) \in Nat
    <3>1. (c + 2) - 2 = c /\ (c + 2) - 1 = c + 1
      BY <2>1, <2>3
    <3> QED
      BY <2>1, <2>4, <3>1, EmptyLineFacts
  <2>6. s \in LineEnds /\ Cardinality(EndsUpto(c)) = Len(fields) + 1
    BY <2>2, <2>3, <2>5 DEF HoldLines
  <2>7. EndsUpto(c + 2) = EndsUpto(c)
    <3>1. c + 1 \notin LineEnds
      <4>1. input[c] = "nl"
        BY <2>1, <2>3 DEF Behind, CrNlAt
      <4>2. (c + 1) - 1 = c
        BY <2>1, <2>3
      <4>3. ~CrNlAt(c + 1)
        BY <4>1, <4>2 DEF CrNlAt
      <4> QED
        BY <2>1, <4>3, LineEndIs
    <3>2. \A i \in LineEnds : i \in Int
      BY DEF LineEnds
    <3>3. \A i \in LineEnds : i <= c + 2 <=> i <= c \/ i = c + 2
      BY <2>1, <2>3, <3>1, <3>2
    <3> QED
      BY <2>4, <3>3 DEF EndsUpto
  <2>8. NoBlank(SubSeq(input, s + 1, c + 2)) = NoBlank(SubSeq(input, s + 1, c))
    <3>1. /\ s + 1 \in Nat /\ c + 1 \in Nat /\ c + 2 \in Nat /\ c \in Nat
          /\ 1 <= s + 1 /\ s + 1 <= c + 1 /\ c + 1 <= (c + 2) + 1 /\ 1 <= c + 1
          /\ (c + 1) - 1 = c /\ c + 2 <= Len(input) /\ (c + 2) - (c + 1) + 1 = 2
          /\ c <= Len(input) /\ s + 1 <= c + 1
      BY <2>1, <2>3, <2>5
    <3> DEFINE t == SubSeq(input, c + 1, c + 2)
               p == SubSeq(input, s + 1, c)
    <3>2. NoBlank(SubSeq(input, s + 1, c + 2)) = NoBlank(p) \o NoBlank(t) /\ p \in Seq(Chars)
      <4>1. /\ NoBlank(SubSeq(input, s + 1, c + 2))
                  = NoBlank(SubSeq(input, s + 1, (c + 1) - 1)) \o NoBlank(t)
            /\ SubSeq(input, s + 1, (c + 1) - 1) \in Seq(Chars)
        BY ZenonT(30), <2>1, <3>1, NoBlankParts
      <4> QED
        BY <3>1, <4>1
    <3>3. NoBlank(t) = << >>
      <4>1. /\ t \in Seq(Chars) /\ Len(t) = (c + 2) - (c + 1) + 1
            /\ \A j \in 1..(c + 2) - (c + 1) + 1 : t[j] = input[((c + 1) + j) - 1]
        BY <2>1, <3>1, PartIs
      <4>2. \A j \in 1..2 : ((c + 1) + j) - 1 = c + 1 \/ ((c + 1) + j) - 1 = c + 2
        BY <3>1
      <4> HIDE DEF t
      <4>3. \A j \in 1..Len(t) : t[j] \in Blanks
        BY <2>5, <3>1, <4>1, <4>2 DEF Blanks
      <4> QED
        BY <4>1, <4>3, NoBlankOfBlanks
    <3> HIDE DEF t, p
    <3>4. NoBlank(p) \in Seq(Chars)
      <4>1. "cr" \in Chars
        BY DEF Chars
      <4> QED
        BY <3>2, <4>1, NoBlankAppend
    <3>5. NoBlank(p) \o << >> = NoBlank(p)
      BY <3>4, JoinNothing
    <3> QED
      BY <3>2, <3>3, <3>5 DEF p
  <2>9. consumed' = c + 2 /\ input' = input /\ fields' = fields /\ Wholes' = Wholes
    BY <1>3, <2>3 DEF Wholes
  <2>10. LineEnds' = LineEnds /\ EmptyLines' = EmptyLines /\ EndsUpto(consumed)' = EndsUpto(c + 2)
    BY <2>9, SameInput DEF EndsUpto
  <2>11. HoldLines(s)'
    <3>1. IsStart(s)'
      BY <2>2, <2>9 DEF HoldLines, IsStart, CrNlAt
    <3>2. s <= consumed' /\ s \in Nat
      BY <2>1, <2>3, <2>9
    <3>3. NoBareNl(consumed)' => NoBareNl(consumed)
      <4>1. \A i \in 1..c : i \in 1..c + 2
        BY <2>1, <2>3
      <4>2. NoBareNl(consumed)' => NoBareNl(c + 2)
        BY <2>9 DEF NoBareNl, BareNl
      <4> QED
        BY <2>3, <4>1, <4>2 DEF NoBareNl
    <3>4. s \in LineEnds' /\ Cardinality(EndsUpto(consumed)') = Len(fields') + 1
      BY <2>6, <2>7, <2>9, <2>10
    <3>5. NoBareNl(consumed)' => /\ Wholes' \in Seq(Seq(Chars))
                                 /\ FlattenSeq(Wholes') = NoBlank(SubSeq(input', s + 1, consumed'))
      BY <2>2, <2>3, <2>8, <2>9, <3>3 DEF HoldLines
    <3> QED
      BY <3>1, <3>2, <3>4, <3>5 DEF HoldLines
  <2>12. consumed' # 0 /\ consumed' \in EmptyLines' /\ fields' \in Seq(Fields)
    BY <2>1, <2>3, <2>4, <2>9, <2>10
  <2> QED
    BY <2>11, <2>12 DEF FieldsInv
<1> QED
  BY <1>1, <1>2, <1>3

\* The fields hold every line that has been parsed, and nothing else but blanks has been
\* lost: what find_header_end passes over is what parse_request_header_new reads.
THEOREM FieldsAreLines == Spec => []FieldsWhole
<1>1. Init => FieldsInv
  BY InitFields
<1>2. Inv /\ FieldsInv /\ [Next]_vars /\ Inv' => FieldsInv'
  <2> SUFFICES ASSUME Inv, FieldsInv, [Next]_vars, Inv' PROVE FieldsInv'
    OBVIOUS
  <2>1. CASE ReadIntoBuffer
    BY <2>1, SameFields DEF ReadIntoBuffer
  <2>2. CASE ReadNothing
    BY <2>2, SameFields DEF ReadNothing, Fail
  <2>3. CASE TimeOut
    BY <2>3, SameFields DEF TimeOut, Fail
  <2>4. CASE ReadStartLine
    BY <2>4, ReadStartLineFields
  <2>5. CASE ReadHeader
    BY <2>5, ReadHeaderFields
  <2>6. CASE ReadEnd
    BY <2>6, ReadEndFields
  <2>7. CASE UNCHANGED vars
    BY <2>7, SameFields DEF vars
  <2> QED
    BY <2>1, <2>2, <2>3, <2>4, <2>5, <2>6, <2>7 DEF Next
<1>3. Inv /\ FieldsInv => FieldsWhole
  <2> SUFFICES ASSUME Inv, FieldsInv, fields # << >>, \A i \in 1..consumed : ~BareNl(i)
               PROVE  /\ FlattenSeq(Wholes)
                           = NoBlank(SubSeq(input, Min(EndsUpto(consumed)) + 1, consumed))
                      /\ Len(fields) = Cardinality(EndsUpto(consumed)) - 1
    BY DEF FieldsWhole, Wholes, EndsUpto
  <2>1. input \in Seq(Chars) /\ consumed \in Nat
    BY TypeFacts DEF Inv
  <2>2. PICK s : HoldLines(s)
    BY DEF FieldsInv
  <2>3. /\ IsStart(s) /\ s <= consumed /\ s \in LineEnds
        /\ FlattenSeq(Wholes) = NoBlank(SubSeq(input, s + 1, consumed))
        /\ Cardinality(EndsUpto(consumed)) = Len(fields) + 1
    BY <2>2 DEF FieldsInv, HoldLines, NoBareNl
  <2>4. Min(EndsUpto(consumed)) = s
    <3>1. s \in EndsUpto(consumed)
      BY <2>1, <2>3, EndsAtStart DEF EndsUpto
    <3>2. \A i \in EndsUpto(consumed) : s <= i
      BY <2>1, <2>3, StartFirst DEF EndsUpto
    <3>3. EndsUpto(consumed) \in SUBSET Int
      BY <2>1, EndsFinite
    <3> QED
      BY <3>1, <3>2, <3>3, MinIs
  <2>5. Len(fields) \in Nat
    BY DEF FieldsInv
  <2>6. Len(fields) = Cardinality(EndsUpto(consumed)) - 1
    BY <2>3, <2>5
  <2> QED
    BY <2>3, <2>4, <2>6
<1> QED
  BY <1>1, <1>2, <1>3, Invariance, PTL DEF Spec
=============================================================================
