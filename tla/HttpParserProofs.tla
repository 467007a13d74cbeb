----------------------------- MODULE HttpParserProofs -----------------------------
(***************************************************************************)
(* Theorems about HttpParser, for every size of the buffer and all texts:  *)
(* its types, that it overwrites nothing that it has yet to parse, and     *)
(* that its verdict does not depend on where the pieces end.               *)
(***************************************************************************)
EXTENDS HttpParser, WellFoundedInduction, TLAPS

-----------------------------------------------------------------------------
(* Scanning: the first position with some property, or none.               *)

LEMMA Least ==
    ASSUME NEW S, S \subseteq Nat, S # {}
    PROVE  Min(S) \in S /\ \A k \in S : Min(S) <= k
<1>1. PICK m \in S : \A k \in S : ~ (<<k, m>> \in OpToRel(<, Nat))
  BY NatLessThanWellFounded, WFMin
<1>2. \A k \in S : m <= k
  <2>1. TAKE k \in S
  <2>2. k \in Nat /\ m \in Nat /\ ~ (k < m)
    BY <1>1 DEF OpToRel
  <2> QED BY <2>2
<1> QED BY <1>2 DEF Min

LEMMA FirstIs ==
    ASSUME NEW S, S \subseteq Nat, NEW none
    PROVE  /\ S = {} => First(S, none) = none
           /\ S # {} => First(S, none) \in S /\ \A k \in S : First(S, none) <= k
BY Least DEF First

\* Where the scan of prase_line stops.
LEMMA StopIs ==
    ASSUME TypeOK
    PROVE  /\ Stop \in check_index .. read_index
           /\ \A k \in check_index .. Stop - 1 : recv_buf[k] \notin {"CR", "LF"}
           /\ Stop < read_index => recv_buf[Stop] \in {"CR", "LF"}
<1> DEFINE Ends == {i \in check_index .. read_index - 1 : recv_buf[i] \in {"CR", "LF"}}
<1>1. read_index \in Nat /\ check_index \in 0 .. read_index
  BY ParserAssumption DEF TypeOK
<1>2. Ends \subseteq Nat
  BY <1>1
<1>3. Stop = First(Ends, read_index)
  BY DEF Stop
<1>4. CASE Ends = {}
  <2>1. Stop = read_index
    BY <1>2, <1>3, <1>4, FirstIs
  <2>2. \A k \in check_index .. read_index - 1 : recv_buf[k] \notin {"CR", "LF"}
    BY <1>4
  <2> QED BY <1>1, <2>1, <2>2
<1>5. CASE Ends # {}
  <2>1. Stop \in Ends /\ \A k \in Ends : Stop <= k
    BY <1>2, <1>3, <1>5, FirstIs
  <2>2. \A k \in check_index .. Stop - 1 : recv_buf[k] \notin {"CR", "LF"}
    <3>1. TAKE k \in check_index .. Stop - 1
    <3>2. k \in check_index .. read_index - 1 /\ ~ (Stop <= k)
      BY <1>1, <2>1
    <3> QED BY <2>1, <3>2
  <2> QED BY <1>1, <2>1, <2>2
<1> QED BY <1>4, <1>5

-----------------------------------------------------------------------------
(* The inductive invariant.                                                *)

\* No \r is left in front of the scan: a \n that it meets is never the end of a
\* line whose \r it has passed.
ScannedClean == \A k \in 0 .. check_index - 1 : recv_buf[k] # "CR"

\* What line 144 overwrites is in front of the end of the next line, or behind
\* all the data.
StartBehind ==
    /\ pc = "recv" => start_line <= check_index + 1
    /\ pc = "parse" => start_line = read_index \/ start_line <= check_index + 1

ParserInv == TypeOK /\ UnparsedIntact /\ ScannedClean /\ StartBehind

\* A line ends where the scan has stopped, at a \r with its \n behind it.
LEMMA EndIs ==
    ASSUME TypeOK, ScannedClean, NEW e \in LineEnd(Stop)
    PROVE  /\ e \in check_index .. read_index - 2
           /\ \A k \in check_index .. e - 1 : recv_buf[k] # "CR"
<1>1. /\ read_index \in Nat /\ check_index \in 0 .. read_index
      /\ Stop \in check_index .. read_index
      /\ \A k \in check_index .. Stop - 1 : recv_buf[k] \notin {"CR", "LF"}
  BY StopIs, ParserAssumption DEF TypeOK
<1>2. ~ Open(Stop)
  BY DEF LineEnd
<1>3. Stop < read_index /\ ~ (recv_buf[Stop] = "CR" /\ Stop + 1 = read_index)
  BY <1>2 DEF Open
<1>4. CASE recv_buf[Stop] = "CR"
  <2>1. e = Stop
    BY <1>2, <1>4 DEF LineEnd
  <2> QED BY <1>1, <1>3, <1>4, <2>1
<1>5. CASE recv_buf[Stop] # "CR"
  <2>1. e = Stop - 1 /\ Stop > 1 /\ recv_buf[e] = "CR"
    BY <1>2, <1>5 DEF LineEnd
  <2>2. e \in check_index .. Stop - 1 \/ e \in 0 .. check_index - 1
    BY <1>1, <2>1
  <2> QED BY <1>1, <2>1, <2>2 DEF ScannedClean
<1> QED BY <1>4, <1>5

LEMMA InitHolds == Init => ParserInv
<1> SUFFICES ASSUME Init PROVE ParserInv
  OBVIOUS
<1>1. "NUL" \in Token
  BY DEF Token
<1>2. stream \in Seq(Token) /\ Size \in Nat \ {0}
  BY ParserAssumption DEF Init
<1>3. recv_buf \in [0 .. Size - 1 -> Token]
  BY <1>1 DEF Init
<1>4. read_index \in 0 .. Size /\ read_index <= Len(stream) /\ check_index \in 0 .. read_index
      /\ start_line \in 0 .. read_index
  BY <1>2 DEF Init
<1>5. TypeOK
  BY <1>2, <1>3, <1>4 DEF Init, TypeOK
<1>6. UnparsedIntact /\ ScannedClean /\ StartBehind
  BY DEF Init, UnparsedIntact, ScannedClean, StartBehind
<1> QED BY <1>5, <1>6 DEF ParserInv

-----------------------------------------------------------------------------
(* The steps of main().                                                    *)

LEMMA RecvHolds ==
    ASSUME ParserInv, NEW n \in 1 .. Size, Recv(n)
    PROVE  ParserInv'
<1>1. /\ TypeOK /\ UnparsedIntact /\ ScannedClean /\ StartBehind
      /\ Size \in Nat /\ n \in Nat /\ read_index \in Nat /\ check_index \in 0 .. read_index
      /\ stream \in Seq(Token) /\ Len(stream) \in Nat
  BY ParserAssumption DEF ParserInv, TypeOK
<1>2. /\ read_index' = read_index + n /\ read_index + n <= Len(stream) /\ read_index + n <= Size
      /\ check_index' = check_index /\ start_line' = start_line /\ stream' = stream
      /\ pc = "recv" /\ pc' = "parse" /\ check_state' = check_state /\ peer' = peer
      /\ result' = result
  BY <1>1 DEF Recv, Room, clientVars
<1>3. recv_buf' = [i \in 0 .. Size - 1 |->
            IF i \in read_index .. read_index + n - 1 THEN stream[i + 1] ELSE recv_buf[i]]
  <2>1. \A i \in 0 .. Size - 1 : read_index + i - read_index + 1 = i + 1
    BY <1>1
  <2> QED BY <2>1 DEF Recv, Offset
<1>4. \A i \in 0 .. read_index + n - 1 : stream[i + 1] \in Token
  BY <1>1, <1>2
<1>5. recv_buf' \in [0 .. Size - 1 -> Token]
  <2>1. recv_buf \in [0 .. Size - 1 -> Token]
    BY <1>1 DEF TypeOK
  <2>2. ASSUME NEW i \in 0 .. Size - 1
        PROVE  (IF i \in read_index .. read_index + n - 1 THEN stream[i + 1] ELSE recv_buf[i]) \in Token
    BY <1>1, <1>4, <2>1
  <2> QED BY <1>3, <2>2
<1>6. TypeOK'
  <2>1. read_index' \in 0 .. Size /\ check_index' \in 0 .. read_index'
    BY <1>1, <1>2
  <2>2. start_line' \in 0 .. read_index'
    BY <1>1, <1>2 DEF TypeOK
  <2> QED BY <1>1, <1>2, <1>5, <2>1, <2>2 DEF TypeOK
<1>7. UnparsedIntact'
  <2>1. ASSUME NEW i \in check_index .. read_index + n - 1
        PROVE  recv_buf'[i] = stream[i + 1]
    <3>1. i \in 0 .. Size - 1
      BY <1>1, <1>2
    <3>2. CASE i >= read_index
      <4>1. i \in read_index .. read_index + n - 1
        BY <1>1, <3>2
      <4> QED BY <1>3, <3>1, <4>1
    <3>3. CASE i < read_index
      <4>1. i \in check_index .. read_index - 1
        BY <1>1, <3>3
      <4>2. i \notin read_index .. read_index + n - 1
        BY <1>1, <3>1, <3>3
      <4>3. recv_buf'[i] = recv_buf[i]
        BY <1>3, <3>1, <4>2
      <4> QED BY <1>1, <4>1, <4>3 DEF UnparsedIntact
    <3> QED BY <1>1, <3>2, <3>3
  <2>2. check_index' .. read_index' - 1 = check_index .. read_index + n - 1
    BY <1>1, <1>2
  <2>3. ASSUME NEW i \in check_index' .. read_index' - 1
        PROVE  recv_buf'[i] = stream'[i + 1]
    BY <1>2, <2>1, <2>2
  <2> QED BY <2>3 DEF UnparsedIntact
<1>8. ScannedClean'
  <2>1. ASSUME NEW k \in 0 .. check_index - 1
        PROVE  recv_buf'[k] = recv_buf[k]
    <3>1. k \in 0 .. Size - 1 /\ k \notin read_index .. read_index + n - 1
      BY <1>1, <1>2
    <3> QED BY <1>3, <3>1
  <2> QED BY <1>1, <1>2, <2>1 DEF ScannedClean
<1>9. StartBehind'
  BY <1>1, <1>2 DEF StartBehind
<1> QED BY <1>6, <1>7, <1>8, <1>9 DEF ParserInv

\* What changes neither the text nor the indices.
LEMMA OtherHolds ==
    ASSUME ParserInv, Leave \/ Reset \/ RecvEnds \/ UNCHANGED vars
    PROVE  ParserInv'
<1>1. /\ recv_buf' = recv_buf /\ check_index' = check_index /\ start_line' = start_line
      /\ check_state' = check_state /\ read_index' = read_index /\ stream' = stream
      /\ result' = result
  BY DEF Leave, Reset, RecvEnds, vars, clientVars, parserVars
<1>2. pc' = pc \/ pc' = "done"
  BY DEF Leave, Reset, RecvEnds, vars
<1>3. peer' \in {"left", "reset"} \/ peer' = peer
  BY DEF Leave, Reset, RecvEnds, vars, clientVars
<1>4. TypeOK'
  BY <1>1, <1>2, <1>3 DEF ParserInv, TypeOK
<1>5. UnparsedIntact' /\ ScannedClean'
  BY <1>1 DEF ParserInv, UnparsedIntact, ScannedClean
<1>6. StartBehind'
  BY <1>1, <1>2 DEF ParserInv, StartBehind
<1> QED BY <1>4, <1>5, <1>6 DEF ParserInv

-----------------------------------------------------------------------------
(* The steps of prase_content.                                             *)

\* The scan goes on, or a bad line ends it.
LEMMA ScanHolds ==
    ASSUME ParserInv, LineOpen \/ LineBad
    PROVE  ParserInv'
<1>1. /\ TypeOK /\ UnparsedIntact /\ ScannedClean /\ StartBehind
      /\ read_index \in Nat /\ check_index \in 0 .. read_index /\ start_line \in 0 .. read_index
  BY ParserAssumption DEF ParserInv, TypeOK
<1>2. /\ Stop \in check_index .. read_index
      /\ \A k \in check_index .. Stop - 1 : recv_buf[k] \notin {"CR", "LF"}
  BY <1>1, StopIs
<1>3. /\ check_index' = Stop /\ recv_buf' = recv_buf /\ start_line' = start_line
      /\ check_state' = check_state /\ read_index' = read_index /\ stream' = stream /\ peer' = peer
  BY DEF LineOpen, LineBad, clientVars
<1>4. pc' \in {"recv", "done"} /\ result' \in {"NO_REQUEST", "BAD_REQUEST"}
  BY DEF LineOpen, LineBad
<1>5. TypeOK'
  <2>1. check_index' \in 0 .. read_index'
    BY <1>1, <1>2, <1>3
  <2> QED BY <1>1, <1>3, <1>4, <2>1 DEF TypeOK
<1>6. UnparsedIntact'
  <2>1. \A i \in Stop .. read_index - 1 : i \in check_index .. read_index - 1
    BY <1>1, <1>2
  <2> QED BY <1>1, <1>3, <2>1 DEF UnparsedIntact
<1>7. ScannedClean'
  <2>1. ASSUME NEW k \in 0 .. Stop - 1
        PROVE  recv_buf[k] # "CR"
    <3>1. k \in 0 .. check_index - 1 \/ k \in check_index .. Stop - 1
      BY <1>1, <1>2
    <3>2. CASE k \in 0 .. check_index - 1
      BY <1>1, <3>2 DEF ScannedClean
    <3>3. CASE k \in check_index .. Stop - 1
      BY <1>2, <3>3
    <3> QED BY <3>1, <3>2, <3>3
  <2> QED BY <1>3, <2>1 DEF ScannedClean
<1>8. StartBehind'
  <2>1. CASE LineOpen
    <3>1. Stop = read_index \/ Stop + 1 = read_index
      BY <1>1, <1>2, <2>1 DEF LineOpen, Open
    <3>2. pc' = "recv"
      BY <2>1 DEF LineOpen
    <3> QED BY <1>1, <1>3, <3>1, <3>2 DEF StartBehind
  <2>2. CASE LineBad
    <3>1. pc' = "done"
      BY <2>2 DEF LineBad
    <3> QED BY <3>1 DEF StartBehind
  <2> QED BY <2>1, <2>2
<1> QED BY <1>5, <1>6, <1>7, <1>8 DEF ParserInv

\* A line that ends at e has been handled: what is behind it is untouched, and
\* what is in front of it is overwritten with \0, or not at all.
LEMMA LineHolds ==
    ASSUME ParserInv, pc = "parse", NEW e \in LineEnd(Stop),
           check_index' = e + 2, start_line' = read_index,
           recv_buf' \in [0 .. Size - 1 -> Token],
           \A i \in 0 .. read_index - 1 :
               \/ recv_buf'[i] = recv_buf[i] /\ i # e /\ i # e + 1
               \/ recv_buf'[i] = "NUL" /\ i <= e + 1,
           pc' \in {"parse", "done"},
           check_state' \in {"REQUESTLINE", "HEADER"},
           result' \in {"NO_REQUEST", "BAD_REQUEST"},
           UNCHANGED <<clientVars, read_index>>
    PROVE  ParserInv'
<1>1. /\ TypeOK /\ UnparsedIntact /\ ScannedClean
      /\ Size \in Nat /\ read_index \in 0 .. Size /\ check_index \in 0 .. read_index
  BY ParserAssumption DEF ParserInv, TypeOK
<1>2. e \in check_index .. read_index - 2 /\ \A k \in check_index .. e - 1 : recv_buf[k] # "CR"
  BY <1>1, EndIs
<1>3. read_index' = read_index /\ stream' = stream /\ peer' = peer
  BY DEF clientVars
<1>4. TypeOK'
  <2>1. check_index' \in 0 .. read_index' /\ start_line' \in 0 .. read_index'
    BY <1>1, <1>2, <1>3
  <2> QED BY <1>1, <1>3, <2>1 DEF TypeOK
<1>5. UnparsedIntact'
  <2>1. ASSUME NEW i \in e + 2 .. read_index - 1
        PROVE  recv_buf'[i] = stream[i + 1]
    <3>1. i \in 0 .. read_index - 1 /\ i \in check_index .. read_index - 1 /\ ~ (i <= e + 1)
      BY <1>1, <1>2
    <3>2. recv_buf'[i] = recv_buf[i]
      BY <3>1
    <3> QED BY <1>1, <3>1, <3>2 DEF UnparsedIntact
  <2> QED BY <1>3, <2>1 DEF UnparsedIntact
<1>6. ScannedClean'
  <2>1. ASSUME NEW k \in 0 .. e + 1
        PROVE  recv_buf'[k] # "CR"
    <3>1. k \in 0 .. read_index - 1
      BY <1>1, <1>2
    <3>2. CASE recv_buf'[k] = "NUL"
      BY <3>2
    <3>3. CASE recv_buf'[k] = recv_buf[k] /\ k # e /\ k # e + 1
      <4>1. k \in 0 .. check_index - 1 \/ k \in check_index .. e - 1
        BY <1>1, <1>2, <3>3
      <4> QED BY <1>1, <1>2, <3>3, <4>1 DEF ScannedClean
    <3> QED BY <3>1, <3>2, <3>3
  <2>2. \A k \in 0 .. check_index' - 1 : k \in 0 .. e + 1
    BY <1>1, <1>2
  <2> QED BY <2>1, <2>2 DEF ScannedClean
<1>7. StartBehind'
  BY <1>3 DEF StartBehind
<1> QED BY <1>4, <1>5, <1>6, <1>7 DEF ParserInv

\* First among the positions of a sequence of length n, from some place on.
LEMMA FirstWithin ==
    ASSUME NEW n \in Nat, NEW S, S \subseteq 1 .. n, NEW none
    PROVE  First(S, none) = none \/ First(S, none) \in 1 .. n
<1>1. S \subseteq Nat
  OBVIOUS
<1>2. CASE S = {}
  BY <1>1, <1>2, FirstIs
<1>3. CASE S # {}
  BY <1>1, <1>3, FirstIs
<1> QED BY <1>2, <1>3

\* The text of a line is as long as the line, or shorter.
LEMMA TextIs ==
    ASSUME NEW s \in Seq(Token)
    PROVE  Text(s) \in Seq(Token) /\ Len(Text(s)) \in 0 .. Len(s)
<1> DEFINE nuls == {i \in DOMAIN s : s[i] = "NUL"}
           end == First(nuls, Len(s) + 1)
<1>1. Len(s) \in Nat /\ DOMAIN s = 1 .. Len(s)
  OBVIOUS
<1>2. nuls \subseteq 1 .. Len(s)
  BY <1>1
<1>3. end \in 1 .. Len(s) + 1
  <2> HIDE DEF nuls
  <2>1. end = Len(s) + 1 \/ end \in 1 .. Len(s)
    BY <1>1, <1>2, FirstWithin
  <2> QED BY <1>1, <2>1
<1>4. Text(s) = SubSeq(s, 1, end - 1)
  BY DEF Text
<1> HIDE DEF end
<1> QED BY <1>1, <1>3, <1>4

LEMMA ScansInside ==
    ASSUME NEW s \in Seq(Token), NEW from \in Nat \ {0}
    PROVE  BlankFrom(s, from) \in 0 .. Len(s) /\ WordFrom(s, from) \in Nat \ {0}
<1> DEFINE blanks == {k \in from .. Len(s) : s[k] = "blank"}
           words == {k \in from .. Len(s) : s[k] # "blank"}
<1>1. Len(s) \in Nat
  OBVIOUS
<1>2. blanks \subseteq 1 .. Len(s) /\ words \subseteq 1 .. Len(s)
  BY <1>1
<1>3. BlankFrom(s, from) = First(blanks, 0) /\ WordFrom(s, from) = First(words, Len(s) + 1)
  BY DEF BlankFrom, WordFrom
<1> HIDE DEF blanks, words
<1>4. First(blanks, 0) = 0 \/ First(blanks, 0) \in 1 .. Len(s)
  BY <1>1, <1>2, FirstWithin
<1>5. First(words, Len(s) + 1) = Len(s) + 1 \/ First(words, Len(s) + 1) \in 1 .. Len(s)
  BY <1>1, <1>2, FirstWithin
<1> QED BY <1>1, <1>3, <1>4, <1>5

LEMMA LineIs ==
    ASSUME TypeOK, NEW e \in Nat, e < read_index
    PROVE  Line(e) \in Seq(Token) /\ Len(Line(e)) \in 0 .. e
<1> DEFINE whole == [i \in 1 .. e - start_line |-> recv_buf[start_line + i - 1]]
<1>1. start_line \in Nat /\ read_index \in Nat /\ read_index <= Size /\ Size \in Nat
      /\ recv_buf \in [0 .. Size - 1 -> Token]
  BY ParserAssumption DEF TypeOK
<1>2. PICK n \in 0 .. e : 1 .. e - start_line = 1 .. n /\ (n > 0 => n = e - start_line)
  <2>1. CASE start_line <= e
    <3>1. e - start_line \in 0 .. e
      BY <1>1, <2>1
    <3> WITNESS e - start_line \in 0 .. e
    <3> QED OBVIOUS
  <2>2. CASE start_line > e
    <3>1. 1 .. e - start_line = 1 .. 0
      BY <1>1, <2>2
    <3> WITNESS 0 \in 0 .. e
    <3> QED BY <3>1
  <2> QED BY <1>1, <2>1, <2>2
<1>3. whole \in [1 .. n -> Token]
  <2>1. ASSUME NEW i \in 1 .. n
        PROVE  recv_buf[start_line + i - 1] \in Token
    <3>1. start_line + i - 1 \in 0 .. Size - 1
      BY <1>1, <1>2
    <3> QED BY <1>1, <3>1
  <2> QED BY <1>2, <2>1
<1>4. Line(e) = Text(whole)
  BY DEF Line
<1> HIDE DEF whole
<1>5. whole \in Seq(Token) /\ Len(whole) = n
  BY <1>3
<1>6. Line(e) \in Seq(Token) /\ Len(Line(e)) \in 0 .. n
  BY <1>4, <1>5, TextIs
<1> QED BY <1>2, <1>6

\* The blanks that are overwritten are inside the line.
LEMMA BlanksInside ==
    ASSUME TypeOK, NEW e \in Nat, e < read_index, NEW blank \in Blanks(Line(e))
    PROVE  blank \in 0 .. e
<1>1. PICK s \in Seq(Token) : s = Line(e) /\ Len(s) \in 0 .. e
  BY LineIs
<1>2. BlankFrom(s, 1) \in 0 .. Len(s)
  BY ScansInside
<1>3. BlankFrom(s, 1) + 1 \in Nat \ {0}
  BY <1>1, <1>2
<1>4. WordFrom(s, BlankFrom(s, 1) + 1) \in Nat \ {0}
  BY <1>3, ScansInside
<1>5. BlankFrom(s, WordFrom(s, BlankFrom(s, 1) + 1)) \in 0 .. Len(s)
  BY <1>4, ScansInside
<1> QED BY <1>1, <1>2, <1>5 DEF Blanks

LEMMA RequestLineHolds == ParserInv /\ RequestLine => ParserInv'
<1> SUFFICES ASSUME ParserInv, RequestLine PROVE ParserInv'
  OBVIOUS
<1>1. /\ TypeOK /\ ScannedClean
      /\ Size \in Nat /\ read_index \in 0 .. Size /\ check_index \in 0 .. read_index
      /\ recv_buf \in [0 .. Size - 1 -> Token] /\ "NUL" \in Token
  BY ParserAssumption DEF ParserInv, TypeOK, Token
<1>2. PICK e \in LineEnd(Stop) :
        /\ check_index' = e + 2 /\ start_line' = read_index
        /\ recv_buf' = Cut(Terminated(e), Blanks(Line(e)))
        /\ \/ check_state' = "HEADER" /\ UNCHANGED <<pc, result>>
           \/ pc' = "done" /\ result' = "BAD_REQUEST" /\ UNCHANGED check_state
  BY DEF RequestLine
<1>3. e \in check_index .. read_index - 2
  BY <1>1, EndIs
<1>4. e \in Nat /\ e < read_index /\ Terminated(e) \in [0 .. Size - 1 -> Token]
  BY <1>1, <1>3 DEF Terminated
<1>5. recv_buf' = [i \in 0 .. Size - 1 |->
                      IF i + 1 \in Blanks(Line(e)) THEN "NUL" ELSE Terminated(e)[i]]
  BY <1>2, <1>4 DEF Cut
<1>6. recv_buf' \in [0 .. Size - 1 -> Token]
  BY <1>1, <1>4, <1>5
<1>7. ASSUME NEW i \in 0 .. read_index - 1
      PROVE  \/ recv_buf'[i] = recv_buf[i] /\ i # e /\ i # e + 1
             \/ recv_buf'[i] = "NUL" /\ i <= e + 1
  <2>1. i \in 0 .. Size - 1
    BY <1>1
  <2>2. CASE i + 1 \in Blanks(Line(e))
    <3>1. i + 1 \in 0 .. e
      BY <1>1, <1>4, <2>2, BlanksInside
    <3> QED BY <1>4, <1>5, <2>1, <2>2, <3>1
  <2>3. CASE i + 1 \notin Blanks(Line(e))
    <3>1. recv_buf'[i] = Terminated(e)[i]
      BY <1>5, <2>1, <2>3
    <3> QED BY <1>1, <1>3, <2>1, <3>1 DEF Terminated
  <2> QED BY <2>2, <2>3
<1>8. pc = "parse" /\ UNCHANGED <<clientVars, read_index>>
  BY DEF RequestLine
<1>9. /\ pc' \in {"parse", "done"} /\ check_state' \in {"REQUESTLINE", "HEADER"}
      /\ result' \in {"NO_REQUEST", "BAD_REQUEST"}
  BY <1>1, <1>2, <1>8 DEF TypeOK
<1> QED BY <1>2, <1>6, <1>7, <1>8, <1>9, LineHolds

\* The assignment of line 144 writes to start_line.
LEMMA HeaderHolds == ParserInv /\ Header => ParserInv'
<1> SUFFICES ASSUME ParserInv, Header PROVE ParserInv'
  OBVIOUS
<1>1. /\ TypeOK /\ ScannedClean /\ StartBehind
      /\ Size \in Nat /\ read_index \in 0 .. Size /\ check_index \in 0 .. read_index
      /\ recv_buf \in [0 .. Size - 1 -> Token] /\ "NUL" \in Token
      /\ start_line \in 0 .. read_index
  BY ParserAssumption DEF ParserInv, TypeOK, Token
<1>2. PICK e \in LineEnd(Stop) :
        /\ check_index' = e + 2 /\ start_line' = read_index
        /\ recv_buf' = [i \in 0 .. Size - 1 |->
               IF i = start_line THEN "NUL" ELSE Terminated(e)[i]]
  BY DEF Header
<1>3. e \in check_index .. read_index - 2
  BY <1>1, EndIs
<1>4. e \in Nat /\ Terminated(e) \in [0 .. Size - 1 -> Token]
  BY <1>1, <1>3 DEF Terminated
<1>5. recv_buf' \in [0 .. Size - 1 -> Token]
  BY <1>1, <1>2, <1>4
<1>6. pc = "parse" /\ UNCHANGED <<clientVars, check_state, read_index, pc, result>>
  BY DEF Header
<1>7. ASSUME NEW i \in 0 .. read_index - 1
      PROVE  \/ recv_buf'[i] = recv_buf[i] /\ i # e /\ i # e + 1
             \/ recv_buf'[i] = "NUL" /\ i <= e + 1
  <2>1. i \in 0 .. Size - 1
    BY <1>1
  <2>2. CASE i = start_line
    <3>1. i <= e + 1
      BY <1>1, <1>3, <1>6, <2>2 DEF StartBehind
    <3> QED BY <1>2, <2>1, <2>2, <3>1
  <2>3. CASE i # start_line
    <3>1. recv_buf'[i] = Terminated(e)[i]
      BY <1>2, <2>1, <2>3
    <3> QED BY <1>1, <1>3, <2>1, <3>1 DEF Terminated
  <2> QED BY <2>2, <2>3
<1>8. /\ pc' \in {"parse", "done"} /\ check_state' \in {"REQUESTLINE", "HEADER"}
      /\ result' \in {"NO_REQUEST", "BAD_REQUEST"}
  BY <1>1, <1>6 DEF TypeOK
<1>9. UNCHANGED <<clientVars, read_index>>
  BY <1>6
<1> QED BY <1>2, <1>5, <1>6, <1>7, <1>8, <1>9, LineHolds

-----------------------------------------------------------------------------
LEMMA StepHolds == ParserInv /\ [Next]_vars => ParserInv'
<1> SUFFICES ASSUME ParserInv, [Next]_vars PROVE ParserInv'
  OBVIOUS
<1>1. CASE Leave \/ Reset \/ RecvEnds \/ UNCHANGED vars
  BY <1>1, OtherHolds
<1>2. CASE \E n \in 1 .. Size : Recv(n)
  BY <1>2, RecvHolds
<1>3. CASE LineOpen \/ LineBad
  BY <1>3, ScanHolds
<1>4. CASE RequestLine
  BY <1>4, RequestLineHolds
<1>5. CASE Header
  BY <1>5, HeaderHolds
<1> QED BY <1>1, <1>2, <1>3, <1>4, <1>5 DEF Next, main, prase_content

LEMMA Invariance == Spec => []ParserInv
BY InitHolds, StepHolds, PTL DEF Spec

\* Types, and that the parser's indices stay inside the data and the data
\* inside the buffer.
THEOREM TypeCorrect == Spec => []TypeOK
<1>1. ParserInv => TypeOK
  BY DEF ParserInv
<1> QED BY <1>1, Invariance, PTL

\* Whatever is sent, and wherever its pieces end: what has not been parsed yet
\* is in the buffer as it was sent, also after the assignment of line 144.
THEOREM UnparsedStays == Spec => []UnparsedIntact
<1>1. ParserInv => UnparsedIntact
  BY DEF ParserInv
<1> QED BY <1>1, Invariance, PTL

-----------------------------------------------------------------------------
(* The request line: the searches of prase_requestline() find what its      *)
(* definition as a text says.                                              *)

LEMMA FirstAt ==
    ASSUME NEW S, S \subseteq Nat, NEW none, NEW x \in S, \A k \in S : x <= k
    PROVE  First(S, none) = x
<1>1. First(S, none) \in S /\ First(S, none) <= x
  BY FirstIs
<1>2. x <= First(S, none) /\ x \in Nat /\ First(S, none) \in Nat
  BY <1>1
<1> QED BY <1>1, <1>2

\* What the searches for a blank and for a word return.
LEMMA BlankIs ==
    ASSUME NEW s \in Seq(Token), NEW from \in Nat \ {0}, BlankFrom(s, from) # 0
    PROVE  /\ BlankFrom(s, from) \in from .. Len(s) /\ s[BlankFrom(s, from)] = "blank"
           /\ \A k \in from .. BlankFrom(s, from) - 1 : s[k] # "blank"
<1> DEFINE blanks == {k \in from .. Len(s) : s[k] = "blank"}
<1>1. Len(s) \in Nat /\ blanks \subseteq Nat /\ BlankFrom(s, from) = First(blanks, 0)
  BY DEF BlankFrom
<1>2. blanks # {} /\ First(blanks, 0) \in blanks /\ \A k \in blanks : First(blanks, 0) <= k
  <2> HIDE DEF blanks
  <2> QED BY <1>1, FirstIs
<1>3. ASSUME NEW k \in from .. First(blanks, 0) - 1
      PROVE  s[k] # "blank"
  <2>1. k \in from .. Len(s) /\ ~ (First(blanks, 0) <= k)
    BY <1>1, <1>2
  <2> QED BY <1>2, <2>1
<1> QED BY <1>1, <1>2, <1>3

LEMMA WordIs ==
    ASSUME NEW s \in Seq(Token), NEW from \in Nat \ {0}
    PROVE  /\ WordFrom(s, from) # Len(s) + 1 =>
                WordFrom(s, from) \in from .. Len(s) /\ s[WordFrom(s, from)] # "blank"
           /\ \A k \in from .. WordFrom(s, from) - 1 : k <= Len(s) => s[k] = "blank"
<1> DEFINE words == {k \in from .. Len(s) : s[k] # "blank"}
           w == First(words, Len(s) + 1)
<1>1. Len(s) \in Nat /\ words \subseteq Nat /\ WordFrom(s, from) = w
  BY DEF WordFrom
<1>2. CASE words = {}
  <2>1. w = Len(s) + 1
    BY <1>1, <1>2, FirstIs
  <2>2. \A k \in from .. Len(s) : s[k] = "blank"
    BY <1>2
  <2> QED BY <1>1, <2>1, <2>2
<1>3. CASE words # {}
  <2>1. w \in words /\ \A k \in words : w <= k
    <3> HIDE DEF words
    <3> QED BY <1>1, <1>3, FirstIs
  <2>2. ASSUME NEW k \in from .. w - 1, k <= Len(s)
        PROVE  s[k] = "blank"
    <3>1. k \in from .. Len(s) /\ ~ (w <= k)
      BY <1>1, <2>1, <2>2
    <3> QED BY <2>1, <3>1
  <2> QED BY <1>1, <2>1, <2>2
<1> QED BY <1>2, <1>3

LEMMA BlankAt ==
    ASSUME NEW s \in Seq(Token), NEW from \in Nat \ {0}, NEW b \in from .. Len(s),
           s[b] = "blank", \A k \in from .. b - 1 : s[k] # "blank"
    PROVE  BlankFrom(s, from) = b
<1> DEFINE blanks == {k \in from .. Len(s) : s[k] = "blank"}
<1>1. Len(s) \in Nat /\ blanks \subseteq Nat /\ BlankFrom(s, from) = First(blanks, 0)
      /\ b \in blanks
  BY DEF BlankFrom
<1>2. \A k \in blanks : b <= k
  <2>1. SUFFICES ASSUME NEW k \in blanks, k < b
                 PROVE  FALSE
    BY <1>1
  <2>2. k \in from .. b - 1 /\ s[k] = "blank"
    BY <2>1
  <2> QED BY <2>2
<1> HIDE DEF blanks
<1> QED BY <1>1, <1>2, FirstAt

LEMMA WordAt ==
    ASSUME NEW s \in Seq(Token), NEW from \in Nat \ {0}, NEW w \in from .. Len(s),
           s[w] # "blank", \A k \in from .. w - 1 : s[k] = "blank"
    PROVE  WordFrom(s, from) = w
<1> DEFINE words == {k \in from .. Len(s) : s[k] # "blank"}
<1>1. Len(s) \in Nat /\ words \subseteq Nat /\ WordFrom(s, from) = First(words, Len(s) + 1)
      /\ w \in words
  BY DEF WordFrom
<1>2. \A k \in words : w <= k
  <2>1. SUFFICES ASSUME NEW k \in words, k < w
                 PROVE  FALSE
    BY <1>1
  <2>2. k \in from .. w - 1 /\ s[k] # "blank"
    BY <2>1
  <2> QED BY <2>2
<1> HIDE DEF words
<1> QED BY <1>1, <1>2, FirstAt

\* prase_requestline() accepts exactly the lines that are a method, a URL and a
\* version with blanks between them.
LEMMA RequestLineIs ==
    ASSUME NEW s \in Seq(Token)
    PROVE  prase_requestline(s) <=> IsRequestLine(s)
<1>1. Len(s) \in Nat
  OBVIOUS
<1>2. ASSUME prase_requestline(s)
      PROVE  IsRequestLine(s)
  <2> DEFINE url == WordFrom(s, 3)
             blank2 == BlankFrom(s, url)
             last == WordFrom(s, blank2 + 1)
  <2>1. /\ BlankFrom(s, 1) = 2 /\ s[1] = "GET" /\ blank2 # 0
        /\ last = Len(s) /\ s[Len(s)] = "HTTP/1.0"
        /\ \/ s[url] = "/path"
           \/ s[url] = "http://" /\ \E k \in url + 1 .. blank2 - 1 : s[k] \in HasSlash
    BY <1>2 DEF prase_requestline
  <2>2. 2 \in 1 .. Len(s) /\ s[2] = "blank"
    BY <2>1, BlankIs
  <2>3. url \in Nat \ {0}
    BY ScansInside
  <2>4. /\ url # Len(s) + 1 => url \in 3 .. Len(s) /\ s[url] # "blank"
        /\ \A k \in 3 .. url - 1 : k <= Len(s) => s[k] = "blank"
    BY WordIs
  <2> HIDE DEF url
  <2>5. blank2 \in url .. Len(s) /\ s[blank2] = "blank"
        /\ \A k \in url .. blank2 - 1 : s[k] # "blank"
    BY <2>1, <2>3, BlankIs
  <2>6. url \in 3 .. Len(s) /\ url < blank2 /\ blank2 \in Nat
    BY <1>1, <2>3, <2>4, <2>5
  <2> HIDE DEF blank2
  <2>7. /\ last # Len(s) + 1 => last \in blank2 + 1 .. Len(s)
        /\ \A k \in blank2 + 1 .. last - 1 : k <= Len(s) => s[k] = "blank"
    BY <2>6, WordIs
  <2> HIDE DEF last
  <2>8. blank2 + 1 <= Len(s) /\ \A k \in blank2 .. Len(s) - 1 : s[k] = "blank"
    <3>1. last = Len(s) /\ last # Len(s) + 1
      BY <1>1, <2>1
    <3>2. \A k \in blank2 + 1 .. Len(s) - 1 : s[k] = "blank"
      BY <1>1, <2>6, <2>7, <3>1
    <3> QED BY <1>1, <2>5, <2>6, <2>7, <3>1, <3>2
  <2>9. \A k \in 2 .. url - 1 : s[k] = "blank"
    BY <1>1, <2>2, <2>4, <2>6
  <2>10. url - 1 \in 2 .. Len(s) - 3 /\ blank2 - 1 \in url .. Len(s) - 2 /\ Len(s) > 4
         /\ (url - 1) + 1 = url /\ (blank2 - 1) + 1 = blank2 /\ (url - 1) + 2 = url + 1
    BY <1>1, <2>6, <2>8
  <2>11. \E b \in (url - 1) + 1 .. Len(s) - 2 :
              /\ \A k \in (url - 1) + 1 .. b : s[k] # "blank"
              /\ \A k \in b + 1 .. Len(s) - 1 : s[k] = "blank"
              /\ s[(url - 1) + 1] = "http://" => \E k \in (url - 1) + 2 .. b : s[k] \in HasSlash
    <3>1. /\ \A k \in url .. blank2 - 1 : s[k] # "blank"
          /\ \A k \in (blank2 - 1) + 1 .. Len(s) - 1 : s[k] = "blank"
          /\ s[url] = "http://" => \E k \in url + 1 .. blank2 - 1 : s[k] \in HasSlash
      BY <2>1, <2>5, <2>8, <2>10
    <3> QED BY <2>10, <3>1
  <2>12. s[(url - 1) + 1] \in {"/path", "http://"}
    BY <2>1, <2>10
  <2> QED BY <2>1, <2>9, <2>10, <2>11, <2>12 DEF IsRequestLine
<1>3. ASSUME IsRequestLine(s)
      PROVE  prase_requestline(s)
  <2>1. PICK a \in 2 .. Len(s) - 3 :
         /\ \A k \in 2 .. a : s[k] = "blank"
         /\ s[a + 1] \in {"/path", "http://"}
         /\ \E b \in a + 1 .. Len(s) - 2 :
              /\ \A k \in a + 1 .. b : s[k] # "blank"
              /\ \A k \in b + 1 .. Len(s) - 1 : s[k] = "blank"
              /\ s[a + 1] = "http://" => \E k \in a + 2 .. b : s[k] \in HasSlash
    BY <1>3 DEF IsRequestLine
  <2>2. PICK b \in a + 1 .. Len(s) - 2 :
              /\ \A k \in a + 1 .. b : s[k] # "blank"
              /\ \A k \in b + 1 .. Len(s) - 1 : s[k] = "blank"
              /\ s[a + 1] = "http://" => \E k \in a + 2 .. b : s[k] \in HasSlash
    BY <2>1
  <2>3. Len(s) > 4 /\ s[1] = "GET" /\ s[Len(s)] = "HTTP/1.0"
    BY <1>3 DEF IsRequestLine
  <2>4. BlankFrom(s, 1) = 2
    <3>1. 2 \in 1 .. Len(s) /\ s[2] = "blank" /\ \A k \in 1 .. 2 - 1 : s[k] # "blank"
      BY <1>1, <2>1, <2>3
    <3> QED BY <3>1, BlankAt
  <2>5. WordFrom(s, 3) = a + 1
    <3>1. /\ a + 1 \in 3 .. Len(s) /\ s[a + 1] # "blank"
          /\ \A k \in 3 .. (a + 1) - 1 : s[k] = "blank"
      BY <1>1, <2>1
    <3> QED BY <3>1, WordAt
  <2>6. BlankFrom(s, a + 1) = b + 1
    <3>1. /\ b + 1 \in a + 1 .. Len(s) /\ s[b + 1] = "blank" /\ a + 1 \in Nat \ {0}
          /\ \A k \in a + 1 .. (b + 1) - 1 : s[k] # "blank"
      BY <1>1, <2>1, <2>2
    <3> QED BY <3>1, BlankAt
  <2>7. WordFrom(s, b + 2) = Len(s)
    <3>1. /\ Len(s) \in b + 2 .. Len(s) /\ s[Len(s)] # "blank" /\ b + 2 \in Nat \ {0}
          /\ \A k \in b + 2 .. Len(s) - 1 : s[k] = "blank"
      BY <1>1, <2>1, <2>2, <2>3
    <3> QED BY <3>1, WordAt
  <2>8. /\ 2 + 1 = 3 /\ (b + 1) + 1 = b + 2 /\ (a + 1) + 1 = a + 2 /\ (b + 1) - 1 = b
        /\ b + 1 # 0
    BY <1>1, <2>1, <2>2
  <2> QED BY <2>1, <2>2, <2>3, <2>4, <2>5, <2>6, <2>7, <2>8 DEF prase_requestline
<1> QED BY <1>2, <1>3

-----------------------------------------------------------------------------
(* The verdict, whatever the pieces.                                       *)

\* Of the text that the scan has passed, every \r has its \n behind it and every
\* \n its \r in front of it.
PassedGood ==
    \A j \in 1 .. check_index :
        /\ stream[j] = "CR" => j < check_index /\ stream[j + 1] = "LF"
        /\ stream[j] = "LF" => j > 1 /\ stream[j - 1] = "CR"

\* The first line ends at the \r in position e.
FirstEnd(e) ==
    /\ e \in 1 .. read_index - 1 /\ stream[e] = "CR" /\ stream[e + 1] = "LF"
    /\ \A j \in 1 .. e - 1 : stream[j] # "CR"

\* Until the first line is complete nothing has been overwritten, and the scan has
\* passed no end of a line; afterwards that line has been found to be good.
Untouched ==
    /\ start_line = 0
    /\ \A k \in 0 .. read_index - 1 : recv_buf[k] = stream[k + 1]
    /\ \A j \in 1 .. check_index : stream[j] # "CR"

FirstLineGood == \E e \in Nat : FirstEnd(e) /\ IsRequestLine(Text(SubSeq(stream, 1, e - 1)))

FirstLineJudged ==
    /\ check_state = "REQUESTLINE" => Untouched
    /\ check_state = "HEADER" => FirstLineGood

\* The parser waits with a last \r to be looked at, or nothing.
WaitsAtEnd ==
    \/ check_index = read_index
    \/ check_index + 1 = read_index /\ stream[read_index] = "CR"

Verdict ==
    /\ pc # "done" => PassedGood /\ FirstLineJudged /\ result = "NO_REQUEST"
    /\ pc = "recv" => WaitsAtEnd
    /\ result = "BAD_REQUEST" => pc = "done" /\ IsBad(Received)

\* What has been received, as a text of its own.
LEMMA ReceivedIs ==
    ASSUME TypeOK
    PROVE  /\ Received \in Seq(Token) /\ Len(Received) = read_index
           /\ \A j \in 1 .. read_index : Received[j] = stream[j]
           /\ \A n \in 0 .. read_index : SubSeq(Received, 1, n) = SubSeq(stream, 1, n)
<1>1. stream \in Seq(Token) /\ read_index \in Nat /\ read_index <= Len(stream)
  BY ParserAssumption DEF TypeOK
<1>2. /\ Received \in Seq(Token) /\ Len(Received) = read_index
      /\ \A j \in 1 .. read_index : Received[j] = stream[j]
  BY <1>1 DEF Received
<1>3. ASSUME NEW n \in 0 .. read_index
      PROVE  SubSeq(Received, 1, n) = SubSeq(stream, 1, n)
  BY <1>1, <1>2, <1>3
<1> QED BY <1>2, <1>3

LEMMA FirstEndIs ==
    ASSUME TypeOK, NEW e, FirstEnd(e)
    PROVE  /\ LineEnds(Received) # {} /\ Min(LineEnds(Received)) = e
           /\ SubSeq(Received, 1, e - 1) = SubSeq(stream, 1, e - 1)
<1>1. /\ read_index \in Nat /\ Len(Received) = read_index
      /\ \A j \in 1 .. read_index : Received[j] = stream[j]
      /\ \A n \in 0 .. read_index : SubSeq(Received, 1, n) = SubSeq(stream, 1, n)
  BY ReceivedIs, ParserAssumption DEF TypeOK
<1>2. e \in 1 .. read_index - 1 /\ e - 1 \in 0 .. read_index
  BY <1>1 DEF FirstEnd
<1>3. e \in LineEnds(Received)
  BY <1>1, <1>2 DEF FirstEnd, LineEnds
<1>4. LineEnds(Received) \subseteq Nat
  BY <1>1 DEF LineEnds
<1>5. \A j \in LineEnds(Received) : e <= j
  <2>1. SUFFICES ASSUME NEW j \in LineEnds(Received), j < e
                 PROVE  FALSE
    BY <1>2, <1>4
  <2>2. j \in 1 .. e - 1 /\ stream[j] = "CR"
    BY <1>1, <1>2, <2>1 DEF LineEnds
  <2> QED BY <2>2 DEF FirstEnd
<1>6. Min(LineEnds(Received)) = e
  <2>1. First(LineEnds(Received), 0) = e
    BY <1>3, <1>4, <1>5, FirstAt
  <2> QED BY <1>3, <2>1 DEF First
<1> QED BY <1>1, <1>2, <1>3, <1>6

\* When the parser waits for more, what it has been sent is not bad.
LEMMA WaitingIsGood ==
    ASSUME TypeOK, PassedGood, FirstLineJudged, WaitsAtEnd
    PROVE  ~ IsBad(Received)
<1>1. /\ read_index \in Nat /\ check_index \in 0 .. read_index
      /\ Len(Received) = read_index
      /\ \A j \in 1 .. read_index : Received[j] = stream[j]
      /\ check_state \in {"REQUESTLINE", "HEADER"}
  BY ReceivedIs, ParserAssumption DEF TypeOK
<1>2. ASSUME NEW j \in 1 .. read_index, j > check_index
      PROVE  j = read_index /\ stream[j] = "CR"
  BY <1>1, <1>2 DEF WaitsAtEnd
<1>3. ASSUME NEW j \in 1 .. read_index - 1
      PROVE  stream[j] = "CR" => stream[j + 1] = "LF"
  <2>1. j \in 1 .. check_index
    BY <1>1, <1>2
  <2> QED BY <2>1 DEF PassedGood
<1>4. ASSUME NEW j \in 1 .. read_index, stream[j] = "LF"
      PROVE  j > 1 /\ stream[j - 1] = "CR"
  <2>1. j \in 1 .. check_index
    BY <1>1, <1>2, <1>4
  <2> QED BY <1>4, <2>1 DEF PassedGood
<1>5. ~ HasBadLine(Received)
  <2>1. \A j \in 1 .. Len(Received) - 1 : Received[j] = "CR" => Received[j + 1] = "LF"
    BY <1>1, <1>3
  <2>2. \A j \in 1 .. Len(Received) : Received[j] = "LF" => j # 1 /\ Received[j - 1] = "CR"
    BY <1>1, <1>4
  <2> QED BY <2>1, <2>2 DEF HasBadLine
<1>6. CASE check_state = "REQUESTLINE"
  <2>1. LineEnds(Received) = {}
    <3>1. SUFFICES ASSUME NEW j \in LineEnds(Received)
                   PROVE  FALSE
      OBVIOUS
    <3>2. j \in 1 .. read_index - 1 /\ stream[j] = "CR"
      BY <1>1, <3>1 DEF LineEnds
    <3>3. j \in 1 .. check_index
      BY <1>1, <1>2, <3>2
    <3> QED BY <1>6, <3>2, <3>3 DEF FirstLineJudged, Untouched
  <2> QED BY <1>5, <2>1 DEF IsBad
<1>7. CASE check_state = "HEADER"
  <2>1. PICK e \in Nat : FirstEnd(e) /\ IsRequestLine(Text(SubSeq(stream, 1, e - 1)))
    BY <1>7 DEF FirstLineJudged, FirstLineGood
  <2>2. Min(LineEnds(Received)) = e /\ SubSeq(Received, 1, e - 1) = SubSeq(stream, 1, e - 1)
    BY <2>1, FirstEndIs
  <2> QED BY <1>5, <2>1, <2>2 DEF IsBad
<1> QED BY <1>1, <1>6, <1>7

LEMMA VerdictHolds == TypeOK /\ Verdict => SplitIndependent
BY WaitingIsGood DEF Verdict, SplitIndependent

LEMMA VerdictInit == Init => Verdict
<1> SUFFICES ASSUME Init PROVE Verdict
  OBVIOUS
<1>1. /\ check_index = 0 /\ read_index = 0 /\ start_line = 0 /\ check_state = "REQUESTLINE"
      /\ result = "NO_REQUEST" /\ pc = "recv"
  BY DEF Init
<1>2. PassedGood /\ WaitsAtEnd /\ Untouched
  BY <1>1 DEF PassedGood, WaitsAtEnd, Untouched
<1> QED BY <1>1, <1>2 DEF Verdict, FirstLineJudged

\* The next piece leaves what was judged as it is.
LEMMA VerdictRecv ==
    ASSUME ParserInv, Verdict, NEW n \in 1 .. Size, Recv(n)
    PROVE  Verdict'
<1>1. /\ Size \in Nat /\ n \in Nat /\ read_index \in Nat /\ check_index \in 0 .. read_index
      /\ stream \in Seq(Token) /\ Len(stream) \in Nat
  BY ParserAssumption DEF ParserInv, TypeOK
<1>2. /\ read_index' = read_index + n /\ read_index + n <= Len(stream) /\ read_index + n <= Size
      /\ check_index' = check_index /\ start_line' = start_line /\ stream' = stream
      /\ pc = "recv" /\ pc' = "parse" /\ check_state' = check_state
      /\ result' = result
  BY <1>1 DEF Recv, Room, clientVars
<1>3. \A i \in 0 .. Size - 1 : recv_buf'[i] =
            IF i \in read_index .. read_index + n - 1 THEN stream[i + 1] ELSE recv_buf[i]
  <2>1. \A i \in 0 .. Size - 1 : read_index + i - read_index + 1 = i + 1
    BY <1>1
  <2> QED BY <2>1 DEF Recv, Offset
<1>4. PassedGood' /\ FirstLineJudged /\ result' = "NO_REQUEST"
  BY <1>2 DEF Verdict, PassedGood
<1>5. Untouched => Untouched'
  <2>1. SUFFICES ASSUME Untouched
                 PROVE  Untouched'
    OBVIOUS
  <2>2. ASSUME NEW k \in 0 .. read_index + n - 1
        PROVE  recv_buf'[k] = stream[k + 1]
    <3>1. /\ k \in 0 .. Size - 1
          /\ k \in 0 .. read_index - 1 \/ k \in read_index .. read_index + n - 1
      BY <1>1, <1>2
    <3> QED BY <1>1, <1>3, <2>1, <3>1 DEF Untouched
  <2>3. \A k \in 0 .. read_index' - 1 : recv_buf'[k] = stream'[k + 1]
    BY <1>1, <1>2, <2>2
  <2>4. start_line' = 0 /\ \A j \in 1 .. check_index' : stream'[j] # "CR"
    BY <1>2, <2>1 DEF Untouched
  <2> QED BY <2>3, <2>4 DEF Untouched
<1>6. FirstLineGood => FirstLineGood'
  <2>1. \A e \in Nat : FirstEnd(e) => FirstEnd(e)'
    BY <1>1, <1>2 DEF FirstEnd
  <2> QED BY <1>2, <2>1 DEF FirstLineGood
<1>7. FirstLineJudged'
  BY <1>2, <1>4, <1>5, <1>6 DEF FirstLineJudged
<1> QED BY <1>2, <1>4, <1>7 DEF Verdict

LEMMA VerdictOther ==
    ASSUME Verdict, Leave \/ Reset \/ RecvEnds \/ UNCHANGED vars
    PROVE  Verdict'
<1>1. /\ recv_buf' = recv_buf /\ check_index' = check_index /\ start_line' = start_line
      /\ check_state' = check_state /\ read_index' = read_index /\ stream' = stream
      /\ result' = result
  BY DEF Leave, Reset, RecvEnds, vars, clientVars, parserVars
<1>2. pc' = pc \/ pc' = "done"
  BY DEF Leave, Reset, RecvEnds, vars
<1>3. /\ PassedGood' = PassedGood /\ FirstLineJudged' = FirstLineJudged
      /\ WaitsAtEnd' = WaitsAtEnd /\ IsBad(Received)' = IsBad(Received)
  <2>1. PassedGood' = PassedGood /\ WaitsAtEnd' = WaitsAtEnd
    BY <1>1 DEF PassedGood, WaitsAtEnd
  <2>2. Received' = Received
    BY <1>1 DEF Received
  <2>3. IsBad(Received)' = IsBad(Received)
    BY <2>2 DEF IsBad, HasBadLine, LineEnds, IsRequestLine
  <2>4. Untouched' = Untouched
    BY <1>1 DEF Untouched
  <2>5. FirstLineGood' = FirstLineGood
    BY <1>1 DEF FirstLineGood, FirstEnd
  <2>6. FirstLineJudged' = FirstLineJudged
    BY <1>1, <2>4, <2>5 DEF FirstLineJudged
  <2> QED BY <2>1, <2>3, <2>6
<1> QED BY <1>1, <1>2, <1>3 DEF Verdict

\* Where the scan stops, in the text that was sent.
LEMMA ScanIs ==
    ASSUME ParserInv
    PROVE  /\ Stop \in check_index .. read_index
           /\ \A j \in check_index + 1 .. Stop : stream[j] \notin {"CR", "LF"}
           /\ Stop < read_index => /\ stream[Stop + 1] \in {"CR", "LF"}
                                   /\ recv_buf[Stop] = stream[Stop + 1]
           /\ Stop + 1 < read_index => recv_buf[Stop + 1] = stream[Stop + 2]
<1>1. /\ TypeOK /\ read_index \in Nat /\ check_index \in 0 .. read_index
      /\ \A k \in check_index .. read_index - 1 : recv_buf[k] = stream[k + 1]
  BY ParserAssumption DEF ParserInv, TypeOK, UnparsedIntact
<1>2. /\ Stop \in check_index .. read_index
      /\ \A k \in check_index .. Stop - 1 : recv_buf[k] \notin {"CR", "LF"}
      /\ Stop < read_index => recv_buf[Stop] \in {"CR", "LF"}
  BY <1>1, StopIs
<1>3. ASSUME NEW j \in check_index + 1 .. Stop
      PROVE  stream[j] \notin {"CR", "LF"}
  <2>1. /\ j - 1 \in check_index .. Stop - 1 /\ j - 1 \in check_index .. read_index - 1
        /\ (j - 1) + 1 = j
    BY <1>1, <1>2
  <2> QED BY <1>1, <1>2, <2>1
<1>4. Stop < read_index => recv_buf[Stop] = stream[Stop + 1]
  BY <1>1, <1>2
<1>5. Stop + 1 < read_index => recv_buf[Stop + 1] = stream[Stop + 2]
  <2>1. SUFFICES ASSUME Stop + 1 < read_index
                 PROVE  recv_buf[Stop + 1] = stream[Stop + 2]
    OBVIOUS
  <2>2. Stop + 1 \in check_index .. read_index - 1 /\ (Stop + 1) + 1 = Stop + 2
    BY <1>1, <1>2, <2>1
  <2> QED BY <1>1, <2>2
<1> QED BY <1>2, <1>3, <1>4, <1>5

\* A line is complete only with \r and \n where the scan has stopped.
LEMMA EndInText ==
    ASSUME ParserInv, NEW e \in LineEnd(Stop)
    PROVE  /\ e \in check_index .. read_index - 2
           /\ stream[e + 1] = "CR" /\ stream[e + 2] = "LF"
           /\ \A j \in check_index + 1 .. e : stream[j] \notin {"CR", "LF"}
<1>1. /\ read_index \in Nat /\ check_index \in 0 .. read_index /\ TypeOK /\ ScannedClean
  BY ParserAssumption DEF ParserInv, TypeOK
<1>2. /\ Stop \in check_index .. read_index
      /\ \A j \in check_index + 1 .. Stop : stream[j] \notin {"CR", "LF"}
      /\ Stop < read_index => recv_buf[Stop] = stream[Stop + 1]
      /\ Stop + 1 < read_index => recv_buf[Stop + 1] = stream[Stop + 2]
  BY ScanIs
<1>3. e \in check_index .. read_index - 2 /\ \A k \in check_index .. e - 1 : recv_buf[k] # "CR"
  BY <1>1, EndIs
<1>4. ~ Open(Stop)
  BY DEF LineEnd
<1>5. Stop < read_index /\ ~ (recv_buf[Stop] = "CR" /\ Stop + 1 = read_index)
  BY <1>4 DEF Open
<1>6. recv_buf[Stop] = "CR"
  <2>1. SUFFICES ASSUME recv_buf[Stop] # "CR"
                 PROVE  FALSE
    OBVIOUS
  <2>2. e = Stop - 1 /\ recv_buf[e] = "CR"
    BY <1>4, <2>1 DEF LineEnd
  <2>3. \A k \in check_index .. Stop - 1 : recv_buf[k] \notin {"CR", "LF"}
    BY <1>1, StopIs
  <2> QED BY <1>1, <1>2, <1>3, <2>2, <2>3
<1>7. e = Stop /\ recv_buf[Stop + 1] = "LF"
  BY <1>4, <1>6 DEF LineEnd
<1> QED BY <1>1, <1>2, <1>3, <1>5, <1>6, <1>7

\* The verdict on what has been received stays while nothing more is received.
LEMMA BadStays ==
    ASSUME stream' = stream, read_index' = read_index
    PROVE  IsBad(Received)' = IsBad(Received)
<1>1. Received' = Received
  BY DEF Received
<1> QED BY <1>1 DEF IsBad, HasBadLine, LineEnds, IsRequestLine

LEMMA FirstLineStays ==
    ASSUME stream' = stream, read_index' = read_index
    PROVE  FirstLineGood => FirstLineGood'
BY DEF FirstLineGood, FirstEnd

LEMMA VerdictOpen == ParserInv /\ Verdict /\ LineOpen => Verdict'
<1> SUFFICES ASSUME ParserInv, Verdict, LineOpen PROVE Verdict'
  OBVIOUS
<1>1. /\ read_index \in Nat /\ check_index \in 0 .. read_index
  BY ParserAssumption DEF ParserInv, TypeOK
<1>2. /\ check_index' = Stop /\ recv_buf' = recv_buf /\ start_line' = start_line
      /\ check_state' = check_state /\ read_index' = read_index /\ stream' = stream
      /\ pc = "parse" /\ pc' = "recv" /\ result' = "NO_REQUEST" /\ Open(Stop)
  BY DEF LineOpen, clientVars
<1>3. /\ Stop \in check_index .. read_index
      /\ \A j \in check_index + 1 .. Stop : stream[j] \notin {"CR", "LF"}
      /\ Stop < read_index => recv_buf[Stop] = stream[Stop + 1]
  BY ScanIs
<1>4. PassedGood /\ FirstLineJudged
  BY <1>2 DEF Verdict
<1>5. ASSUME NEW j \in 1 .. Stop
      PROVE  j \in 1 .. check_index \/ j \in check_index + 1 .. Stop
  BY <1>1, <1>3
<1>6. ASSUME NEW j \in 1 .. Stop
      PROVE  /\ stream[j] = "CR" => j < Stop /\ stream[j + 1] = "LF"
             /\ stream[j] = "LF" => j > 1 /\ stream[j - 1] = "CR"
  <2>1. CASE j \in 1 .. check_index
    BY <1>1, <1>3, <1>4, <2>1 DEF PassedGood
  <2>2. CASE j \in check_index + 1 .. Stop
    BY <1>3, <2>2
  <2> QED BY <1>5, <2>1, <2>2
<1>7. PassedGood'
  BY <1>2, <1>6 DEF PassedGood
<1>8. Untouched => Untouched'
  <2>1. SUFFICES ASSUME Untouched
                 PROVE  Untouched'
    OBVIOUS
  <2>2. \A j \in 1 .. Stop : stream[j] # "CR"
    BY <1>3, <1>5, <2>1 DEF Untouched
  <2> QED BY <1>2, <2>1, <2>2 DEF Untouched
<1>9. FirstLineJudged'
  BY <1>2, <1>4, <1>8, FirstLineStays DEF FirstLineJudged
<1>10. WaitsAtEnd'
  <2>1. Stop = read_index \/ (recv_buf[Stop] = "CR" /\ Stop + 1 = read_index)
    BY <1>1, <1>2, <1>3 DEF Open
  <2>2. Stop = read_index \/ (Stop + 1 = read_index /\ stream[read_index] = "CR")
    BY <1>1, <1>3, <2>1
  <2> QED BY <1>2, <2>2 DEF WaitsAtEnd
<1> QED BY <1>2, <1>7, <1>9, <1>10 DEF Verdict

\* What the scan refuses is bad.
LEMMA VerdictBad == ParserInv /\ Verdict /\ LineBad => Verdict'
<1> SUFFICES ASSUME ParserInv, Verdict, LineBad PROVE Verdict'
  OBVIOUS
<1>1. /\ TypeOK /\ read_index \in Nat /\ check_index \in 0 .. read_index /\ ScannedClean
  BY ParserAssumption DEF ParserInv, TypeOK
<1>2. /\ read_index' = read_index /\ stream' = stream
      /\ pc = "parse" /\ pc' = "done" /\ ~ Open(Stop) /\ LineEnd(Stop) = {}
  BY DEF LineBad, clientVars
<1>3. /\ Stop \in check_index .. read_index
      /\ \A j \in check_index + 1 .. Stop : stream[j] \notin {"CR", "LF"}
      /\ Stop < read_index => /\ stream[Stop + 1] \in {"CR", "LF"}
                              /\ recv_buf[Stop] = stream[Stop + 1]
      /\ Stop + 1 < read_index => recv_buf[Stop + 1] = stream[Stop + 2]
  BY ScanIs
<1>4. /\ Len(Received) = read_index
      /\ \A j \in 1 .. read_index : Received[j] = stream[j]
  BY <1>1, ReceivedIs
<1>5. Stop < read_index /\ ~ (recv_buf[Stop] = "CR" /\ Stop + 1 = read_index)
  BY <1>2 DEF Open
<1>6. HasBadLine(Received)
  <2>1. CASE recv_buf[Stop] = "CR"
    <3>1. recv_buf[Stop + 1] # "LF"
      BY <1>2, <2>1 DEF LineEnd
    <3>2. /\ Stop + 1 \in 1 .. Len(Received) - 1
          /\ Received[Stop + 1] = "CR" /\ Received[(Stop + 1) + 1] # "LF"
      BY <1>1, <1>3, <1>4, <1>5, <2>1, <3>1
    <3> QED BY <3>2 DEF HasBadLine
  <2>2. CASE recv_buf[Stop] # "CR"
    <3>1. Stop + 1 \in 1 .. Len(Received) /\ Received[Stop + 1] = "LF"
      BY <1>1, <1>3, <1>4, <1>5, <2>2
    <3>2. Stop + 1 = 1 \/ Received[(Stop + 1) - 1] # "CR"
      <4>1. SUFFICES ASSUME Stop > 0
                     PROVE  stream[Stop] # "CR"
        BY <1>1, <1>3, <1>4, <1>5
      <4>2. CASE Stop > check_index
        BY <1>1, <1>3, <4>2
      <4>3. CASE Stop = check_index
        <5>1. Stop \in 1 .. check_index /\ ~ (Stop < check_index)
          BY <1>1, <4>1, <4>3
        <5> QED BY <1>2, <5>1 DEF Verdict, PassedGood
      <4> QED BY <1>1, <1>3, <4>2, <4>3
    <3> QED BY <3>1, <3>2 DEF HasBadLine
  <2> QED BY <2>1, <2>2
<1>7. IsBad(Received)'
  BY <1>2, <1>6, BadStays DEF IsBad
<1> QED BY <1>2, <1>7 DEF Verdict

\* Behind a complete line everything that was passed is good.
LEMMA PassedLine ==
    ASSUME ParserInv, PassedGood, NEW e \in LineEnd(Stop), check_index' = e + 2,
           stream' = stream
    PROVE  PassedGood'
<1>1. /\ read_index \in Nat /\ check_index \in 0 .. read_index
  BY ParserAssumption DEF ParserInv, TypeOK
<1>2. /\ e \in check_index .. read_index - 2
      /\ stream[e + 1] = "CR" /\ stream[e + 2] = "LF"
      /\ \A j \in check_index + 1 .. e : stream[j] \notin {"CR", "LF"}
  BY EndInText
<1>3. ASSUME NEW j \in 1 .. e + 2
      PROVE  /\ stream[j] = "CR" => j < e + 2 /\ stream[j + 1] = "LF"
             /\ stream[j] = "LF" => j > 1 /\ stream[j - 1] = "CR"
  <2>1. CASE j \in 1 .. check_index
    BY <1>1, <1>2, <2>1 DEF PassedGood
  <2>2. CASE j \in check_index + 1 .. e
    BY <1>2, <2>2
  <2>3. CASE j = e + 1
    <3>1. j < e + 2 /\ j + 1 = e + 2
      BY <1>1, <1>2, <2>3
    <3> QED BY <1>2, <2>3, <3>1
  <2>4. CASE j = e + 2
    <3>1. j > 1 /\ j - 1 = e + 1
      BY <1>1, <1>2, <2>4
    <3> QED BY <1>2, <2>4, <3>1
  <2> QED BY <1>1, <1>2, <2>1, <2>2, <2>3, <2>4
<1> QED BY <1>3 DEF PassedGood

LEMMA VerdictHeader == ParserInv /\ Verdict /\ Header => Verdict'
<1> SUFFICES ASSUME ParserInv, Verdict, Header PROVE Verdict'
  OBVIOUS
<1>1. PICK e \in LineEnd(Stop) : check_index' = e + 2
  BY DEF Header
<1>2. /\ pc = "parse" /\ pc' = "parse" /\ check_state = "HEADER" /\ check_state' = "HEADER"
      /\ stream' = stream /\ read_index' = read_index /\ result' = result
  BY DEF Header, clientVars
<1>3. PassedGood /\ FirstLineGood /\ result = "NO_REQUEST"
  BY <1>2 DEF Verdict, FirstLineJudged
<1>4. PassedGood'
  BY <1>1, <1>2, <1>3, PassedLine
<1>5. FirstLineGood'
  BY <1>2, <1>3, FirstLineStays
<1> QED BY <1>2, <1>3, <1>4, <1>5 DEF Verdict, FirstLineJudged

\* The first line is refused if and only if it is no request line.
LEMMA VerdictRequestLine == ParserInv /\ Verdict /\ RequestLine => Verdict'
<1> SUFFICES ASSUME ParserInv, Verdict, RequestLine PROVE Verdict'
  OBVIOUS
<1>1. PICK e \in LineEnd(Stop) :
        /\ check_index' = e + 2
        /\ \/ prase_requestline(Line(e)) /\ check_state' = "HEADER" /\ UNCHANGED <<pc, result>>
           \/ /\ ~ prase_requestline(Line(e))
              /\ pc' = "done" /\ result' = "BAD_REQUEST" /\ UNCHANGED check_state
  BY DEF RequestLine
<1>2. /\ pc = "parse" /\ check_state = "REQUESTLINE"
      /\ stream' = stream /\ read_index' = read_index
  BY DEF RequestLine, clientVars
<1>3. PassedGood /\ Untouched /\ result = "NO_REQUEST"
  BY <1>2 DEF Verdict, FirstLineJudged
<1>4. /\ TypeOK /\ read_index \in Nat /\ check_index \in 0 .. read_index
      /\ stream \in Seq(Token) /\ read_index <= Len(stream)
  BY ParserAssumption DEF ParserInv, TypeOK
<1>5. /\ e \in check_index .. read_index - 2
      /\ stream[e + 1] = "CR" /\ stream[e + 2] = "LF"
      /\ \A j \in check_index + 1 .. e : stream[j] \notin {"CR", "LF"}
  BY EndInText
<1>6. Line(e) = Text(SubSeq(stream, 1, e))
  <2>1. \A k \in 1 .. e - start_line : recv_buf[start_line + k - 1] = stream[k]
    <3>1. TAKE k \in 1 .. e - start_line
    <3>2. start_line + k - 1 \in 0 .. read_index - 1 /\ (start_line + k - 1) + 1 = k
      BY <1>3, <1>4, <1>5 DEF Untouched
    <3> QED BY <1>3, <3>2 DEF Untouched
  <2>2. e - start_line = e
    BY <1>3, <1>4, <1>5 DEF Untouched
  <2>3. [k \in 1 .. e - start_line |-> recv_buf[start_line + k - 1]] = [k \in 1 .. e |-> stream[k]]
    BY <2>1, <2>2
  <2>4. [k \in 1 .. e |-> stream[k]] = SubSeq(stream, 1, e)
    BY <1>4, <1>5
  <2> QED BY <2>3, <2>4 DEF Line
<1>7. Line(e) \in Seq(Token)
  <2>1. e \in Nat /\ e < read_index
    BY <1>4, <1>5
  <2> QED BY <1>4, <2>1, LineIs
<1>8. FirstEnd(e + 1)
  <2>1. \A j \in 1 .. (e + 1) - 1 : stream[j] # "CR"
    <3>1. TAKE j \in 1 .. (e + 1) - 1
    <3>2. j \in 1 .. check_index \/ j \in check_index + 1 .. e
      BY <1>4, <1>5
    <3> QED BY <1>3, <1>5, <3>2 DEF Untouched
  <2>2. e + 1 \in 1 .. read_index - 1 /\ (e + 1) + 1 = e + 2
    BY <1>4, <1>5
  <2> QED BY <1>5, <2>1, <2>2 DEF FirstEnd
<1>9. e + 1 \in Nat /\ (e + 1) - 1 = e
  BY <1>4, <1>5
<1>10. CASE prase_requestline(Line(e))
  <2>1. check_state' = "HEADER" /\ pc' = "parse" /\ result' = "NO_REQUEST"
    BY <1>1, <1>2, <1>3, <1>10
  <2>2. IsRequestLine(Text(SubSeq(stream, 1, (e + 1) - 1)))
    BY <1>6, <1>7, <1>9, <1>10, RequestLineIs
  <2>3. FirstLineGood
    BY <1>8, <1>9, <2>2 DEF FirstLineGood
  <2>4. FirstLineGood' /\ PassedGood'
    BY <1>1, <1>2, <1>3, <2>3, FirstLineStays, PassedLine
  <2> QED BY <2>1, <2>4 DEF Verdict, FirstLineJudged
<1>11. CASE ~ prase_requestline(Line(e))
  <2>1. pc' = "done"
    BY <1>1, <1>11
  <2>2. ~ IsRequestLine(Text(SubSeq(stream, 1, (e + 1) - 1)))
    BY <1>6, <1>7, <1>9, <1>11, RequestLineIs
  <2>3. /\ LineEnds(Received) # {} /\ Min(LineEnds(Received)) = e + 1
        /\ SubSeq(Received, 1, (e + 1) - 1) = SubSeq(stream, 1, (e + 1) - 1)
    BY <1>4, <1>8, FirstEndIs
  <2>4. IsBad(Received)
    BY <2>2, <2>3 DEF IsBad
  <2>5. IsBad(Received)'
    BY <1>2, <2>4, BadStays
  <2> QED BY <2>1, <2>5 DEF Verdict
<1> QED BY <1>10, <1>11

LEMMA VerdictStep == ParserInv /\ Verdict /\ [Next]_vars => Verdict'
<1> SUFFICES ASSUME ParserInv, Verdict, [Next]_vars PROVE Verdict'
  OBVIOUS
<1>1. CASE Leave \/ Reset \/ RecvEnds \/ UNCHANGED vars
  BY <1>1, VerdictOther
<1>2. CASE \E n \in 1 .. Size : Recv(n)
  BY <1>2, VerdictRecv
<1>3. CASE LineOpen
  BY <1>3, VerdictOpen
<1>4. CASE LineBad
  BY <1>4, VerdictBad
<1>5. CASE RequestLine
  BY <1>5, VerdictRequestLine
<1>6. CASE Header
  BY <1>6, VerdictHeader
<1> QED BY <1>1, <1>2, <1>3, <1>4, <1>5, <1>6 DEF Next, main, prase_content

\* Wherever the pieces end, the parser refuses exactly what is bad when seen as a
\* whole, and goes on to read only when what it has is not.
THEOREM Judged == Spec => []SplitIndependent
<1>1. Init => ParserInv /\ Verdict
  BY InitHolds, VerdictInit
<1>2. ParserInv /\ Verdict /\ [Next]_vars => (ParserInv /\ Verdict)'
  BY StepHolds, VerdictStep
<1>3. ParserInv /\ Verdict => SplitIndependent
  BY VerdictHolds DEF ParserInv
<1> QED BY <1>1, <1>2, <1>3, PTL DEF Spec

=============================================================================
