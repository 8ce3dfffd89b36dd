------------------------------ MODULE ParserProofs ------------------------------
(***************************************************************************)
(* Proofs about Parser, for any limits and any bytes: no index leaves the  *)
(* buffer it points into, what begins with an ESC does what it does at the *)
(* start, whatever was before it, and a text is decoded piece by piece,    *)
(* whatever the pieces are.                                                *)
(***************************************************************************)
EXTENDS Parser, SequenceTheorems, FiniteSetTheorems, TLAPS

Byte == 0..255
Number == 0..MaxNumber
Params == [values : Seq(Number), current : Number, has : BOOLEAN]

\* A parser with its ten fields; what it has called the performer with is anything.
IsParser(p) ==
  p = [state |-> p.state, prev |-> p.prev, params |-> p.params,
       intermediates |-> p.intermediates, osc |-> p.osc, splits |-> p.splits,
       dcs |-> p.dcs, utf8 |-> p.utf8, out |-> p.out]

\* The parts of the inductive invariant. An unfinished character is shorter than
\* its first byte says.
Modal(p) == p.state \in States /\ p.prev \in States
ParamsFit(p) == p.params \in Params /\ Len(p.params.values) <= MaxParams
SmallFit(p) == p.intermediates \in Seq(Byte) /\ Len(p.intermediates) <= MaxIntermediates
DcsFits(p) == p.dcs \in Seq(Byte) /\ Len(p.dcs) <= MaxString
OscFits(p) ==
  /\ p.osc \in Seq(Byte) /\ Len(p.osc) <= MaxString
  /\ p.splits \in Seq(Nat)
  /\ \A i, j \in 1..Len(p.splits) :
       i <= j => p.splits[i] <= p.splits[j] /\ p.splits[j] <= Len(p.osc)
TextFits(p) ==
  /\ p.utf8 \in Seq(Byte)
  /\ p.utf8 # <<>> => Len(p.utf8) < Expected(p.utf8[1])

Sound(p) ==
  IsParser(p) /\ Modal(p) /\ ParamsFit(p) /\ SmallFit(p) /\ DcsFits(p) /\ OscFits(p) /\ TextFits(p)

-----------------------------------------------------------------------------
\* The smaller of two numbers is one of them and no larger than either.
LEMMA MinOfTwo ==
  ASSUME NEW a \in Int, NEW b \in Int
  PROVE  Min({a, b}) \in {a, b} /\ Min({a, b}) <= a /\ Min({a, b}) <= b
<1>1. \E x \in {a, b} : \A y \in {a, b} : x <= y
  OBVIOUS
<1> QED
  BY <1>1 DEF Min

\* A byte more fits where there is room for one.
LEMMA AppendFits ==
  ASSUME NEW S, NEW s \in Seq(S), NEW x \in S, NEW limit \in Nat, Len(s) < limit
  PROVE  Append(s, x) \in Seq(S) /\ Len(Append(s, x)) <= limit
BY AppendProperties, LenProperties

\* A parameter more: finish_param and finalize store it while there is room.
LEMMA Pushed ==
  ASSUME NEW params \in Params, Len(params.values) <= MaxParams
  PROVE  PushParam(params) \in Seq(Number) /\ Len(PushParam(params)) <= MaxParams
<1>1. params.values \in Seq(Number) /\ params.current \in Number
  BY DEF Params
<1> QED
  BY <1>1, AppendFits, ParserAssumption DEF PushParam

\* add_digit saturates at MaxNumber, and no parameter operation goes beyond the array.
LEMMA ParamOperations ==
  ASSUME NEW params \in Params, Len(params.values) <= MaxParams, NEW digit \in Nat
  PROVE  /\ AddDigit(params, digit) \in Params
         /\ Len(AddDigit(params, digit).values) <= MaxParams
         /\ FinishParam(params) \in Params
         /\ Len(FinishParam(params).values) <= MaxParams
         /\ Finalized(params) \in Seq(Number)
         /\ Len(Finalized(params)) <= MaxParams
<1> DEFINE grown == params.current * 10 + digit
           least == Min({MaxNumber, grown})
<1>1. params.values \in Seq(Number) /\ params.current \in Nat /\ MaxNumber \in Nat
  BY ParserAssumption DEF Params, Number
<1>2. grown \in Nat
  BY <1>1
<1>3. least \in Number
  <2> HIDE DEF grown
  <2>1. MaxNumber \in Int /\ grown \in Int
    BY <1>1, <1>2
  <2>2. least \in {MaxNumber, grown} /\ least <= MaxNumber
    BY <2>1, MinOfTwo, Zenon
  <2> QED
    BY <1>1, <1>2, <2>2 DEF Number
<1>4. AddDigit(params, digit) = [params EXCEPT !.current = least, !.has = TRUE]
  BY DEF AddDigit
<1>5. AddDigit(params, digit) \in Params /\ AddDigit(params, digit).values = params.values
  <2> HIDE DEF least
  <2> QED
    BY <1>3, <1>4 DEF Params
<1>6. 0 \in Number
  BY <1>1 DEF Number
<1>7. FinishParam(params) \in Params /\ FinishParam(params).values = PushParam(params)
  BY <1>6, Pushed DEF FinishParam, Params
<1> QED
  BY <1>1, <1>5, <1>7, Pushed DEF Finalized

-----------------------------------------------------------------------------
\* A parser that differs in what the performer was called with, and in a text that
\* fits, is as sound.
LEMMA OtherFields ==
  ASSUME NEW p, Sound(p), NEW q, IsParser(q), TextFits(q),
         q.state = p.state, q.prev = p.prev, q.params = p.params,
         q.intermediates = p.intermediates, q.osc = p.osc, q.splits = p.splits, q.dcs = p.dcs
  PROVE  Sound(q)
BY DEF Sound, Modal, ParamsFit, SmallFit, DcsFits, OscFits

\* A call of the performer changes nothing else.
LEMMA EmitKeeps ==
  ASSUME NEW p, Sound(p), NEW event
  PROVE  Sound(Emit(p, event)) /\ Emit(p, event).utf8 = p.utf8
<1> DEFINE q == Emit(p, event)
<1>1. /\ IsParser(q) /\ q.utf8 = p.utf8
      /\ q.state = p.state /\ q.prev = p.prev /\ q.params = p.params
      /\ q.intermediates = p.intermediates /\ q.osc = p.osc /\ q.splits = p.splits
      /\ q.dcs = p.dcs
  <2>1. IsParser(p)
    BY DEF Sound
  <2> QED
    BY <2>1 DEF Emit, IsParser
<1> HIDE DEF q
<1>2. TextFits(q)
  BY <1>1 DEF Sound, TextFits
<1>3. Sound(q)
  BY <1>1, <1>2, OtherFields
<1> QED
  BY <1>1, <1>3 DEF q

\* The text of a parser is replaced by one that fits.
LEMMA Retext ==
  ASSUME NEW p, Sound(p), NEW text \in Seq(Byte),
         text # <<>> => Len(text) < Expected(text[1])
  PROVE  Sound([p EXCEPT !.utf8 = text]) /\ [p EXCEPT !.utf8 = text].utf8 = text
<1> DEFINE q == [p EXCEPT !.utf8 = text]
<1>1. /\ IsParser(q) /\ q.utf8 = text
      /\ q.state = p.state /\ q.prev = p.prev /\ q.params = p.params
      /\ q.intermediates = p.intermediates /\ q.osc = p.osc /\ q.splits = p.splits
      /\ q.dcs = p.dcs
  <2>1. IsParser(p)
    BY DEF Sound
  <2> QED
    BY <2>1 DEF IsParser
<1> HIDE DEF q
<1>2. TextFits(q)
  BY <1>1 DEF TextFits
<1>3. Sound(q)
  BY <1>1, <1>2, OtherFields
<1> QED
  BY <1>1, <1>3 DEF q

\* Nothing unfinished always fits.
LEMMA Cleared ==
  ASSUME NEW p, Sound(p)
  PROVE  Sound([p EXCEPT !.utf8 = <<>>])
<1> DEFINE none == <<>>
<1>1. none \in Seq(Byte) /\ ~(none # <<>>)
  OBVIOUS
<1> HIDE DEF none
<1>2. Sound([p EXCEPT !.utf8 = none])
  BY <1>1, Retext
<1> QED
  BY <1>2 DEF none

\* flush_utf8 leaves no part of a character, whatever it has found.
LEMMA FlushKeeps ==
  ASSUME NEW p, Sound([p EXCEPT !.utf8 = <<>>]), IsParser(p)
  PROVE  Sound(Flush(p)) /\ Flush(p).utf8 = <<>>
<1> DEFINE event == Printed(IF IsUtf8(p.utf8) THEN p.utf8 ELSE Replacement)
           bare == [p EXCEPT !.utf8 = <<>>]
<1>1. Flush(p) = Emit(bare, event)
  <2> HIDE DEF event
  <2>1. Flush(p) = [Emit(p, event) EXCEPT !.utf8 = <<>>]
    BY DEF Flush, event
  <2> QED
    BY <2>1 DEF Emit, IsParser
<1>2. bare.utf8 = <<>>
  BY DEF IsParser
<1> HIDE DEF event, bare
<1>3. Sound(bare)
  BY DEF bare
<1> QED
  BY <1>1, <1>2, <1>3, EmitKeeps

\* A character is begun with a byte that asks for more than one.
LEMMA Begun ==
  ASSUME NEW p, Sound(p), NEW byte \in Byte, Expected(byte) # 0
  PROVE  Sound([p EXCEPT !.utf8 = <<byte>>])
<1>1. <<byte>> \in Seq(Byte) /\ Len(<<byte>>) = 1 /\ <<byte>>[1] = byte /\ 1 < Expected(byte)
  BY DEF Expected
<1> QED
  BY <1>1, Retext

\* process_utf8: a fifth byte is never stored.
LEMMA ProcessUtf8Keeps ==
  ASSUME NEW p, Sound(p), NEW byte \in Byte
  PROVE  Sound(ProcessUtf8(p, byte))
<1> DEFINE begin(q) == IF Expected(byte) = 0 THEN Emit(q, Printed(Replacement))
                       ELSE [q EXCEPT !.utf8 = <<byte>>]
           text == Append(p.utf8, byte)
           added == [p EXCEPT !.utf8 = text]
<1>1. Sound(begin(p))
  BY Begun, EmitKeeps
<1>2. Sound(begin(Flush(p)))
  <2>1. Sound([p EXCEPT !.utf8 = <<>>])
    BY Cleared
  <2>2. Sound(Flush(p))
    BY <2>1, FlushKeeps DEF Sound
  <2> QED
    BY <2>2, Begun, EmitKeeps
<1>3. ASSUME p.utf8 # <<>>
      PROVE  text \in Seq(Byte) /\ text # <<>> /\ text[1] = p.utf8[1]
             /\ Len(text) <= Expected(text[1]) /\ Len(text) \in Nat /\ Expected(text[1]) \in Nat
  <2>1. p.utf8 \in Seq(Byte) /\ Len(p.utf8) < Expected(p.utf8[1])
    BY <1>3 DEF Sound, TextFits
  <2>2. Len(p.utf8) \in Nat /\ Len(p.utf8) > 0
    BY <1>3, <2>1, LenProperties, EmptySeq
  <2>3. text \in Seq(Byte) /\ Len(text) = Len(p.utf8) + 1 /\ text[1] = p.utf8[1]
    BY <2>1, <2>2, AppendProperties
  <2>4. Expected(p.utf8[1]) \in Nat
    BY DEF Expected
  <2>5. Len(p.utf8) + 1 <= Expected(p.utf8[1])
    <3> DEFINE n == Len(p.utf8)
               m == Expected(p.utf8[1])
    <3>1. n \in Nat /\ m \in Nat /\ n < m
      BY <2>1, <2>2, <2>4
    <3> HIDE DEF n, m
    <3> QED
      BY <3>1 DEF n, m
  <2> HIDE DEF text
  <2> QED
    BY <2>2, <2>3, <2>4, <2>5
<1>4. IsParser(added) /\ added.utf8 = text
  <2>1. IsParser(p)
    BY DEF Sound
  <2> HIDE DEF text
  <2> QED
    BY ONLY <2>1 DEF IsParser, added
<1>5. ASSUME p.utf8 # <<>>, Len(text) # Expected(text[1])
      PROVE  Sound(added)
  <2>1. text \in Seq(Byte) /\ Len(text) < Expected(text[1])
    BY <1>3, <1>5
  <2> HIDE DEF text
  <2> QED
    BY <2>1, Retext
<1>6. Sound(Flush(added))
  <2>1. [added EXCEPT !.utf8 = <<>>] = [p EXCEPT !.utf8 = <<>>]
    BY DEF Sound, IsParser
  <2>2. Sound([p EXCEPT !.utf8 = <<>>])
    BY Cleared
  <2> QED
    BY <1>4, <2>1, <2>2, FlushKeeps
<1>7. ProcessUtf8(p, byte) =
        IF p.utf8 = <<>> THEN begin(p)
        ELSE IF ~IsContinuation(byte) THEN begin(Flush(p))
        ELSE IF Len(added.utf8) = Expected(added.utf8[1]) THEN Flush(added) ELSE added
  BY DEF ProcessUtf8
<1> HIDE DEF begin, text, added
<1> QED
  BY <1>1, <1>2, <1>4, <1>5, <1>6, <1>7
-----------------------------------------------------------------------------
\* Parameters are replaced by ones that fit.
LEMMA Reparam ==
  ASSUME NEW p, Sound(p), NEW params \in Params, Len(params.values) <= MaxParams
  PROVE  Sound([p EXCEPT !.params = params])
<1> DEFINE q == [p EXCEPT !.params = params]
<1>1. /\ IsParser(q) /\ q.params = params
      /\ q.state = p.state /\ q.prev = p.prev /\ q.intermediates = p.intermediates
      /\ q.osc = p.osc /\ q.splits = p.splits /\ q.dcs = p.dcs
      /\ q.utf8 = p.utf8
  <2>1. IsParser(p)
    BY DEF Sound
  <2> QED
    BY <2>1 DEF IsParser
<1> HIDE DEF q
<1>2. ParamsFit(q)
  BY <1>1 DEF ParamsFit
<1>3. Sound(q)
  BY <1>1, <1>2 DEF Sound, Modal, SmallFit, DcsFits, OscFits, TextFits
<1> QED
  BY <1>3 DEF q

\* So are intermediates,
LEMMA Reintermediate ==
  ASSUME NEW p, Sound(p), NEW small \in Seq(Byte), Len(small) <= MaxIntermediates
  PROVE  Sound([p EXCEPT !.intermediates = small])
<1> DEFINE q == [p EXCEPT !.intermediates = small]
<1>1. /\ IsParser(q) /\ q.intermediates = small
      /\ q.state = p.state /\ q.prev = p.prev /\ q.params = p.params
      /\ q.osc = p.osc /\ q.splits = p.splits /\ q.dcs = p.dcs
      /\ q.utf8 = p.utf8
  <2>1. IsParser(p)
    BY DEF Sound
  <2> QED
    BY <2>1 DEF IsParser
<1> HIDE DEF q
<1>2. SmallFit(q)
  BY <1>1 DEF SmallFit
<1>3. Sound(q)
  BY <1>1, <1>2 DEF Sound, Modal, ParamsFit, DcsFits, OscFits, TextFits
<1> QED
  BY <1>3 DEF q

\* the data of a DCS string,
LEMMA Redata ==
  ASSUME NEW p, Sound(p), NEW data \in Seq(Byte), Len(data) <= MaxString
  PROVE  Sound([p EXCEPT !.dcs = data])
<1> DEFINE q == [p EXCEPT !.dcs = data]
<1>1. /\ IsParser(q) /\ q.dcs = data
      /\ q.state = p.state /\ q.prev = p.prev /\ q.params = p.params
      /\ q.intermediates = p.intermediates /\ q.osc = p.osc /\ q.splits = p.splits
      /\ q.utf8 = p.utf8
  <2>1. IsParser(p)
    BY DEF Sound
  <2> QED
    BY <2>1 DEF IsParser
<1> HIDE DEF q
<1>2. DcsFits(q)
  BY <1>1 DEF DcsFits
<1>3. Sound(q)
  BY <1>1, <1>2 DEF Sound, Modal, ParamsFit, SmallFit, OscFits, TextFits
<1> QED
  BY <1>3 DEF q

\* the text of an OSC string, where no cut is behind its end,
LEMMA Reosc ==
  ASSUME NEW p, Sound(p), NEW text \in Seq(Byte), Len(text) <= MaxString,
         \A j \in 1..Len(p.splits) : p.splits[j] <= Len(text)
  PROVE  Sound([p EXCEPT !.osc = text])
<1> DEFINE q == [p EXCEPT !.osc = text]
<1>1. /\ IsParser(q) /\ q.osc = text
      /\ q.state = p.state /\ q.prev = p.prev /\ q.params = p.params
      /\ q.intermediates = p.intermediates /\ q.splits = p.splits /\ q.dcs = p.dcs
      /\ q.utf8 = p.utf8
  <2>1. IsParser(p)
    BY DEF Sound
  <2> QED
    BY <2>1 DEF IsParser
<1> HIDE DEF q
<1>2. OscFits(q)
  BY <1>1 DEF Sound, OscFits
<1>3. Sound(q)
  BY <1>1, <1>2 DEF Sound, Modal, ParamsFit, SmallFit, DcsFits, TextFits
<1> QED
  BY <1>3 DEF q

\* its cuts,
LEMMA Recut ==
  ASSUME NEW p, Sound(p), NEW cuts \in Seq(Nat),
         \A i, j \in 1..Len(cuts) : i <= j => cuts[i] <= cuts[j] /\ cuts[j] <= Len(p.osc)
  PROVE  Sound([p EXCEPT !.splits = cuts])
<1> DEFINE q == [p EXCEPT !.splits = cuts]
<1>1. /\ IsParser(q) /\ q.splits = cuts
      /\ q.state = p.state /\ q.prev = p.prev /\ q.params = p.params
      /\ q.intermediates = p.intermediates /\ q.osc = p.osc /\ q.dcs = p.dcs
      /\ q.utf8 = p.utf8
  <2>1. IsParser(p)
    BY DEF Sound
  <2> QED
    BY <2>1 DEF IsParser
<1> HIDE DEF q
<1>2. OscFits(q)
  BY <1>1 DEF Sound, OscFits
<1>3. Sound(q)
  BY <1>1, <1>2 DEF Sound, Modal, ParamsFit, SmallFit, DcsFits, TextFits
<1> QED
  BY <1>3 DEF q

\* the state,
LEMMA Restate ==
  ASSUME NEW p, Sound(p), NEW state \in States
  PROVE  Sound([p EXCEPT !.state = state])
<1> DEFINE q == [p EXCEPT !.state = state]
<1>1. /\ IsParser(q) /\ q.state = state
      /\ q.prev = p.prev /\ q.params = p.params /\ q.intermediates = p.intermediates
      /\ q.osc = p.osc /\ q.splits = p.splits /\ q.dcs = p.dcs
      /\ q.utf8 = p.utf8
  <2>1. IsParser(p)
    BY DEF Sound
  <2> QED
    BY <2>1 DEF IsParser
<1> HIDE DEF q
<1>2. Modal(q)
  BY <1>1 DEF Sound, Modal
<1>3. Sound(q)
  BY <1>1, <1>2 DEF Sound, ParamsFit, SmallFit, DcsFits, OscFits, TextFits
<1> QED
  BY <1>3 DEF q

\* and the state before an ESC.
LEMMA Reprev ==
  ASSUME NEW p, Sound(p), NEW prev \in States
  PROVE  Sound([p EXCEPT !.prev = prev])
<1> DEFINE q == [p EXCEPT !.prev = prev]
<1>1. /\ IsParser(q) /\ q.prev = prev
      /\ q.state = p.state /\ q.params = p.params /\ q.intermediates = p.intermediates
      /\ q.osc = p.osc /\ q.splits = p.splits /\ q.dcs = p.dcs
      /\ q.utf8 = p.utf8
  <2>1. IsParser(p)
    BY DEF Sound
  <2> QED
    BY <2>1 DEF IsParser
<1> HIDE DEF q
<1>2. Modal(q)
  BY <1>1 DEF Sound, Modal
<1>3. Sound(q)
  BY <1>1, <1>2 DEF Sound, ParamsFit, SmallFit, DcsFits, OscFits, TextFits
<1> QED
  BY <1>3 DEF q

\* Collect and Hook drop a byte that no longer fits.
LEMMA CollectKeeps ==
  ASSUME NEW p, Sound(p), NEW byte \in Byte
  PROVE  Sound(Collect(p, byte))
<1>1. p.intermediates \in Seq(Byte) /\ MaxIntermediates \in Nat
  BY ParserAssumption DEF Sound, SmallFit
<1>2. ASSUME Len(p.intermediates) < MaxIntermediates
      PROVE  Sound([p EXCEPT !.intermediates = Append(p.intermediates, byte)])
  <2> DEFINE small == Append(p.intermediates, byte)
  <2>1. small \in Seq(Byte) /\ Len(small) <= MaxIntermediates
    BY <1>1, <1>2, AppendFits
  <2> HIDE DEF small
  <2>2. Sound([p EXCEPT !.intermediates = small])
    BY <2>1, Reintermediate
  <2> QED
    BY <2>2 DEF small
<1> QED
  BY <1>2 DEF Collect

\* So does Put.
LEMMA PutKeeps ==
  ASSUME NEW p, Sound(p), NEW byte \in Byte
  PROVE  Sound(Put(p, byte))
<1>1. p.dcs \in Seq(Byte) /\ MaxString \in Nat
  BY ParserAssumption DEF Sound, DcsFits
<1>2. ASSUME Len(p.dcs) < MaxString
      PROVE  Sound([p EXCEPT !.dcs = Append(p.dcs, byte)])
  <2> DEFINE data == Append(p.dcs, byte)
  <2>1. data \in Seq(Byte) /\ Len(data) <= MaxString
    BY <1>1, <1>2, AppendFits
  <2> HIDE DEF data
  <2>2. Sound([p EXCEPT !.dcs = data])
    BY <2>1, Redata
  <2> QED
    BY <2>2 DEF data
<1> QED
  BY <1>2 DEF Put

\* OscPut: a cut is made behind all the text there is, and text only grows.
LEMMA OscPutKeeps ==
  ASSUME NEW p, Sound(p), NEW byte \in Byte
  PROVE  Sound(OscPut(p, byte))
<1> DEFINE cuts == Append(p.splits, Len(p.osc))
           text == Append(p.osc, byte)
<1>1. /\ p.osc \in Seq(Byte) /\ p.splits \in Seq(Nat) /\ MaxString \in Nat
      /\ Len(p.osc) <= MaxString /\ Len(p.osc) \in Nat /\ Len(p.splits) \in Nat
      /\ \A i, j \in 1..Len(p.splits) :
           i <= j => p.splits[i] <= p.splits[j] /\ p.splits[j] <= Len(p.osc)
      /\ \A i \in 1..Len(p.splits) : p.splits[i] \in Nat
  BY ParserAssumption, LenProperties, ElementOfSeq DEF Sound, OscFits
<1>2. Sound([p EXCEPT !.splits = cuts])
  <2>1. /\ cuts \in Seq(Nat) /\ Len(cuts) = Len(p.splits) + 1
        /\ cuts[Len(p.splits) + 1] = Len(p.osc)
        /\ \A i \in 1..Len(p.splits) : cuts[i] = p.splits[i]
    BY <1>1, AppendProperties
  <2> HIDE DEF cuts
  <2>2. ASSUME NEW i \in 1..Len(cuts), NEW j \in 1..Len(cuts), i <= j
        PROVE  cuts[i] <= cuts[j] /\ cuts[j] <= Len(p.osc)
    <3>1. CASE j \in 1..Len(p.splits)
      <4>1. i \in 1..Len(p.splits)
        BY <1>1, <2>1, <2>2, <3>1
      <4> QED
        BY <1>1, <2>1, <2>2, <3>1, <4>1
    <3>2. CASE j = Len(p.splits) + 1
      <4>1. i \in 1..Len(p.splits) \/ i = Len(p.splits) + 1
        BY <1>1, <2>1, <2>2
      <4> QED
        BY <1>1, <2>1, <3>2, <4>1
    <3> QED
      BY <1>1, <2>1, <3>1, <3>2
  <2> QED
    BY <1>1, <2>1, <2>2, Recut
<1>3. ASSUME Len(p.osc) < MaxString
      PROVE  Sound([p EXCEPT !.osc = text])
  <2>1. text \in Seq(Byte) /\ Len(text) = Len(p.osc) + 1
    BY <1>1, AppendProperties
  <2> HIDE DEF text
  <2>2. \A j \in 1..Len(p.splits) : p.splits[j] <= Len(text)
    BY <1>1, <2>1
  <2> QED
    BY <1>1, <1>3, <2>1, <2>2, Reosc
<1> HIDE DEF cuts, text
<1>4. OscPut(p, byte) = IF byte = Semicolon THEN [p EXCEPT !.splits = cuts]
                        ELSE IF Len(p.osc) < MaxString THEN [p EXCEPT !.osc = text] ELSE p
  BY DEF OscPut, cuts, text
<1> QED
  BY <1>2, <1>3, <1>4

\* A string's data are handed over and forgotten.
LEMMA DataDropped ==
  ASSUME NEW p, Sound(p)
  PROVE  Sound([p EXCEPT !.dcs = <<>>])
<1> DEFINE none == <<>>
<1>1. none \in Seq(Byte) /\ Len(none) <= MaxString
  BY ParserAssumption
<1> HIDE DEF none
<1>2. Sound([p EXCEPT !.dcs = none])
  BY <1>1, Redata
<1> QED
  BY <1>2 DEF none

\* EscDispatch
LEMMA EscDispatchKeeps ==
  ASSUME NEW p, Sound(p), NEW byte
  PROVE  Sound(EscDispatch(p, byte))
<1> DEFINE string == Emit(p, Dcs(p.params.values, p.intermediates, 0, p.dcs))
<1>1. Sound([string EXCEPT !.dcs = <<>>])
  <2>1. Sound(string)
    BY EmitKeeps
  <2> HIDE DEF string
  <2> QED
    BY <2>1, DataDropped
<1>2. Sound(Emit(p, Osc(Parts(p)))) /\ Sound(Emit(p, Esc(p.intermediates, byte)))
  BY EmitKeeps
<1> QED
  BY <1>1, <1>2 DEF EscDispatch

\* The parameters are completed where they are handed over.
LEMMA Completed ==
  ASSUME NEW p, Sound(p), NEW q, Sound(q), q.params = p.params
  PROVE  Sound([q EXCEPT !.params.values = Finalized(p.params)])
<1> DEFINE values == Finalized(p.params)
           params == [q.params EXCEPT !.values = values]
<1>1. p.params \in Params /\ Len(p.params.values) <= MaxParams
  BY DEF Sound, ParamsFit
<1>2. values \in Seq(Number) /\ Len(values) <= MaxParams
  <2>1. 0 \in Nat
    OBVIOUS
  <2> QED
    BY <1>1, <2>1, ParamOperations
<1> HIDE DEF values
<1>3. params \in Params /\ params.values = values
  BY <1>1, <1>2 DEF Params
<1> HIDE DEF params
<1>4. Sound([q EXCEPT !.params = params])
  BY <1>2, <1>3, Reparam
<1> QED
  BY <1>4 DEF params, values

\* Unhook
LEMMA UnhookKeeps ==
  ASSUME NEW p, Sound(p)
  PROVE  Sound(Unhook(p))
<1> DEFINE given == p.intermediates # <<>>
           params == Finalized(p.params)
           event == Dcs(params, IF given THEN Front(p.intermediates) ELSE <<>>,
                        IF given THEN Last(p.intermediates) ELSE 0, p.dcs)
           q == Emit(p, event)
           r == [q EXCEPT !.dcs = <<>>]
<1>1. Unhook(p) = [q EXCEPT !.dcs = <<>>, !.params.values = params]
  BY DEF Unhook
<1>2. Sound(q) /\ q.params = p.params
  <2>1. q.params = p.params
    BY DEF Emit, Sound, IsParser
  <2> QED
    BY <2>1, EmitKeeps
<1> HIDE DEF q
<1>3. Sound(r)
  BY <1>2, DataDropped
<1>4. r.params = p.params
  BY <1>2 DEF Sound, IsParser
<1>5. Unhook(p) = [r EXCEPT !.params.values = params]
  BY <1>1
<1> HIDE DEF r
<1> QED
  BY <1>3, <1>4, <1>5, Completed

\* CsiDispatch
LEMMA CsiDispatchKeeps ==
  ASSUME NEW p, Sound(p), NEW byte
  PROVE  Sound(CsiDispatch(p, byte))
<1> DEFINE q == Emit(p, Csi(Finalized(p.params), p.intermediates, byte))
<1>1. Sound(q) /\ q.params = p.params
  <2>1. q.params = p.params
    BY DEF Emit, Sound, IsParser
  <2> QED
    BY <2>1, EmitKeeps
<1>2. CsiDispatch(p, byte) = [q EXCEPT !.params.values = Finalized(p.params)]
  BY DEF CsiDispatch
<1> HIDE DEF q
<1> QED
  BY <1>1, <1>2, Completed

-----------------------------------------------------------------------------
\* perform_action. Only digits and semicolons are parameters.
LEMMA PerformKeeps ==
  ASSUME NEW p, Sound(p), NEW byte \in Byte, NEW action,
         action = "Param" => byte \in ParamBytes
  PROVE  Sound(Perform(p, action, byte))
<1> DEFINE params == IF byte = Semicolon THEN FinishParam(p.params)
                                         ELSE AddDigit(p.params, byte - 48)
<1>1. ASSUME action = "Param"
      PROVE  Sound([p EXCEPT !.params = params])
  <2>1. p.params \in Params /\ Len(p.params.values) <= MaxParams
    BY DEF Sound, ParamsFit
  <2>2. byte - 48 \in Nat
    BY <1>1 DEF ParamBytes, Digits, Semicolon
  <2>3. params \in Params /\ Len(params.values) <= MaxParams
    BY <2>1, <2>2, ParamOperations
  <2> HIDE DEF params
  <2> QED
    BY <2>3, Reparam
<1>2. /\ Sound(Emit(p, Printed(<<byte>>))) /\ Sound(Emit(p, Executed(byte)))
      /\ Sound(Emit(p, Osc(Parts(p))))
  BY EmitKeeps
<1>3. Sound(Collect(p, byte)) /\ Sound(Put(p, byte)) /\ Sound(OscPut(p, byte))
  BY CollectKeeps, PutKeeps, OscPutKeeps
<1>4. Sound(EscDispatch(p, byte)) /\ Sound(CsiDispatch(p, byte)) /\ Sound(Unhook(p))
  BY EscDispatchKeeps, CsiDispatchKeeps, UnhookKeeps
<1> QED
  BY <1>1, <1>2, <1>3, <1>4 DEF Perform

\* perform_entry_action
LEMMA EnterKeeps ==
  ASSUME NEW p, Sound(p), NEW next
  PROVE  Sound(Enter(p, next))
<1> DEFINE none == <<>>
           bare == [p EXCEPT !.intermediates = none]
           clear == [bare EXCEPT !.params = NoParams]
           uncut == [p EXCEPT !.splits = none]
<1>1. /\ none \in Seq(Byte) /\ none \in Seq(Nat) /\ Len(none) = 0
      /\ Len(none) <= MaxString /\ Len(none) <= MaxIntermediates
      /\ MaxNumber \in Nat /\ MaxParams \in Nat
  BY ParserAssumption
<1>2. NoParams \in Params /\ Len(NoParams.values) <= MaxParams
  BY <1>1 DEF NoParams, Params, Number
<1>3. Sound(uncut) /\ uncut.splits = none
  <2> HIDE DEF none
  <2>1. uncut.splits = none
    BY DEF Sound, IsParser
  <2>2. \A i, j \in 1..Len(none) :
          i <= j => none[i] <= none[j] /\ none[j] <= Len(p.osc)
    BY <1>1
  <2> QED
    BY <1>1, <2>1, <2>2, Recut
<1>4. Sound(bare)
  <2> HIDE DEF none
  <2> QED
    BY <1>1, Reintermediate
<1>5. Sound(clear)
  <2> HIDE DEF bare
  <2> QED
    BY <1>2, <1>4, Reparam
<1>6. Sound([clear EXCEPT !.dcs = <<>>])
  <2> HIDE DEF clear
  <2> QED
    BY <1>5, DataDropped
<1>7. Sound([uncut EXCEPT !.osc = none])
  <2> HIDE DEF none, uncut
  <2>1. \A j \in 1..Len(uncut.splits) : uncut.splits[j] <= Len(none)
    BY <1>1, <1>3
  <2> QED
    BY <1>1, <1>3, <2>1, Reosc
<1>8. /\ clear = [p EXCEPT !.intermediates = <<>>, !.params = NoParams]
      /\ [clear EXCEPT !.dcs = <<>>] = [p EXCEPT !.intermediates = <<>>, !.params = NoParams, !.dcs = <<>>]
      /\ [uncut EXCEPT !.osc = none] = [p EXCEPT !.osc = <<>>, !.splits = <<>>]
  BY DEF Sound, IsParser
<1> QED
  BY <1>5, <1>6, <1>7, <1>8 DEF Enter

\* The table leads from states to states, and takes only digits and semicolons for
\* parameters.
LEMMA TableIsClosed ==
  ASSUME NEW state \in States, NEW byte \in Byte
  PROVE  /\ Transition(state, byte).next \in States
         /\ Transition(state, byte).action = "Param" => byte \in ParamBytes
<1> DEFINE Closed(go) == go.next \in States /\ (go.action = "Param" => byte \in ParamBytes)
<1>1. Closed(InCsi(state, byte))
  BY DEF InCsi, Go, States
<1>2. Closed(InDcs(state, byte))
  BY DEF InDcs, Go, States
<1>3. Closed(InEscape(byte))
  BY DEF InEscape, Go, States
<1>4. Closed(InEscapeIntermediate(byte))
  BY DEF InEscapeIntermediate, Go, States
<1>5. Closed(InString(state, byte))
  BY DEF InString, Go, States
<1> QED
  BY <1>1, <1>2, <1>3, <1>4, <1>5 DEF Transition, Go, States

\* process_byte
LEMMA ProcessByteKeeps ==
  ASSUME NEW p, Sound(p), NEW byte \in Byte
  PROVE  Sound(ProcessByte(p, byte))
<1> DEFINE flushed == IF p.utf8 # <<>> THEN Flush(p) ELSE p
           go == Transition(p.state, byte)
           left == IF go.next = "Escape" /\ p.state # "Escape"
                     THEN [flushed EXCEPT !.prev = p.state] ELSE flushed
           entered == IF go.next # p.state THEN Enter(left, go.next) ELSE left
           done == Perform(entered, go.action, byte)
<1>1. p.state \in States
  BY DEF Sound, Modal
<1>2. go.next \in States /\ (go.action = "Param" => byte \in ParamBytes)
  BY <1>1, TableIsClosed
<1>3. Sound(flushed)
  BY Cleared, FlushKeeps DEF Sound
<1> HIDE DEF flushed, go
<1>4. Sound(left)
  BY <1>1, <1>3, Reprev
<1> HIDE DEF left
<1>5. Sound(entered)
  BY <1>4, EnterKeeps
<1> HIDE DEF entered
<1>6. Sound(done)
  BY <1>2, <1>5, PerformKeeps
<1> HIDE DEF done
<1>7. Sound([done EXCEPT !.state = go.next])
  BY <1>2, <1>6, Restate
<1>8. ProcessByte(p, byte) = IF p.state = "Ground" /\ byte >= 128 THEN ProcessUtf8(p, byte)
                             ELSE [done EXCEPT !.state = go.next]
  BY DEF ProcessByte, done, entered, left, go, flushed
<1> QED
  BY <1>7, <1>8, ProcessUtf8Keeps

-----------------------------------------------------------------------------
\* The inductive invariant.
ParserInv == Sound(parser) /\ alphabet \subseteq Byte

\* A parser at rest.
LEMMA NewParserSound == Sound(NewParser)
<1>1. 0 \in Number /\ MaxParams \in Nat /\ MaxIntermediates \in Nat /\ MaxString \in Nat
  BY ParserAssumption DEF Number
<1>2. IsParser(NewParser) /\ Modal(NewParser)
  BY DEF NewParser, IsParser, Modal, States
<1>3. ParamsFit(NewParser)
  BY <1>1 DEF NewParser, NoParams, ParamsFit, Params
<1>4. SmallFit(NewParser) /\ DcsFits(NewParser) /\ OscFits(NewParser) /\ TextFits(NewParser)
  BY <1>1 DEF NewParser, SmallFit, DcsFits, OscFits, TextFits
<1> QED
  BY <1>2, <1>3, <1>4 DEF Sound

\* What is sound is typed.
LEMMA SoundIsTyped == ParserInv => TypeOK
<1> SUFFICES ASSUME Sound(parser) PROVE TypeOK
  BY DEF ParserInv
<1>1. parser.params.current <= MaxNumber /\ Len(parser.params.values) <= MaxParams
  BY ParserAssumption DEF Sound, ParamsFit, Params, Number
<1>2. Len(parser.utf8) < 4
  <2>1. CASE parser.utf8 = <<>>
    BY <2>1
  <2>2. CASE parser.utf8 # <<>>
    <3>1. Len(parser.utf8) < Expected(parser.utf8[1]) /\ Len(parser.utf8) \in Nat
      BY <2>2, LenProperties DEF Sound, TextFits
    <3> QED
      BY <3>1 DEF Expected
  <2> QED
    BY <2>1, <2>2
<1>3. DOMAIN parser.splits = 1..Len(parser.splits)
  BY LenProperties DEF Sound, OscFits
<1> QED
  BY <1>1, <1>2, <1>3 DEF TypeOK, Sound, Modal, SmallFit, DcsFits, OscFits

\* Whatever bytes arrive, cut wherever reads cut them, no index leaves the buffer
\* it points into: no slice of an OSC string ends before it begins or behind its
\* text, no fifth byte is put into utf8_buffer, and the arrays of parameters and
\* intermediates and the two strings stay within their limits.
THEOREM BuffersNeverOverrun == Spec => []TypeOK
<1>1. Init => ParserInv
  BY NewParserSound, ParserAssumption DEF Init, ParserInv, Byte
<1>2. ParserInv /\ [Next]_vars => ParserInv'
  <2> SUFFICES ASSUME ParserInv, [Next]_vars PROVE ParserInv'
    OBVIOUS
  <2>1. ASSUME NEW byte \in alphabet, Feed(byte)
        PROVE  ParserInv'
    <3> DEFINE next == ProcessByte(parser, byte)
    <3>1. Sound(next)
      BY ProcessByteKeeps DEF ParserInv
    <3>2. parser' = [next EXCEPT !.out = <<>>] /\ alphabet' = alphabet
      BY <2>1 DEF Feed
    <3> HIDE DEF next
    <3>3. Sound(parser')
      BY <3>1, <3>2, OtherFields DEF Sound, IsParser, TextFits
    <3> QED
      BY <3>2, <3>3 DEF ParserInv
  <2>2. CASE UNCHANGED vars
    BY <2>2 DEF vars, ParserInv
  <2> QED
    BY <2>1, <2>2 DEF Next
<1> QED
  BY <1>1, <1>2, SoundIsTyped, PTL DEF Spec

-----------------------------------------------------------------------------
(* Two parsers side by side.                                                  *)

Calls(s) == \E S : s \in Seq(S)

\* Parsers that will make the same calls, but for those one has made before the
\* other began (cut). The string buffers and the state an ESC has interrupted need
\* only agree when they may still be read: data, text and from say when.
Alike(p, q, cut, data, text, from) ==
  /\ IsParser(p) /\ IsParser(q) /\ Calls(cut) /\ Calls(q.out) /\ p.out = cut \o q.out
  /\ p.state = q.state /\ p.params = q.params /\ p.intermediates = q.intermediates
  /\ p.utf8 = q.utf8
  /\ data => p.dcs = q.dcs
  /\ text => p.osc = q.osc /\ p.splits = q.splits
  /\ from => p.prev = q.prev

\* A call more.
LEMMA CallsGrow ==
  ASSUME NEW cut, NEW out, NEW event, Calls(cut), Calls(out)
  PROVE  Calls(Append(out, event)) /\ Append(cut \o out, event) = cut \o Append(out, event)
<1>1. PICK A : cut \in Seq(A)
  BY DEF Calls
<1>2. PICK B : out \in Seq(B)
  BY DEF Calls
<1> DEFINE S == (A \cup B) \cup {event}
           longer == Append(out, event)
<1>3. cut \in Seq(S) /\ out \in Seq(S) /\ event \in S
  <2>1. /\ \A i \in 1..Len(cut) : cut[i] \in S
        /\ cut = [i \in 1..Len(cut) |-> cut[i]] /\ Len(cut) \in Nat
    <3>1. cut = [i \in 1..Len(cut) |-> cut[i]] /\ Len(cut) \in Nat /\ \A i \in 1..Len(cut) : cut[i] \in A
      BY <1>1
    <3> QED
      BY <3>1
  <2>2. /\ \A i \in 1..Len(out) : out[i] \in S
        /\ out = [i \in 1..Len(out) |-> out[i]] /\ Len(out) \in Nat
    <3>1. out = [i \in 1..Len(out) |-> out[i]] /\ Len(out) \in Nat /\ \A i \in 1..Len(out) : out[i] \in B
      BY <1>2
    <3> QED
      BY <3>1
  <2> HIDE DEF S
  <2>3. cut \in Seq(S)
    BY <2>1, IsASeq
  <2>4. out \in Seq(S)
    BY <2>2, IsASeq
  <2> QED
    BY <2>3, <2>4 DEF S
<1> HIDE DEF S
<1>4. longer \in Seq(S)
  BY <1>3, AppendProperties
<1>5. Append(cut \o out, event) = cut \o longer
  <2> DEFINE a == Append(cut \o out, event)
             b == cut \o longer
  <2>1. a \in Seq(S) /\ b \in Seq(S) /\ Len(a) = Len(b)
    BY <1>3, <1>4, ConcatProperties, AppendProperties, LenProperties
  <2>2. ASSUME NEW i \in 1..Len(a)
        PROVE  a[i] = b[i]
    BY <1>3, <1>4, <2>1, ConcatProperties, AppendProperties, LenProperties
  <2> HIDE DEF a, b
  <2>3. a = b
    BY <2>1, <2>2, SeqEqual
  <2> QED
    BY <2>3 DEF a, b
<1> QED
  BY <1>4, <1>5 DEF Calls

\* A parser that has all of another's fields, but for some.
SameBut(a, r, fields) ==
  /\ IsParser(a)
  /\ "state" \in fields \/ a.state = r.state
  /\ "prev" \in fields \/ a.prev = r.prev
  /\ "params" \in fields \/ a.params = r.params
  /\ "intermediates" \in fields \/ a.intermediates = r.intermediates
  /\ "osc" \in fields \/ a.osc = r.osc
  /\ "splits" \in fields \/ a.splits = r.splits
  /\ "dcs" \in fields \/ a.dcs = r.dcs
  /\ "utf8" \in fields \/ a.utf8 = r.utf8
  /\ "out" \in fields \/ a.out = r.out

\* A parser with a field changed.
LEMMA Changed ==
  ASSUME NEW r, IsParser(r), NEW value
  PROVE  /\ SameBut([r EXCEPT !.state = value], r, {"state"}) /\ [r EXCEPT !.state = value].state = value
         /\ SameBut([r EXCEPT !.prev = value], r, {"prev"}) /\ [r EXCEPT !.prev = value].prev = value
         /\ SameBut([r EXCEPT !.params = value], r, {"params"}) /\ [r EXCEPT !.params = value].params = value
         /\ SameBut([r EXCEPT !.intermediates = value], r, {"intermediates"}) /\ [r EXCEPT !.intermediates = value].intermediates = value
         /\ SameBut([r EXCEPT !.osc = value], r, {"osc"}) /\ [r EXCEPT !.osc = value].osc = value
         /\ SameBut([r EXCEPT !.splits = value], r, {"splits"}) /\ [r EXCEPT !.splits = value].splits = value
         /\ SameBut([r EXCEPT !.dcs = value], r, {"dcs"}) /\ [r EXCEPT !.dcs = value].dcs = value
         /\ SameBut([r EXCEPT !.utf8 = value], r, {"utf8"}) /\ [r EXCEPT !.utf8 = value].utf8 = value
         /\ SameBut([r EXCEPT !.out = value], r, {"out"}) /\ [r EXCEPT !.out = value].out = value
<1>1. SameBut([r EXCEPT !.state = value], r, {"state"}) /\ [r EXCEPT !.state = value].state = value
  <2> DEFINE a == [r EXCEPT !.state = value]
  <2>1. a = [state |-> value, prev |-> r.prev, params |-> r.params, intermediates
             |-> r.intermediates, osc |-> r.osc, splits |-> r.splits, dcs |-> r.dcs,
             utf8 |-> r.utf8, out |-> r.out]
    BY DEF IsParser
  <2> HIDE DEF a
  <2>2. SameBut(a, r, {"state"}) /\ a.state = value
    BY <2>1 DEF IsParser, SameBut
  <2> QED
    BY <2>2 DEF a
<1>2. SameBut([r EXCEPT !.prev = value], r, {"prev"}) /\ [r EXCEPT !.prev = value].prev = value
  <2> DEFINE a == [r EXCEPT !.prev = value]
  <2>1. a = [state |-> r.state, prev |-> value, params |-> r.params, intermediates
             |-> r.intermediates, osc |-> r.osc, splits |-> r.splits, dcs |-> r.dcs,
             utf8 |-> r.utf8, out |-> r.out]
    BY DEF IsParser
  <2> HIDE DEF a
  <2>2. SameBut(a, r, {"prev"}) /\ a.prev = value
    BY <2>1 DEF IsParser, SameBut
  <2> QED
    BY <2>2 DEF a
<1>3. SameBut([r EXCEPT !.params = value], r, {"params"}) /\ [r EXCEPT !.params = value].params = value
  <2> DEFINE a == [r EXCEPT !.params = value]
  <2>1. a = [state |-> r.state, prev |-> r.prev, params |-> value, intermediates
             |-> r.intermediates, osc |-> r.osc, splits |-> r.splits, dcs |-> r.dcs,
             utf8 |-> r.utf8, out |-> r.out]
    BY DEF IsParser
  <2> HIDE DEF a
  <2>2. SameBut(a, r, {"params"}) /\ a.params = value
    BY <2>1 DEF IsParser, SameBut
  <2> QED
    BY <2>2 DEF a
<1>4. SameBut([r EXCEPT !.intermediates = value], r, {"intermediates"}) /\ [r EXCEPT !.intermediates = value].intermediates = value
  <2> DEFINE a == [r EXCEPT !.intermediates = value]
  <2>1. a = [state |-> r.state, prev |-> r.prev, params |-> r.params, intermediates
             |-> value, osc |-> r.osc, splits |-> r.splits, dcs |-> r.dcs, utf8 |->
             r.utf8, out |-> r.out]
    BY DEF IsParser
  <2> HIDE DEF a
  <2>2. SameBut(a, r, {"intermediates"}) /\ a.intermediates = value
    BY <2>1 DEF IsParser, SameBut
  <2> QED
    BY <2>2 DEF a
<1>5. SameBut([r EXCEPT !.osc = value], r, {"osc"}) /\ [r EXCEPT !.osc = value].osc = value
  <2> DEFINE a == [r EXCEPT !.osc = value]
  <2>1. a = [state |-> r.state, prev |-> r.prev, params |-> r.params, intermediates
             |-> r.intermediates, osc |-> value, splits |-> r.splits, dcs |-> r.dcs,
             utf8 |-> r.utf8, out |-> r.out]
    BY DEF IsParser
  <2> HIDE DEF a
  <2>2. SameBut(a, r, {"osc"}) /\ a.osc = value
    BY <2>1 DEF IsParser, SameBut
  <2> QED
    BY <2>2 DEF a
<1>6. SameBut([r EXCEPT !.splits = value], r, {"splits"}) /\ [r EXCEPT !.splits = value].splits = value
  <2> DEFINE a == [r EXCEPT !.splits = value]
  <2>1. a = [state |-> r.state, prev |-> r.prev, params |-> r.params, intermediates
             |-> r.intermediates, osc |-> r.osc, splits |-> value, dcs |-> r.dcs,
             utf8 |-> r.utf8, out |-> r.out]
    BY DEF IsParser
  <2> HIDE DEF a
  <2>2. SameBut(a, r, {"splits"}) /\ a.splits = value
    BY <2>1 DEF IsParser, SameBut
  <2> QED
    BY <2>2 DEF a
<1>7. SameBut([r EXCEPT !.dcs = value], r, {"dcs"}) /\ [r EXCEPT !.dcs = value].dcs = value
  <2> DEFINE a == [r EXCEPT !.dcs = value]
  <2>1. a = [state |-> r.state, prev |-> r.prev, params |-> r.params, intermediates
             |-> r.intermediates, osc |-> r.osc, splits |-> r.splits, dcs |-> value,
             utf8 |-> r.utf8, out |-> r.out]
    BY DEF IsParser
  <2> HIDE DEF a
  <2>2. SameBut(a, r, {"dcs"}) /\ a.dcs = value
    BY <2>1 DEF IsParser, SameBut
  <2> QED
    BY <2>2 DEF a
<1>8. SameBut([r EXCEPT !.utf8 = value], r, {"utf8"}) /\ [r EXCEPT !.utf8 = value].utf8 = value
  <2> DEFINE a == [r EXCEPT !.utf8 = value]
  <2>1. a = [state |-> r.state, prev |-> r.prev, params |-> r.params, intermediates
             |-> r.intermediates, osc |-> r.osc, splits |-> r.splits, dcs |-> r.dcs,
             utf8 |-> value, out |-> r.out]
    BY DEF IsParser
  <2> HIDE DEF a
  <2>2. SameBut(a, r, {"utf8"}) /\ a.utf8 = value
    BY <2>1 DEF IsParser, SameBut
  <2> QED
    BY <2>2 DEF a
<1>9. SameBut([r EXCEPT !.out = value], r, {"out"}) /\ [r EXCEPT !.out = value].out = value
  <2> DEFINE a == [r EXCEPT !.out = value]
  <2>1. a = [state |-> r.state, prev |-> r.prev, params |-> r.params, intermediates
             |-> r.intermediates, osc |-> r.osc, splits |-> r.splits, dcs |-> r.dcs,
             utf8 |-> r.utf8, out |-> value]
    BY DEF IsParser
  <2> HIDE DEF a
  <2>2. SameBut(a, r, {"out"}) /\ a.out = value
    BY <2>1 DEF IsParser, SameBut
  <2> QED
    BY <2>2 DEF a
<1> QED
  BY <1>1, <1>2, <1>3, <1>4, <1>5, <1>6, <1>7, <1>8, <1>9

\* Both make a call.
LEMMA EmitTogether ==
  ASSUME NEW p, NEW q, NEW cut, NEW data, NEW text, NEW from, NEW event,
         Alike(p, q, cut, data, text, from)
  PROVE  Alike(Emit(p, event), Emit(q, event), cut, data, text, from)
<1> DEFINE out == q.out
           a == Append(p.out, event)
           b == Append(out, event)
           p1 == [p EXCEPT !.out = a]
           q1 == [q EXCEPT !.out = b]
<1>1. IsParser(p) /\ IsParser(q) /\ Calls(cut) /\ Calls(out) /\ p.out = cut \o out
  BY DEF Alike
<1> HIDE DEF out
<1>2. Calls(b) /\ Append(cut \o out, event) = cut \o b
  <2>1. Calls(cut) /\ Calls(out)
    BY <1>1
  <2> QED
    BY ONLY <2>1, CallsGrow
<1>3. a = cut \o b
  BY <1>1, <1>2
<1>4. Emit(p, event) = p1 /\ Emit(q, event) = q1
  BY DEF Emit, out
<1> HIDE DEF a, b
<1>5. SameBut(p1, p, {"out"}) /\ p1.out = a
  BY <1>1, Changed
<1>6. SameBut(q1, q, {"out"}) /\ q1.out = b
  BY <1>1, Changed
<1> HIDE DEF p1, q1
<1>7. Alike(p1, q1, cut, data, text, from)
  BY <1>2, <1>3, <1>5, <1>6 DEF Alike, SameBut
<1> QED
  BY <1>4, <1>7

\* Both change a field to the same value: the character that is assembled,
LEMMA Utf8Together ==
  ASSUME NEW p, NEW q, NEW cut, NEW data, NEW text, NEW from, NEW value,
         Alike(p, q, cut, data, text, from)
  PROVE  Alike([p EXCEPT !.utf8 = value], [q EXCEPT !.utf8 = value], cut, data, text, from)
<1> DEFINE a == [p EXCEPT !.utf8 = value]
           b == [q EXCEPT !.utf8 = value]
<1>1. IsParser(p) /\ IsParser(q)
  BY DEF Alike
<1>2. SameBut(a, p, {"utf8"}) /\ a.utf8 = value
  BY <1>1, Changed
<1>3. SameBut(b, q, {"utf8"}) /\ b.utf8 = value
  BY <1>1, Changed
<1> HIDE DEF a, b
<1>4. Alike(a, b, cut, data, text, from)
  BY <1>2, <1>3 DEF Alike, SameBut
<1> QED
  BY <1>4 DEF a, b

\* the state,
LEMMA StateTogether ==
  ASSUME NEW p, NEW q, NEW cut, NEW data, NEW text, NEW from, NEW value,
         Alike(p, q, cut, data, text, from)
  PROVE  Alike([p EXCEPT !.state = value], [q EXCEPT !.state = value], cut, data, text, from)
<1> DEFINE a == [p EXCEPT !.state = value]
           b == [q EXCEPT !.state = value]
<1>1. IsParser(p) /\ IsParser(q)
  BY DEF Alike
<1>2. SameBut(a, p, {"state"}) /\ a.state = value
  BY <1>1, Changed
<1>3. SameBut(b, q, {"state"}) /\ b.state = value
  BY <1>1, Changed
<1> HIDE DEF a, b
<1>4. Alike(a, b, cut, data, text, from)
  BY <1>2, <1>3 DEF Alike, SameBut
<1> QED
  BY <1>4 DEF a, b

\* the parameters,
LEMMA ParamsTogether ==
  ASSUME NEW p, NEW q, NEW cut, NEW data, NEW text, NEW from, NEW value,
         Alike(p, q, cut, data, text, from)
  PROVE  Alike([p EXCEPT !.params = value], [q EXCEPT !.params = value], cut, data, text, from)
<1> DEFINE a == [p EXCEPT !.params = value]
           b == [q EXCEPT !.params = value]
<1>1. IsParser(p) /\ IsParser(q)
  BY DEF Alike
<1>2. SameBut(a, p, {"params"}) /\ a.params = value
  BY <1>1, Changed
<1>3. SameBut(b, q, {"params"}) /\ b.params = value
  BY <1>1, Changed
<1> HIDE DEF a, b
<1>4. Alike(a, b, cut, data, text, from)
  BY <1>2, <1>3 DEF Alike, SameBut
<1> QED
  BY <1>4 DEF a, b

\* those that are finished,
LEMMA ValuesTogether ==
  ASSUME NEW p, NEW q, NEW cut, NEW data, NEW text, NEW from, NEW value,
         Alike(p, q, cut, data, text, from)
  PROVE  Alike([p EXCEPT !.params.values = value], [q EXCEPT !.params.values = value], cut, data, text, from)
<1> DEFINE params == [p.params EXCEPT !.values = value]
<1>1. p.params = q.params
  BY DEF Alike
<1>2. /\ [p EXCEPT !.params.values = value] = [p EXCEPT !.params = params]
      /\ [q EXCEPT !.params.values = value] = [q EXCEPT !.params = params]
  BY <1>1
<1> HIDE DEF params
<1> QED
  BY <1>2, ParamsTogether

\* the intermediates,
LEMMA SmallTogether ==
  ASSUME NEW p, NEW q, NEW cut, NEW data, NEW text, NEW from, NEW value,
         Alike(p, q, cut, data, text, from)
  PROVE  Alike([p EXCEPT !.intermediates = value], [q EXCEPT !.intermediates = value], cut, data, text, from)
<1> DEFINE a == [p EXCEPT !.intermediates = value]
           b == [q EXCEPT !.intermediates = value]
<1>1. IsParser(p) /\ IsParser(q)
  BY DEF Alike
<1>2. SameBut(a, p, {"intermediates"}) /\ a.intermediates = value
  BY <1>1, Changed
<1>3. SameBut(b, q, {"intermediates"}) /\ b.intermediates = value
  BY <1>1, Changed
<1> HIDE DEF a, b
<1>4. Alike(a, b, cut, data, text, from)
  BY <1>2, <1>3 DEF Alike, SameBut
<1> QED
  BY <1>4 DEF a, b

\* the data of a DCS string,
LEMMA DataTogether ==
  ASSUME NEW p, NEW q, NEW cut, NEW data, NEW text, NEW from, NEW value,
         Alike(p, q, cut, data, text, from)
  PROVE  Alike([p EXCEPT !.dcs = value], [q EXCEPT !.dcs = value], cut, data, text, from)
<1> DEFINE a == [p EXCEPT !.dcs = value]
           b == [q EXCEPT !.dcs = value]
<1>1. IsParser(p) /\ IsParser(q)
  BY DEF Alike
<1>2. SameBut(a, p, {"dcs"}) /\ a.dcs = value
  BY <1>1, Changed
<1>3. SameBut(b, q, {"dcs"}) /\ b.dcs = value
  BY <1>1, Changed
<1> HIDE DEF a, b
<1>4. Alike(a, b, cut, data, text, from)
  BY <1>2, <1>3 DEF Alike, SameBut
<1> QED
  BY <1>4 DEF a, b

\* which are then the same,
LEMMA DcsTogether ==
  ASSUME NEW p, NEW q, NEW cut, NEW data, NEW text, NEW from, NEW value,
         Alike(p, q, cut, data, text, from)
  PROVE  Alike([p EXCEPT !.dcs = value], [q EXCEPT !.dcs = value], cut, TRUE, text, from)
<1> DEFINE a == [p EXCEPT !.dcs = value]
           b == [q EXCEPT !.dcs = value]
<1>1. IsParser(p) /\ IsParser(q)
  BY DEF Alike
<1>2. SameBut(a, p, {"dcs"}) /\ a.dcs = value
  BY <1>1, Changed
<1>3. SameBut(b, q, {"dcs"}) /\ b.dcs = value
  BY <1>1, Changed
<1> HIDE DEF a, b
<1>4. Alike(a, b, cut, TRUE, text, from)
  BY <1>2, <1>3 DEF Alike, SameBut
<1> QED
  BY <1>4 DEF a, b

\* the cuts of an OSC string,
LEMMA SplitsTogether ==
  ASSUME NEW p, NEW q, NEW cut, NEW data, NEW text, NEW from, NEW value,
         Alike(p, q, cut, data, text, from)
  PROVE  Alike([p EXCEPT !.splits = value], [q EXCEPT !.splits = value], cut, data, text, from)
<1> DEFINE a == [p EXCEPT !.splits = value]
           b == [q EXCEPT !.splits = value]
<1>1. IsParser(p) /\ IsParser(q)
  BY DEF Alike
<1>2. SameBut(a, p, {"splits"}) /\ a.splits = value
  BY <1>1, Changed
<1>3. SameBut(b, q, {"splits"}) /\ b.splits = value
  BY <1>1, Changed
<1> HIDE DEF a, b
<1>4. Alike(a, b, cut, data, text, from)
  BY <1>2, <1>3 DEF Alike, SameBut
<1> QED
  BY <1>4 DEF a, b

\* its text,
LEMMA OscTogether ==
  ASSUME NEW p, NEW q, NEW cut, NEW data, NEW text, NEW from, NEW value,
         Alike(p, q, cut, data, text, from)
  PROVE  Alike([p EXCEPT !.osc = value], [q EXCEPT !.osc = value], cut, data, text, from)
<1> DEFINE a == [p EXCEPT !.osc = value]
           b == [q EXCEPT !.osc = value]
<1>1. IsParser(p) /\ IsParser(q)
  BY DEF Alike
<1>2. SameBut(a, p, {"osc"}) /\ a.osc = value
  BY <1>1, Changed
<1>3. SameBut(b, q, {"osc"}) /\ b.osc = value
  BY <1>1, Changed
<1> HIDE DEF a, b
<1>4. Alike(a, b, cut, data, text, from)
  BY <1>2, <1>3 DEF Alike, SameBut
<1> QED
  BY <1>4 DEF a, b

\* its text and its cuts, which are then the same,
LEMMA StringTogether ==
  ASSUME NEW p, NEW q, NEW cut, NEW data, NEW text, NEW from, NEW value,
         Alike(p, q, cut, data, text, from)
  PROVE  Alike([p EXCEPT !.osc = value, !.splits = value], [q EXCEPT !.osc = value, !.splits = value],
               cut, data, TRUE, from)
<1> DEFINE a == [p EXCEPT !.osc = value]
           b == [q EXCEPT !.osc = value]
           c == [a EXCEPT !.splits = value]
           d == [b EXCEPT !.splits = value]
<1>1. IsParser(p) /\ IsParser(q)
  BY DEF Alike
<1>2. SameBut(a, p, {"osc"}) /\ a.osc = value
  BY <1>1, Changed
<1>3. SameBut(b, q, {"osc"}) /\ b.osc = value
  BY <1>1, Changed
<1>4. c = [p EXCEPT !.osc = value, !.splits = value] /\ d = [q EXCEPT !.osc = value, !.splits = value]
  OBVIOUS
<1> HIDE DEF a, b
<1>5. IsParser(a) /\ IsParser(b)
  BY <1>2, <1>3 DEF SameBut
<1>6. SameBut(c, a, {"splits"}) /\ c.splits = value
  BY <1>5, Changed
<1>7. SameBut(d, b, {"splits"}) /\ d.splits = value
  BY <1>5, Changed
<1> HIDE DEF c, d
<1>8. Alike(c, d, cut, data, TRUE, from)
  BY <1>2, <1>3, <1>6, <1>7 DEF Alike, SameBut
<1> QED
  BY <1>4, <1>8

\* and what an ESC has interrupted.
LEMMA PrevTogether ==
  ASSUME NEW p, NEW q, NEW cut, NEW data, NEW text, NEW from, NEW value,
         Alike(p, q, cut, data, text, from)
  PROVE  Alike([p EXCEPT !.prev = value], [q EXCEPT !.prev = value], cut, data, text, TRUE)
<1> DEFINE a == [p EXCEPT !.prev = value]
           b == [q EXCEPT !.prev = value]
<1>1. IsParser(p) /\ IsParser(q)
  BY DEF Alike
<1>2. SameBut(a, p, {"prev"}) /\ a.prev = value
  BY <1>1, Changed
<1>3. SameBut(b, q, {"prev"}) /\ b.prev = value
  BY <1>1, Changed
<1> HIDE DEF a, b
<1>4. Alike(a, b, cut, data, text, TRUE)
  BY <1>2, <1>3 DEF Alike, SameBut
<1> QED
  BY <1>4 DEF a, b

\* flush_utf8 and process_utf8 look at the character that is assembled.
LEMMA TextTogether ==
  ASSUME NEW p, NEW q, NEW cut, NEW data, NEW text, NEW from, NEW byte,
         Alike(p, q, cut, data, text, from)
  PROVE  /\ Alike(Flush(p), Flush(q), cut, data, text, from)
         /\ Alike(ProcessUtf8(p, byte), ProcessUtf8(q, byte), cut, data, text, from)
<1> DEFINE event == Printed(IF IsUtf8(p.utf8) THEN p.utf8 ELSE Replacement)
           none == <<>>
           one == <<byte>>
           longer == Append(p.utf8, byte)
           begin(r) == IF Expected(byte) = 0 THEN Emit(r, Printed(Replacement))
                       ELSE [r EXCEPT !.utf8 = one]
           grown(r) == [r EXCEPT !.utf8 = longer]
<1>1. p.utf8 = q.utf8 /\ IsParser(p) /\ IsParser(q)
  BY DEF Alike
<1>2. ASSUME NEW a, NEW b, Alike(a, b, cut, data, text, from)
      PROVE  Alike(Flush(a), Flush(b), cut, data, text, from)
  <2> DEFINE call == Printed(IF IsUtf8(a.utf8) THEN a.utf8 ELSE Replacement)
  <2>1. a.utf8 = b.utf8
    BY <1>2 DEF Alike
  <2>2. Flush(a) = [Emit(a, call) EXCEPT !.utf8 = none] /\ Flush(b) = [Emit(b, call) EXCEPT !.utf8 = none]
    BY <2>1 DEF Flush
  <2> HIDE DEF call, none
  <2>3. Alike(Emit(a, call), Emit(b, call), cut, data, text, from)
    BY <1>2, EmitTogether
  <2>4. Alike([Emit(a, call) EXCEPT !.utf8 = none], [Emit(b, call) EXCEPT !.utf8 = none],
              cut, data, text, from)
    BY <2>3, Utf8Together
  <2> QED
    BY <2>2, <2>4
<1>3. ASSUME NEW a, NEW b, Alike(a, b, cut, data, text, from)
      PROVE  Alike(begin(a), begin(b), cut, data, text, from)
  <2>1. Alike(Emit(a, Printed(Replacement)), Emit(b, Printed(Replacement)), cut, data, text, from)
    BY <1>3, EmitTogether
  <2> HIDE DEF one
  <2>2. Alike([a EXCEPT !.utf8 = one], [b EXCEPT !.utf8 = one], cut, data, text, from)
    BY <1>3, Utf8Together
  <2> QED
    BY <2>1, <2>2
<1>4. grown(p).utf8 = longer /\ grown(q).utf8 = longer
  BY <1>1 DEF IsParser
<1> HIDE DEF longer
<1>5. Alike(grown(p), grown(q), cut, data, text, from)
  BY Utf8Together
<1>6. \A r \in {p, q} :
        ProcessUtf8(r, byte) = IF r.utf8 = <<>> THEN begin(r)
                               ELSE IF ~IsContinuation(byte) THEN begin(Flush(r))
                               ELSE IF Len(grown(r).utf8) = Expected(grown(r).utf8[1])
                                 THEN Flush(grown(r)) ELSE grown(r)
  BY <1>1 DEF ProcessUtf8, longer
<1> HIDE DEF begin, grown
<1>7. /\ Alike(Flush(p), Flush(q), cut, data, text, from)
      /\ Alike(Flush(grown(p)), Flush(grown(q)), cut, data, text, from)
      /\ Alike(begin(p), begin(q), cut, data, text, from)
      /\ Alike(begin(Flush(p)), begin(Flush(q)), cut, data, text, from)
  BY <1>2, <1>3, <1>5
<1> QED
  BY <1>1, <1>4, <1>5, <1>6, <1>7

\* A byte collected, or put into a string that both have.
LEMMA BuffersTogether ==
  ASSUME NEW p, NEW q, NEW cut, NEW data, NEW text, NEW from, NEW byte,
         Alike(p, q, cut, data, text, from)
  PROVE  /\ Alike(Collect(p, byte), Collect(q, byte), cut, data, text, from)
         /\ data => Alike(Put(p, byte), Put(q, byte), cut, data, text, from)
         /\ text => Alike(OscPut(p, byte), OscPut(q, byte), cut, data, text, from)
         /\ text => Parts(p) = Parts(q)
<1>1. Alike(Collect(p, byte), Collect(q, byte), cut, data, text, from)
  <2> DEFINE longer == Append(p.intermediates, byte)
  <2>1. p.intermediates = q.intermediates
    BY DEF Alike
  <2>2. \A r \in {p, q} : Collect(r, byte) = IF Len(p.intermediates) < MaxIntermediates
                            THEN [r EXCEPT !.intermediates = longer] ELSE r
    BY <2>1 DEF Collect
  <2> HIDE DEF longer
  <2>3. Alike([p EXCEPT !.intermediates = longer], [q EXCEPT !.intermediates = longer], cut, data, text, from)
    BY SmallTogether
  <2> QED
    BY <2>2, <2>3
<1>2. ASSUME data
      PROVE  Alike(Put(p, byte), Put(q, byte), cut, data, text, from)
  <2> DEFINE longer == Append(p.dcs, byte)
  <2>1. p.dcs = q.dcs
    BY <1>2 DEF Alike
  <2>2. \A r \in {p, q} : Put(r, byte) = IF Len(p.dcs) < MaxString THEN [r EXCEPT !.dcs = longer] ELSE r
    BY <2>1 DEF Put
  <2> HIDE DEF longer
  <2>3. Alike([p EXCEPT !.dcs = longer], [q EXCEPT !.dcs = longer], cut, data, text, from)
    BY DataTogether
  <2> QED
    BY <2>2, <2>3
<1>3. ASSUME text
      PROVE  /\ Alike(OscPut(p, byte), OscPut(q, byte), cut, data, text, from)
             /\ Parts(p) = Parts(q)
  <2> DEFINE longer == Append(p.osc, byte)
             more == Append(p.splits, Len(p.osc))
  <2>1. p.osc = q.osc /\ p.splits = q.splits
    BY <1>3 DEF Alike
  <2>2. \A r \in {p, q} : OscPut(r, byte) =
          IF byte = Semicolon THEN [r EXCEPT !.splits = more]
          ELSE IF Len(p.osc) < MaxString THEN [r EXCEPT !.osc = longer] ELSE r
    BY <2>1 DEF OscPut
  <2> HIDE DEF longer, more
  <2>3. /\ Alike([p EXCEPT !.splits = more], [q EXCEPT !.splits = more], cut, data, text, from)
        /\ Alike([p EXCEPT !.osc = longer], [q EXCEPT !.osc = longer], cut, data, text, from)
    BY SplitsTogether, OscTogether
  <2>4. Parts(p) = Parts(q)
    BY <2>1 DEF Parts
  <2> QED
    BY <2>2, <2>3, <2>4
<1> QED
  BY <1>1, <1>2, <1>3

\* The dispatches. A backslash asks for what the ESC has interrupted.
LEMMA DispatchTogether ==
  ASSUME NEW p, NEW q, NEW cut, NEW data, NEW text, NEW from, NEW byte,
         Alike(p, q, cut, data, text, from)
  PROVE  /\ Alike(CsiDispatch(p, byte), CsiDispatch(q, byte), cut, data, text, from)
         /\ data => Alike(Unhook(p), Unhook(q), cut, data, text, from)
         /\ (byte = Backslash =>
               from /\ (q.prev = "OscString" => text) /\ (q.prev = "DcsPassthrough" => data))
              => Alike(EscDispatch(p, byte), EscDispatch(q, byte), cut, data, text, from)
<1> DEFINE params == Finalized(p.params)
           none == <<>>
<1>1. p.params = q.params /\ p.intermediates = q.intermediates
  BY DEF Alike
<1>2. Alike(CsiDispatch(p, byte), CsiDispatch(q, byte), cut, data, text, from)
  <2> DEFINE event == Csi(params, p.intermediates, byte)
  <2>1. \A r \in {p, q} : CsiDispatch(r, byte) = [Emit(r, event) EXCEPT !.params.values = params]
    BY <1>1 DEF CsiDispatch
  <2> HIDE DEF event, params
  <2>2. Alike(Emit(p, event), Emit(q, event), cut, data, text, from)
    BY EmitTogether
  <2>3. Alike([Emit(p, event) EXCEPT !.params.values = params], [Emit(q, event) EXCEPT !.params.values = params],
              cut, data, text, from)
    BY <2>2, ValuesTogether
  <2> QED
    BY <2>1, <2>3
<1>3. ASSUME data
      PROVE  Alike(Unhook(p), Unhook(q), cut, data, text, from)
  <2> DEFINE given == p.intermediates # <<>>
             event == Dcs(params, IF given THEN Front(p.intermediates) ELSE <<>>,
                          IF given THEN Last(p.intermediates) ELSE 0, p.dcs)
             end(r) == [Emit(r, event) EXCEPT !.dcs = none, !.params.values = params]
             dropped(r) == [Emit(r, event) EXCEPT !.dcs = none]
  <2>1. p.dcs = q.dcs
    BY <1>3 DEF Alike
  <2>2. \A r \in {p, q} : Unhook(r) = end(r)
    BY <1>1, <2>1 DEF Unhook
  <2> HIDE DEF event, params, none
  <2>3. Alike(Emit(p, event), Emit(q, event), cut, data, text, from)
    BY EmitTogether
  <2>4. Alike(dropped(p), dropped(q), cut, data, text, from)
    BY <2>3, DataTogether
  <2>5. \A r \in {p, q} : end(r) = [dropped(r) EXCEPT !.params.values = params]
    OBVIOUS
  <2> HIDE DEF dropped
  <2>6. Alike([dropped(p) EXCEPT !.params.values = params], [dropped(q) EXCEPT !.params.values = params],
              cut, data, text, from)
    BY <2>4, ValuesTogether
  <2> QED
    BY <2>2, <2>5, <2>6
<1>4. ASSUME byte = Backslash =>
               from /\ (q.prev = "OscString" => text) /\ (q.prev = "DcsPassthrough" => data)
      PROVE  Alike(EscDispatch(p, byte), EscDispatch(q, byte), cut, data, text, from)
  <2>1. CASE byte = Backslash /\ q.prev = "OscString"
    <3>1. p.prev = q.prev /\ text
      BY <1>4, <2>1 DEF Alike
    <3>2. Parts(p) = Parts(q)
      BY <3>1, BuffersTogether
    <3>3. EscDispatch(p, byte) = Emit(p, Osc(Parts(p))) /\ EscDispatch(q, byte) = Emit(q, Osc(Parts(p)))
      BY <2>1, <3>1, <3>2 DEF EscDispatch
    <3> QED
      BY <3>3, EmitTogether
  <2>2. CASE byte = Backslash /\ q.prev = "DcsPassthrough"
    <3> DEFINE event == Dcs(p.params.values, p.intermediates, 0, p.dcs)
    <3>1. p.prev = q.prev /\ p.dcs = q.dcs
      BY <1>4, <2>2 DEF Alike
    <3>2. \A r \in {p, q} : EscDispatch(r, byte) = [Emit(r, event) EXCEPT !.dcs = none]
      BY <1>1, <2>2, <3>1 DEF EscDispatch
    <3> HIDE DEF event, none
    <3>3. Alike(Emit(p, event), Emit(q, event), cut, data, text, from)
      BY EmitTogether
    <3>4. Alike([Emit(p, event) EXCEPT !.dcs = none], [Emit(q, event) EXCEPT !.dcs = none],
                cut, data, text, from)
      BY <3>3, DataTogether
    <3> QED
      BY <3>2, <3>4
  <2>3. CASE byte = Backslash /\ q.prev \notin {"OscString", "DcsPassthrough"}
    <3>1. p.prev = q.prev
      BY <1>4, <2>3 DEF Alike
    <3>2. \A r \in {p, q} : EscDispatch(r, byte) = Emit(r, Esc(p.intermediates, byte))
      BY <1>1, <2>3, <3>1 DEF EscDispatch
    <3> QED
      BY <3>2, EmitTogether
  <2>4. CASE byte # Backslash
    <3>1. \A r \in {p, q} : EscDispatch(r, byte) = Emit(r, Esc(p.intermediates, byte))
      BY <1>1, <2>4 DEF EscDispatch
    <3> QED
      BY <3>1, EmitTogether
  <2> QED
    BY <2>1, <2>2, <2>3, <2>4
<1> QED
  BY <1>2, <1>3, <1>4

\* perform_action, where both have what the action reads.
LEMMA PerformTogether ==
  ASSUME NEW p, NEW q, NEW cut, NEW data, NEW text, NEW from, NEW byte, NEW action,
         Alike(p, q, cut, data, text, from),
         action \in {"Put", "Unhook"} => data,
         action \in {"OscPut", "OscEnd"} => text,
         action = "EscDispatch" /\ byte = Backslash =>
           from /\ (q.prev = "OscString" => text) /\ (q.prev = "DcsPassthrough" => data)
  PROVE  Alike(Perform(p, action, byte), Perform(q, action, byte), cut, data, text, from)
<1> DEFINE params == IF byte = Semicolon THEN FinishParam(p.params) ELSE AddDigit(p.params, byte - 48)
<1>1. p.params = q.params
  BY DEF Alike
<1>2. \A event : Alike(Emit(p, event), Emit(q, event), cut, data, text, from)
  BY EmitTogether
<1>3. CASE action = "Param"
  <2>1. \A r \in {p, q} : Perform(r, action, byte) = [r EXCEPT !.params = params]
    BY <1>1, <1>3 DEF Perform
  <2> HIDE DEF params
  <2>2. Alike([p EXCEPT !.params = params], [q EXCEPT !.params = params], cut, data, text, from)
    BY ParamsTogether
  <2> QED
    BY <2>1, <2>2
<1>4. CASE action \in {"OscPut", "OscEnd"}
  <2>1. text
    BY <1>4
  <2>2. Parts(p) = Parts(q) /\ Alike(OscPut(p, byte), OscPut(q, byte), cut, data, text, from)
    BY <2>1, BuffersTogether
  <2> QED
    BY <1>2, <1>4, <2>2 DEF Perform
<1>5. CASE action \in {"Put", "Unhook"}
  <2>1. data
    BY <1>5
  <2>2. /\ Alike(Put(p, byte), Put(q, byte), cut, data, text, from)
        /\ Alike(Unhook(p), Unhook(q), cut, data, text, from)
    BY <2>1, BuffersTogether, DispatchTogether
  <2> QED
    BY <1>5, <2>2 DEF Perform
<1>6. CASE action \in {"Collect", "Hook"}
  BY <1>6, BuffersTogether DEF Perform
<1>7. CASE action = "CsiDispatch"
  BY <1>7, DispatchTogether DEF Perform
<1>8. CASE action = "EscDispatch"
  <2>1. Alike(EscDispatch(p, byte), EscDispatch(q, byte), cut, data, text, from)
    BY <1>8, DispatchTogether
  <2> QED
    BY <1>8, <2>1 DEF Perform
<1>9. CASE action \in {"Print", "Execute"}
  BY <1>2, <1>9 DEF Perform
<1>10. CASE action \notin {"Param", "OscPut", "OscEnd", "Put", "Unhook", "Collect", "Hook",
                           "CsiDispatch", "EscDispatch", "Print", "Execute"}
  <2>1. \A r \in {p, q} : Perform(r, action, byte) = r
    BY <1>10 DEF Perform
  <2> QED
    BY <2>1
<1> QED
  BY <1>3, <1>4, <1>5, <1>6, <1>7, <1>8, <1>9, <1>10

\* perform_entry_action: what a sequence begins with is empty in both.
LEMMA EnterTogether ==
  ASSUME NEW p, NEW q, NEW cut, NEW data, NEW text, NEW from, NEW next,
         Alike(p, q, cut, data, text, from)
  PROVE  Alike(Enter(p, next), Enter(q, next), cut,
               data \/ next = "DcsEntry", text \/ next = "OscString", from)
<1> DEFINE none == <<>>
           zero == NoParams
           bare(r) == [r EXCEPT !.intermediates = none]
           clear(r) == [bare(r) EXCEPT !.params = zero]
           empty(r) == [clear(r) EXCEPT !.dcs = none]
           fresh(r) == [r EXCEPT !.osc = none, !.splits = none]
<1>1. \A r \in {p, q} :
        Enter(r, next) = CASE next \in {"Escape", "CsiEntry"} -> clear(r)
                           [] next = "DcsEntry" -> empty(r)
                           [] next = "OscString" -> fresh(r)
                           [] OTHER -> r
  BY DEF Enter
<1> HIDE DEF none, zero
<1>2. Alike(fresh(p), fresh(q), cut, data, TRUE, from)
  BY StringTogether
<1>3. Alike(bare(p), bare(q), cut, data, text, from)
  BY SmallTogether
<1> HIDE DEF bare
<1>4. Alike(clear(p), clear(q), cut, data, text, from)
  BY <1>3, ParamsTogether
<1> HIDE DEF clear
<1>5. Alike(empty(p), empty(q), cut, TRUE, text, from)
  BY <1>4, DcsTogether
<1> HIDE DEF empty, fresh
<1>6. CASE next = "DcsEntry"
  <2>1. Enter(p, next) = empty(p) /\ Enter(q, next) = empty(q)
    BY <1>1, <1>6
  <2> QED
    BY <1>5, <1>6, <2>1 DEF Alike
<1>7. CASE next = "OscString"
  <2>1. Enter(p, next) = fresh(p) /\ Enter(q, next) = fresh(q)
    BY <1>1, <1>7
  <2> QED
    BY <1>2, <1>7, <2>1 DEF Alike
<1>8. CASE next \in {"Escape", "CsiEntry"}
  <2>1. Enter(p, next) = clear(p) /\ Enter(q, next) = clear(q)
    BY <1>1, <1>8
  <2> QED
    BY <1>4, <1>8, <2>1 DEF Alike
<1>9. CASE next \notin {"DcsEntry", "OscString", "Escape", "CsiEntry"}
  <2>1. Enter(p, next) = p /\ Enter(q, next) = q
    BY <1>1, <1>9
  <2> QED
    BY <1>9, <2>1 DEF Alike
<1> QED
  BY <1>6, <1>7, <1>8, <1>9

\* Where the table uses what: strings where they have been begun, dispatches where
\* a sequence has, and how a sequence begins.
EscapeStates == {"Escape", "EscapeIntermediate"}
DcsStates == {"DcsEntry", "DcsParam", "DcsIntermediate", "DcsPassthrough"}

LEMMA TableUses ==
  ASSUME NEW state \in States, NEW byte \in Byte
  PROVE  LET go == Transition(state, byte)
         IN /\ go.action \in {"Put", "Unhook"} => state = "DcsPassthrough"
            /\ go.action \in {"OscPut", "OscEnd"} => state = "OscString"
            /\ go.action = "EscDispatch" => state \in EscapeStates
            /\ go.next \in DcsStates => state \in DcsStates \/ go.next = "DcsEntry"
            /\ go.next \in EscapeStates => go.next = "Escape" \/ state \in EscapeStates
            /\ go.next \in EscapeStates /\ state \in EscapeStates => byte \in StillWaiting
            /\ go.next = "Escape" => go.action \in {"None", "Execute", "Ignore"}
<1> DEFINE Right(go) ==
             /\ go.action \in {"Put", "Unhook"} => state = "DcsPassthrough"
             /\ go.action \in {"OscPut", "OscEnd"} => state = "OscString"
             /\ go.action = "EscDispatch" => state \in EscapeStates
             /\ go.next \in DcsStates => state \in DcsStates \/ go.next = "DcsEntry"
             /\ go.next \in EscapeStates => go.next = "Escape" \/ state \in EscapeStates
             /\ go.next \in EscapeStates /\ state \in EscapeStates => byte \in StillWaiting
             /\ go.next = "Escape" => go.action \in {"None", "Execute", "Ignore"}
<1> USE DEF Go, EscapeStates, DcsStates
<1>1. state \in {"CsiEntry", "CsiParam", "CsiIntermediate"} => Right(InCsi(state, byte))
  BY DEF InCsi
<1>2. state \in {"DcsEntry", "DcsParam", "DcsIntermediate"} => Right(InDcs(state, byte))
  BY DEF InDcs
<1>3. state = "Escape" => Right(InEscape(byte))
  BY DEF InEscape, StillWaiting
<1>4. state = "EscapeIntermediate" => Right(InEscapeIntermediate(byte))
  BY DEF InEscapeIntermediate, StillWaiting
<1>5. state \in {"DcsPassthrough", "OscString", "DcsIgnore", "SosPmApcString"} => Right(InString(state, byte))
  BY DEF InString
<1>6. Right(Transition(state, byte))
  <2>1. CASE byte \in {CAN, SUB, ESC, DEL}
    BY <2>1 DEF Transition, StillWaiting
  <2>2. CASE byte \notin {CAN, SUB, ESC, DEL} /\ state \in {"Ground", "CsiIgnore"}
    BY <2>2 DEF Transition
  <2>3. CASE byte \notin {CAN, SUB, ESC, DEL} /\ state \notin {"Ground", "CsiIgnore"}
    <3> HIDE DEF Right
    <3> QED
      BY <1>1, <1>2, <1>3, <1>4, <1>5, <2>3 DEF Transition, States
  <2> QED
    BY <2>1, <2>2, <2>3
<1> QED
  BY <1>6

\* What the assembly of a character changes.
LEMMA TextChanges ==
  ASSUME NEW p, IsParser(p), NEW byte
  PROVE  /\ \A event : SameBut(Emit(p, event), p, {"out"})
         /\ SameBut(Flush(p), p, {"out", "utf8"})
         /\ ProcessUtf8(p, byte).state = p.state
<1>1. ASSUME NEW r, IsParser(r), NEW event
      PROVE  SameBut(Emit(r, event), r, {"out"})
  <2> DEFINE calls == Append(r.out, event)
  <2>1. Emit(r, event) = [r EXCEPT !.out = calls]
    BY DEF Emit
  <2> HIDE DEF calls
  <2>2. SameBut([r EXCEPT !.out = calls], r, {"out"})
    BY <1>1, Changed
  <2> QED
    BY <2>1, <2>2
<1>2. ASSUME NEW r, IsParser(r)
      PROVE  SameBut(Flush(r), r, {"out", "utf8"})
  <2> DEFINE event == Printed(IF IsUtf8(r.utf8) THEN r.utf8 ELSE Replacement)
             s == Emit(r, event)
             none == <<>>
  <2>1. Flush(r) = [s EXCEPT !.utf8 = none]
    BY DEF Flush
  <2> HIDE DEF event
  <2>2. SameBut(s, r, {"out"})
    BY <1>1, <1>2
  <2> HIDE DEF s, none
  <2>3. IsParser(s)
    BY <2>2 DEF SameBut
  <2>4. SameBut([s EXCEPT !.utf8 = none], s, {"utf8"})
    BY <2>3, Changed
  <2> QED
    BY <2>1, <2>2, <2>4 DEF SameBut
<1>3. ProcessUtf8(p, byte).state = p.state
  <2> DEFINE text == Append(p.utf8, byte)
             one == <<byte>>
             added == [p EXCEPT !.utf8 = text]
             begin(r) == IF Expected(byte) = 0 THEN Emit(r, Printed(Replacement))
                         ELSE [r EXCEPT !.utf8 = one]
  <2>1. ProcessUtf8(p, byte) \in {begin(p), begin(Flush(p)), Flush(added), added}
    BY DEF ProcessUtf8
  <2> HIDE DEF text, one
  <2>2. ASSUME NEW r, IsParser(r)
        PROVE  begin(r).state = r.state
    <3>1. Emit(r, Printed(Replacement)).state = r.state
      BY <1>1, <2>2 DEF SameBut
    <3>2. [r EXCEPT !.utf8 = one].state = r.state
      BY <2>2, Changed DEF SameBut
    <3> QED
      BY <3>1, <3>2
  <2>3. SameBut(added, p, {"utf8"})
    BY Changed
  <2> HIDE DEF begin, added
  <2>4. IsParser(added) /\ added.state = p.state
    BY <2>3 DEF SameBut
  <2>5. Flush(added).state = p.state
    BY <1>2, <2>4 DEF SameBut
  <2>6. IsParser(Flush(p)) /\ Flush(p).state = p.state
    BY <1>2 DEF SameBut
  <2>7. begin(p).state = p.state /\ begin(Flush(p)).state = p.state
    BY <2>2, <2>6
  <2> QED
    BY <2>1, <2>4, <2>5, <2>7
<1> QED
  BY <1>1, <1>2, <1>3

\* Actions, entries and flushes leave alone what an ESC has interrupted.
LEMMA PrevIsKept ==
  ASSUME NEW p, IsParser(p), NEW byte, NEW action, NEW next, NEW value
  PROVE  /\ Perform(p, action, byte).prev = p.prev /\ Enter(p, next).prev = p.prev
         /\ Flush(p).prev = p.prev /\ [p EXCEPT !.state = value].prev = p.prev
         /\ [p EXCEPT !.state = value].state = value
<1> USE DEF IsParser
<1>1. \A event : Emit(p, event).prev = p.prev
  BY DEF Emit
<1>2. /\ Collect(p, byte).prev = p.prev /\ Put(p, byte).prev = p.prev
      /\ OscPut(p, byte).prev = p.prev
  BY DEF Collect, Put, OscPut
<1>3. /\ EscDispatch(p, byte).prev = p.prev /\ Unhook(p).prev = p.prev
      /\ CsiDispatch(p, byte).prev = p.prev
  BY DEF EscDispatch, Unhook, CsiDispatch, Emit
<1>4. \A params : [p EXCEPT !.params = params].prev = p.prev
  OBVIOUS
<1>5. Perform(p, action, byte).prev = p.prev
  BY <1>1, <1>2, <1>3, <1>4 DEF Perform
<1> QED
  BY <1>5 DEF Enter, Flush, Emit

\* When two parsers must agree on what: on the data of a DCS string and the text of
\* an OSC string while they grow and while an ESC interrupts them, and on what it
\* has interrupted unless that was before the two began (early).
Data(q) == q.state \in DcsStates \/ (q.state \in EscapeStates /\ q.prev = "DcsPassthrough")
Text(q) == q.state = "OscString" \/ (q.state \in EscapeStates /\ q.prev = "OscString")
Together(p, q, cut, early) ==
  Sound(p) /\ Sound(q) /\ Alike(p, q, cut, Data(q), Text(q), q.state \in EscapeStates /\ ~early)

\* A byte keeps them together. The parts of process_byte have a step each.
LEMMA ByteTogether ==
  ASSUME NEW p, NEW q, NEW cut, NEW early \in BOOLEAN, NEW byte \in Byte,
         Together(p, q, cut, early), byte = Backslash => ~early
  PROVE  Together(ProcessByte(p, byte), ProcessByte(q, byte), cut, early /\ byte \in StillWaiting)
<1> DEFINE go == Transition(q.state, byte)
           data == Data(q)
           text == Text(q)
           from == q.state \in EscapeStates /\ ~early
           flushed(r) == IF r.utf8 # <<>> THEN Flush(r) ELSE r
           begins == go.next = "Escape" /\ q.state # "Escape"
           left(r) == IF begins THEN [flushed(r) EXCEPT !.prev = q.state] ELSE flushed(r)
           moves == go.next # q.state
           entered(r) == IF moves THEN Enter(left(r), go.next) ELSE left(r)
           done(r) == Perform(entered(r), go.action, byte)
           end(r) == [done(r) EXCEPT !.state = go.next]
           data1 == data \/ (moves /\ go.next = "DcsEntry")
           text1 == text \/ (moves /\ go.next = "OscString")
           from1 == from \/ begins
<1>1. /\ Sound(p) /\ Sound(q) /\ Alike(p, q, cut, data, text, from)
      /\ p.state = q.state /\ p.utf8 = q.utf8 /\ q.state \in States
  BY DEF Together, Alike, Sound, Modal
<1>2. Sound(ProcessByte(p, byte)) /\ Sound(ProcessByte(q, byte))
  BY <1>1, ProcessByteKeeps
<1>3. CASE q.state = "Ground" /\ byte >= 128
  <2> DEFINE p1 == ProcessUtf8(p, byte)
             q1 == ProcessUtf8(q, byte)
  <2>1. ProcessByte(p, byte) = p1 /\ ProcessByte(q, byte) = q1
    BY <1>1, <1>3 DEF ProcessByte
  <2>2. Alike(p1, q1, cut, data, text, from)
    BY <1>1, TextTogether
  <2>3. q1.state = "Ground"
    BY <1>1, <1>3, TextChanges DEF Sound
  <2> HIDE DEF p1, q1
  <2>4. ~Data(q1) /\ ~Text(q1) /\ q1.state \notin EscapeStates
    BY <2>3 DEF Data, Text, EscapeStates, DcsStates
  <2>5. Alike(p1, q1, cut, Data(q1), Text(q1), q1.state \in EscapeStates /\ ~(early /\ byte \in StillWaiting))
    BY <2>2, <2>4 DEF Alike
  <2> QED
    BY <1>2, <2>1, <2>5 DEF Together
<1>4. CASE ~(q.state = "Ground" /\ byte >= 128)
  <2>1. ProcessByte(p, byte) = end(p) /\ ProcessByte(q, byte) = end(q)
    <3>1. \A r \in {p, q} : ProcessByte(r, byte) = end(r)
      BY <1>1, <1>4 DEF ProcessByte
    <3> QED
      BY <3>1
  <2>2. /\ go.action \in {"Put", "Unhook"} => q.state = "DcsPassthrough"
        /\ go.action \in {"OscPut", "OscEnd"} => q.state = "OscString"
        /\ go.action = "EscDispatch" => q.state \in EscapeStates
        /\ go.next \in DcsStates => q.state \in DcsStates \/ go.next = "DcsEntry"
        /\ go.next \in EscapeStates => go.next = "Escape" \/ q.state \in EscapeStates
        /\ go.next \in EscapeStates /\ q.state \in EscapeStates => byte \in StillWaiting
        /\ go.next = "Escape" => go.action \in {"None", "Execute", "Ignore"}
    BY <1>1, TableUses
  <2> HIDE DEF go, data, text, from
  <2>3. Alike(flushed(p), flushed(q), cut, data, text, from)
    BY <1>1, TextTogether
  <2>4. flushed(q).prev = q.prev
    BY <1>1, PrevIsKept DEF Sound
  <2> HIDE DEF flushed
  <2>5. Alike(left(p), left(q), cut, data, text, from1)
    <3>1. CASE begins
      <4> DEFINE value == q.state
      <4>1. left(p) = [flushed(p) EXCEPT !.prev = value] /\ left(q) = [flushed(q) EXCEPT !.prev = value]
        BY <3>1
      <4> HIDE DEF left, value
      <4>2. Alike([flushed(p) EXCEPT !.prev = value], [flushed(q) EXCEPT !.prev = value], cut, data, text, TRUE)
        BY <2>3, PrevTogether
      <4>3. Alike(left(p), left(q), cut, data, text, TRUE)
        BY <4>1, <4>2
      <4> QED
        BY <3>1, <4>3 DEF Alike
    <3>2. CASE ~begins
      <4>1. left(p) = flushed(p) /\ left(q) = flushed(q)
        BY <3>2
      <4> HIDE DEF left
      <4> QED
        BY <2>3, <3>2, <4>1 DEF Alike
    <3> QED
      BY <3>1, <3>2
  <2>6. left(q).prev = IF begins THEN q.state ELSE q.prev
    BY <2>3, <2>4 DEF Alike, IsParser
  <2> HIDE DEF left
  <2>7. Alike(entered(p), entered(q), cut, data1, text1, from1)
    <3>1. CASE moves
      <4>1. Alike(Enter(left(p), go.next), Enter(left(q), go.next), cut,
                  data \/ go.next = "DcsEntry", text \/ go.next = "OscString", from1)
        BY <2>5, EnterTogether
      <4>2. entered(p) = Enter(left(p), go.next) /\ entered(q) = Enter(left(q), go.next)
        BY <3>1
      <4> HIDE DEF entered
      <4> QED
        BY <3>1, <4>1, <4>2 DEF Alike
    <3>2. CASE ~moves
      <4>1. entered(p) = left(p) /\ entered(q) = left(q)
        BY <3>2
      <4> HIDE DEF entered
      <4> QED
        BY <2>5, <3>2, <4>1 DEF Alike
    <3> QED
      BY <3>1, <3>2
  <2>8. entered(q).prev = left(q).prev
    BY <2>5, PrevIsKept DEF Alike
  <2> HIDE DEF entered
  <2>9. /\ go.action \in {"Put", "Unhook"} => data1
        /\ go.action \in {"OscPut", "OscEnd"} => text1
        /\ go.action = "EscDispatch" /\ byte = Backslash =>
             /\ from1 /\ (entered(q).prev = "OscString" => text1)
             /\ (entered(q).prev = "DcsPassthrough" => data1)
    <3>1. ASSUME go.action = "EscDispatch", byte = Backslash
          PROVE  from /\ ~begins
      BY <2>2, <3>1 DEF from
    <3>2. q.state \in EscapeStates /\ q.prev = "OscString" => text
      BY DEF text, Text
    <3>3. q.state \in EscapeStates /\ q.prev = "DcsPassthrough" => data
      BY DEF data, Data
    <3>4. q.state = "DcsPassthrough" => data
      BY DEF data, Data, DcsStates
    <3>5. q.state = "OscString" => text
      BY DEF text, Text
    <3> QED
      BY <2>2, <2>6, <2>8, <3>1, <3>2, <3>3, <3>4, <3>5
  <2> HIDE DEF data1, text1, from1
  <2>10. Alike(done(p), done(q), cut, data1, text1, from1)
    BY <2>7, <2>9, PerformTogether
  <2>11. done(q).prev = entered(q).prev
    BY <2>7, PrevIsKept DEF Alike
  <2> HIDE DEF done
  <2>12. Alike(end(p), end(q), cut, data1, text1, from1)
    <3> DEFINE value == go.next
    <3>1. end(p) = [done(p) EXCEPT !.state = value] /\ end(q) = [done(q) EXCEPT !.state = value]
      OBVIOUS
    <3> HIDE DEF end, value
    <3>2. Alike([done(p) EXCEPT !.state = value], [done(q) EXCEPT !.state = value], cut, data1, text1, from1)
      BY <2>10, StateTogether
    <3> QED
      BY <3>1, <3>2
  <2>13. end(q).state = go.next /\ end(q).prev = left(q).prev
    BY <2>8, <2>10, <2>11, PrevIsKept DEF Alike
  <2> HIDE DEF end
  <2>14. Data(end(q)) => data1
    BY <2>2, <2>6, <2>13 DEF Data, data1, data, EscapeStates, DcsStates
  <2>15. Text(end(q)) => text1
    BY <2>2, <2>6, <2>13 DEF Text, text1, text, EscapeStates
  <2>16. end(q).state \in EscapeStates /\ ~(early /\ byte \in StillWaiting) => from1
    BY <2>2, <2>13 DEF from1, from, EscapeStates
  <2>17. Alike(end(p), end(q), cut, Data(end(q)), Text(end(q)),
               end(q).state \in EscapeStates /\ ~(early /\ byte \in StillWaiting))
    BY <2>12, <2>14, <2>15, <2>16 DEF Alike
  <2> QED
    BY <1>2, <2>1, <2>17 DEF Together
<1> QED
  BY <1>3, <1>4

-----------------------------------------------------------------------------
(* From the first byte of a probe to its last.                                *)

\* Between an ESC and the byte that says what it begins there are no parameters and
\* no intermediates: the table collects them in other states, and a second ESC does
\* not enter the state again, so it clears nothing.
Fresh(p) == p.state = "Escape" => p.params = NoParams /\ p.intermediates = <<>>

LEMMA ByteKeepsFresh ==
  ASSUME NEW p, Sound(p), Fresh(p), NEW byte \in Byte
  PROVE  Fresh(ProcessByte(p, byte))
<1> DEFINE go == Transition(p.state, byte)
           flushed == IF p.utf8 # <<>> THEN Flush(p) ELSE p
           left == IF go.next = "Escape" /\ p.state # "Escape"
                     THEN [flushed EXCEPT !.prev = p.state] ELSE flushed
           entered == IF go.next # p.state THEN Enter(left, go.next) ELSE left
           done == Perform(entered, go.action, byte)
           SameSmall(a, b) == a.params = b.params /\ a.intermediates = b.intermediates
<1>1. IsParser(p) /\ p.state \in States
  BY DEF Sound, Modal
<1>2. ASSUME NEW r, IsParser(r), NEW value
      PROVE  [r EXCEPT !.state = value].state = value /\ SameSmall([r EXCEPT !.state = value], r)
  BY <1>2, Changed DEF SameBut
<1>4. CASE p.state = "Ground" /\ byte >= 128
  <2>1. ProcessUtf8(p, byte).state = p.state
    BY <1>1, TextChanges
  <2>2. ProcessByte(p, byte).state = "Ground"
    BY <1>4, <2>1 DEF ProcessByte
  <2> QED
    BY <2>2 DEF Fresh
<1>5. CASE ~(p.state = "Ground" /\ byte >= 128)
  <2>1. ProcessByte(p, byte) = [done EXCEPT !.state = go.next]
    BY <1>5 DEF ProcessByte
  <2>2. go.next = "Escape" => go.action \in {"None", "Execute", "Ignore"}
    BY <1>1, TableUses
  <2> HIDE DEF go
  <2>3. IsParser(flushed) /\ SameSmall(flushed, p)
    <3>1. SameBut(Flush(p), p, {"out", "utf8"})
      BY <1>1, TextChanges
    <3> QED
      BY <1>1, <3>1 DEF SameBut
  <2> HIDE DEF flushed
  <2>4. IsParser(left) /\ SameSmall(left, p)
    <3> DEFINE value == p.state
    <3> HIDE DEF value
    <3>1. SameBut([flushed EXCEPT !.prev = value], flushed, {"prev"})
      BY <2>3, Changed
    <3>2. left = flushed \/ left = [flushed EXCEPT !.prev = value]
      BY DEF value
    <3> HIDE DEF left
    <3> QED
      BY <2>3, <3>1, <3>2 DEF SameBut
  <2> HIDE DEF left
  <2> SUFFICES ASSUME go.next = "Escape"
               PROVE  Fresh([done EXCEPT !.state = go.next])
    <3>1. CASE go.next = "Escape"
      BY <2>1, <3>1
    <3>2. CASE go.next # "Escape"
      <4>1. IsParser(done)
        <5>1. Sound(ProcessByte(p, byte))
          BY ProcessByteKeeps
        <5>2. Sound(flushed)
          BY Cleared, FlushKeeps DEF Sound, flushed
        <5>3. Sound(left)
          BY <5>2, <1>1, Reprev DEF left
        <5>4. Sound(entered)
          BY <5>3, EnterKeeps DEF entered
        <5>5. go.action = "Param" => byte \in ParamBytes
          BY <1>1, TableIsClosed DEF go
        <5> HIDE DEF entered
        <5>6. Sound(done)
          BY <5>4, <5>5, PerformKeeps
        <5> QED
          BY <5>6 DEF Sound
      <4> HIDE DEF done
      <4>2. [done EXCEPT !.state = go.next].state # "Escape"
        BY <1>2, <3>2, <4>1
      <4> QED
        BY <2>1, <4>2 DEF Fresh
    <3> QED
      BY <3>1, <3>2
  <2>5. entered.params = NoParams /\ entered.intermediates = <<>> /\ IsParser(entered)
    <3>1. CASE p.state = "Escape"
      <4>1. entered = left
        BY <3>1
      <4> HIDE DEF entered
      <4> QED
        BY <2>4, <3>1, <4>1 DEF Fresh
    <3>2. CASE p.state # "Escape"
      <4> DEFINE none == <<>>
                 zero == NoParams
                 bare == [left EXCEPT !.intermediates = none]
      <4>1. entered = [bare EXCEPT !.params = zero]
        BY <3>2 DEF Enter
      <4> HIDE DEF entered, none, zero
      <4>2. SameBut(bare, left, {"intermediates"}) /\ bare.intermediates = none
        BY <2>4, Changed
      <4> HIDE DEF bare
      <4>3. IsParser(bare)
        BY <4>2 DEF SameBut
      <4>4. SameBut(entered, bare, {"params"}) /\ entered.params = zero
        BY <4>1, <4>3, Changed
      <4>5. entered.intermediates = none /\ IsParser(entered)
        BY <4>2, <4>4 DEF SameBut
      <4> QED
        BY <4>4, <4>5 DEF none, zero
    <3> QED
      BY <3>1, <3>2
  <2> HIDE DEF entered
  <2>6. IsParser(done) /\ SameSmall(done, entered)
    <3>1. done = entered \/ done = Emit(entered, Executed(byte))
      BY <2>2 DEF Perform
    <3>2. SameBut(Emit(entered, Executed(byte)), entered, {"out"})
      BY <2>5, TextChanges
    <3> HIDE DEF done
    <3> QED
      BY <2>5, <3>1, <3>2 DEF SameBut
  <2> HIDE DEF done
  <2> QED
    BY <1>2, <2>5, <2>6 DEF Fresh
<1> QED
  BY <1>4, <1>5

\* What a parser calls for a character that is cut short.
Remains(p) == IF p.utf8 = <<>> THEN <<>> ELSE <<Printed(Replacement)>>

\* Whatever the parser is in the middle of, the ESC makes it agree with a new one.
LEMMA EscBeginsAfresh ==
  ASSUME NEW p, Sound(p), Fresh(p), p.out = <<>>
  PROVE  Together(ProcessByte(p, ESC), ProcessByte(NewParser, ESC), Remains(p), TRUE)
<1> DEFINE q == NewParser
           none == <<>>
           call == <<Printed(Replacement)>>
           a == ProcessByte(p, ESC)
           b == ProcessByte(q, ESC)
           flushed(r) == IF r.utf8 # <<>> THEN Flush(r) ELSE r
           left(r) == IF r.state # "Escape" THEN [flushed(r) EXCEPT !.prev = r.state] ELSE flushed(r)
           entered(r) == IF r.state # "Escape"
                           THEN [left(r) EXCEPT !.intermediates = none, !.params = NoParams] ELSE left(r)
<1>1. ESC \in Byte /\ Sound(q) /\ ~(ESC >= 128)
  BY NewParserSound DEF ESC, Byte
<1>2. Sound(a) /\ Sound(b)
  BY <1>1, ProcessByteKeeps
<1>3. \A state : Transition(state, ESC) = [action |-> "None", next |-> "Escape"]
  BY DEF Transition, Go, ESC, CAN, SUB, DEL
<1>4. ASSUME NEW r
      PROVE  ProcessByte(r, ESC) = [entered(r) EXCEPT !.state = "Escape"]
  <2> DEFINE go == Transition(r.state, ESC)
             was == IF go.next = "Escape" /\ r.state # "Escape"
                      THEN [flushed(r) EXCEPT !.prev = r.state] ELSE flushed(r)
             now == IF go.next # r.state THEN Enter(was, go.next) ELSE was
  <2>1. ProcessByte(r, ESC) = [Perform(now, go.action, ESC) EXCEPT !.state = go.next]
    BY <1>1 DEF ProcessByte
  <2>2. go.action = "None" /\ go.next = "Escape"
    BY <1>3
  <2> HIDE DEF go, flushed
  <2>3. was = left(r)
    BY <2>2
  <2> HIDE DEF was, left
  <2>4. now = entered(r)
    BY <2>2, <2>3 DEF Enter
  <2> HIDE DEF now, entered
  <2>5. Perform(entered(r), "None", ESC) = entered(r)
    BY DEF Perform
  <2> QED
    BY <2>1, <2>2, <2>4, <2>5
<1>5. ASSUME NEW r, Sound(r), Fresh(r), r.out = none
      PROVE  LET s == ProcessByte(r, ESC)
             IN /\ IsParser(s) /\ s.state = "Escape" /\ s.params = NoParams
                /\ s.intermediates = none /\ s.utf8 = none /\ s.out = Remains(r)
                /\ s.prev = IF r.state = "Escape" THEN r.prev ELSE r.state
  <2>1. IsParser(r)
    BY <1>5 DEF Sound
  <2>2. /\ IsParser(flushed(r)) /\ flushed(r).utf8 = none /\ flushed(r).out = Remains(r)
        /\ flushed(r).params = r.params /\ flushed(r).intermediates = r.intermediates
        /\ flushed(r).prev = r.prev /\ flushed(r).state = r.state
    <3>1. CASE r.utf8 = none
      BY <1>5, <2>1, <3>1 DEF Remains
    <3>2. CASE r.utf8 # none
      <4>1. Len(r.utf8) < Expected(r.utf8[1]) /\ Len(r.utf8) \in Nat
        BY <1>5, <3>2, LenProperties DEF Sound, TextFits
      <4>2. ~IsUtf8(r.utf8)
        BY <4>1 DEF IsUtf8, Expected
      <4> DEFINE event == Printed(Replacement)
                 calls == Append(r.out, event)
                 s == Emit(r, event)
      <4>3. flushed(r) = [s EXCEPT !.utf8 = none]
        BY <3>2, <4>2 DEF Flush
      <4>4. calls = call /\ Remains(r) = call
        <5> HIDE DEF event
        <5>1. Append(<<>>, event) = <<event>>
          OBVIOUS
        <5> QED
          BY <1>5, <3>2, <5>1 DEF Remains, event
      <4>5. s = [r EXCEPT !.out = calls]
        BY DEF Emit
      <4> HIDE DEF event, calls, flushed, call, s, none
      <4>6. SameBut(s, r, {"out"}) /\ s.out = calls
        BY <2>1, <4>5, Changed
      <4>7. IsParser(s)
        BY <4>6 DEF SameBut
      <4>8. LET t == [s EXCEPT !.utf8 = none] IN SameBut(t, s, {"utf8"}) /\ t.utf8 = none
        BY <4>7, Changed
      <4> QED
        BY <4>3, <4>4, <4>6, <4>8 DEF SameBut
    <3> QED
      BY <3>1, <3>2
  <2> HIDE DEF flushed
  <2>3. /\ IsParser(left(r)) /\ left(r).utf8 = none /\ left(r).out = Remains(r)
        /\ left(r).params = r.params /\ left(r).intermediates = r.intermediates
        /\ left(r).prev = IF r.state = "Escape" THEN r.prev ELSE r.state
    BY <2>2 DEF IsParser
  <2> HIDE DEF left
  <2>4. /\ IsParser(entered(r)) /\ entered(r).utf8 = none /\ entered(r).out = Remains(r)
        /\ entered(r).params = NoParams /\ entered(r).intermediates = none
        /\ entered(r).prev = IF r.state = "Escape" THEN r.prev ELSE r.state
    BY <1>5, <2>3 DEF IsParser, Fresh
  <2>5. ProcessByte(r, ESC) = [entered(r) EXCEPT !.state = "Escape"]
    BY <1>4 DEF flushed, left
  <2> HIDE DEF entered
  <2> QED
    BY <2>4, <2>5 DEF IsParser
<1>6. q.state = "Ground" /\ q.out = none /\ q.utf8 = none /\ Fresh(q) /\ Remains(q) = none
  BY DEF NewParser, Fresh, Remains
<1> HIDE DEF q
<1>7. /\ IsParser(a) /\ a.state = "Escape" /\ a.params = NoParams
      /\ a.intermediates = none /\ a.utf8 = none /\ a.out = Remains(p)
  BY <1>5
<1>8. /\ IsParser(b) /\ b.state = "Escape" /\ b.params = NoParams
      /\ b.intermediates = none /\ b.utf8 = none /\ b.out = none /\ b.prev = "Ground"
  BY <1>1, <1>5, <1>6
<1>9. /\ Calls(Remains(p)) /\ Calls(none) /\ Remains(p) = Remains(p) \o none
  <2> DEFINE event == Printed(Replacement)
             S == {event}
  <2>1. Remains(p) \in Seq(S) /\ none \in Seq(S)
    <3> HIDE DEF event
    <3>1. <<event>> \in Seq({event}) /\ <<>> \in Seq({event})
      OBVIOUS
    <3> QED
      BY <3>1 DEF Remains, event
  <2> HIDE DEF S, event
  <2>2. Remains(p) = Remains(p) \o <<>>
    BY <2>1, ConcatEmptySeq
  <2> QED
    BY <2>1, <2>2 DEF Calls
<1> HIDE DEF a, b, none
<1>10. ~Data(b) /\ ~Text(b)
  BY <1>8 DEF Data, Text, EscapeStates, DcsStates
<1>11. Alike(a, b, Remains(p), Data(b), Text(b), b.state \in EscapeStates /\ ~TRUE)
  BY <1>7, <1>8, <1>9, <1>10 DEF Alike
<1> QED
  BY <1>2, <1>11 DEF Together, a, b, q

-----------------------------------------------------------------------------
(* Advance byte by byte.                                                      *)

\* A set of numbers with 0 in it that is closed under successors has them all: the
\* least one that it misses would have a predecessor that it misses too.
LEMMA Numbers ==
  ASSUME NEW S, 0 \in S, \A n \in Nat : n \in S => n + 1 \in S
  PROVE  \A n \in Nat : n \in S
<1> DEFINE B == {n \in Nat : n \notin S}
           Up(n) == {m \in B : m <= n}
           T == {Up(n) : n \in B}
<1> SUFFICES ASSUME B # {} PROVE FALSE
  OBVIOUS
<1>1. T \subseteq FiniteSubsetsOf(B)
  <2> SUFFICES ASSUME NEW n \in B
               PROVE  Up(n) \in SUBSET B /\ IsFiniteSet(Up(n))
    BY DEF FiniteSubsetsOf
  <2>1. n \in Nat /\ Up(n) \in SUBSET Nat /\ Up(n) \in SUBSET B /\ \A m \in Up(n) : m <= n
    OBVIOUS
  <2> HIDE DEF Up
  <2> QED
    BY <2>1, FS_BoundedSetOfNaturals
<1>2. T # {}
  OBVIOUS
<1>3. IsWellFoundedOn(StrictSubsetOrdering(B), FiniteSubsetsOf(B))
  BY FS_StrictSubsetOrderingWellFounded
<1> HIDE DEF T
<1>4. PICK X \in T : \A Y \in T : ~(<<Y, X>> \in StrictSubsetOrdering(B))
  BY <1>1, <1>2, <1>3, WFMin
<1> USE DEF T
<1>5. PICK n \in B : X = Up(n)
  OBVIOUS
<1>6. n - 1 \in Nat /\ n - 1 \notin S
  OBVIOUS
<1> DEFINE m == n - 1
<1>7. m \in B /\ m < n
  BY <1>6
<1> HIDE DEF m
<1>8. n \in Up(n) /\ n \notin Up(m) /\ Up(m) \in SUBSET Up(n)
  BY <1>7
<1>9. <<Up(m), X>> \in StrictSubsetOrdering(B)
  BY <1>5, <1>8 DEF StrictSubsetOrdering
<1> QED
  BY <1>4, <1>7, <1>9

\* The parser after each byte.
Course(p, bytes, n, f) ==
  f = [k \in 0..n |-> IF k = 0 THEN p ELSE ProcessByte(f[k - 1], bytes[k])]

LEMMA CourseExists ==
  ASSUME NEW p, NEW bytes, NEW n \in Nat
  PROVE  \E f : Course(p, bytes, n, f)
<1> DEFINE P == {k \in Nat : \E f : Course(p, bytes, k, f)}
<1>1. 0 \in P
  <2> DEFINE f == [i \in 0..0 |-> p]
  <2>1. f = [i \in 0..0 |-> IF i = 0 THEN p ELSE ProcessByte(f[i - 1], bytes[i])]
    OBVIOUS
  <2> HIDE DEF f
  <2>2. Course(p, bytes, 0, f)
    BY <2>1 DEF Course
  <2> QED
    BY <2>2
<1>2. ASSUME NEW k \in Nat, k \in P
      PROVE  k + 1 \in P
  <2>1. PICK f : Course(p, bytes, k, f)
    BY <1>2
  <2> DEFINE m == k + 1
             b == [i \in 0..m |-> IF i = m THEN ProcessByte(f[k], bytes[m]) ELSE f[i]]
  <2>2. ASSUME NEW i \in 0..m
        PROVE  b[i] = IF i = 0 THEN p ELSE ProcessByte(b[i - 1], bytes[i])
    <3>1. CASE i = m
      BY <3>1
    <3>2. CASE i # m
      <4>1. i \in 0..k /\ b[i] = f[i] /\ (i # 0 => i - 1 \in 0..k /\ i - 1 # m /\ b[i - 1] = f[i - 1])
        BY <3>2
      <4>2. f[i] = IF i = 0 THEN p ELSE ProcessByte(f[i - 1], bytes[i])
        BY <2>1, <4>1 DEF Course
      <4> QED
        BY <4>1, <4>2
    <3> QED
      BY <3>1, <3>2
  <2>3. b = [i \in 0..m |-> IF i = 0 THEN p ELSE ProcessByte(b[i - 1], bytes[i])]
    <3> DEFINE d == [i \in 0..m |-> IF i = 0 THEN p ELSE ProcessByte(b[i - 1], bytes[i])]
    <3>1. \A i \in 0..m : b[i] = d[i]
      BY <2>2
    <3>2. DOMAIN b = 0..m /\ DOMAIN d = 0..m
      OBVIOUS
    <3> QED
      BY <3>1, <3>2
  <2> HIDE DEF b
  <2>4. Course(p, bytes, m, b)
    BY <2>3 DEF Course
  <2> QED
    BY <2>4
<1> HIDE DEF P
<1>3. n \in P
  BY <1>1, <1>2, Numbers
<1> QED
  BY <1>3 DEF P

\* Parser::advance is the last of them.
LEMMA AdvanceByBytes ==
  ASSUME NEW p, NEW bytes, Len(bytes) \in Nat
  PROVE  \E f : /\ Advance(p, bytes) = f[Len(bytes)] /\ f[0] = p
                /\ \A k \in 1..Len(bytes) : f[k] = ProcessByte(f[k - 1], bytes[k])
<1> DEFINE n == Len(bytes)
           f == CHOOSE g : Course(p, bytes, n, g)
<1>1. Course(p, bytes, n, f)
  BY CourseExists
<1>2. Advance(p, bytes) = f[n]
  BY DEF Advance, Course
<1> HIDE DEF f
<1>3. f[0] = p
  BY <1>1 DEF Course
<1>4. ASSUME NEW k \in 1..n
      PROVE  f[k] = ProcessByte(f[k - 1], bytes[k])
  <2>1. k \in 0..n /\ k # 0
    OBVIOUS
  <2> QED
    BY <1>1, <2>1 DEF Course
<1> QED
  BY <1>2, <1>3, <1>4

\* What begins with an ESC makes the calls it makes at the start, after those for
\* what was cut short.
LEMMA SequencesStartAfresh ==
  ASSUME NEW p, Sound(p), Fresh(p), p.out = <<>>, NEW probe \in Probes
  PROVE  Advance(p, probe).out = Remains(p) \o Advance(NewParser, probe).out
<1> DEFINE n == Len(probe)
           cut == Remains(p)
           early(m) == \A j \in 2..m : probe[j] \in StillWaiting
<1>1. /\ probe \in Seq(Byte) /\ probe # <<>> /\ probe[1] = ESC
      /\ \A k \in 2..n : probe[k] = Backslash => \E j \in 2..(k - 1) : probe[j] \notin StillWaiting
  BY ProbesAssumption DEF Byte
<1>2. n \in Nat /\ n >= 1 /\ \A k \in 1..n : probe[k] \in Byte
  BY <1>1, LenProperties, EmptySeq
<1>3. PICK f : /\ Advance(p, probe) = f[n] /\ f[0] = p
               /\ \A k \in 1..n : f[k] = ProcessByte(f[k - 1], probe[k])
  BY <1>2, AdvanceByBytes
<1> DEFINE new == NewParser
<1> HIDE DEF new
<1>4. PICK g : /\ Advance(new, probe) = g[n] /\ g[0] = new
               /\ \A k \in 1..n : g[k] = ProcessByte(g[k - 1], probe[k])
  BY <1>2, AdvanceByBytes
<1> DEFINE P == {k \in Nat : k + 1 <= n => Together(f[k + 1], g[k + 1], cut, early(k + 1))}
<1>5. 0 \in P
  <2>1. f[1] = ProcessByte(p, ESC) /\ g[1] = ProcessByte(new, ESC)
    <3>1. 1 \in 1..n /\ 1 - 1 = 0
      BY <1>2
    <3> QED
      BY <1>1, <1>3, <1>4, <3>1
  <2>2. early(1) = TRUE
    OBVIOUS
  <2>3. Together(f[1], g[1], cut, TRUE)
    BY <2>1, EscBeginsAfresh DEF new
  <2> HIDE DEF early, cut
  <2>4. 0 + 1 = 1
    OBVIOUS
  <2>5. Together(f[0 + 1], g[0 + 1], cut, early(0 + 1))
    BY <2>2, <2>3, <2>4
  <2> QED
    BY <2>5
<1>6. ASSUME NEW k \in Nat, k \in P
      PROVE  k + 1 \in P
  <2> SUFFICES ASSUME k + 2 <= n
               PROVE  Together(f[k + 2], g[k + 2], cut, early(k + 2))
    <3> HIDE DEF early, cut
    <3>1. (k + 1) + 1 = k + 2
      OBVIOUS
    <3> QED
      BY <3>1
  <2> DEFINE a == k + 1
             b == k + 2
             byte == probe[b]
  <2>1. a \in 1..n /\ b \in 1..n /\ b \in 2..n /\ b - 1 = a /\ byte \in Byte
    BY <1>2
  <2>2. Together(f[a], g[a], cut, early(a))
    <3>1. k + 1 <= n
      BY <1>2
    <3> HIDE DEF early, cut
    <3> QED
      BY <1>6, <3>1
  <2>3. f[b] = ProcessByte(f[a], byte) /\ g[b] = ProcessByte(g[a], byte)
    BY <1>3, <1>4, <2>1
  <2>4. byte = Backslash => ~early(a)
    BY <1>1, <2>1
  <2>5. early(b) = (early(a) /\ byte \in StillWaiting)
    <3>1. 2..b = (2..a) \cup {b}
      OBVIOUS
    <3> QED
      BY <3>1
  <2>6. early(a) \in BOOLEAN
    OBVIOUS
  <2> DEFINE was == early(a)
             is == early(b)
  <2> HIDE DEF was, is, byte, cut, a, b
  <2>7. Together(f[a], g[a], cut, was) /\ was \in BOOLEAN /\ (byte = Backslash => ~was)
    BY <2>2, <2>4, <2>6 DEF was
  <2>8. Together(ProcessByte(f[a], byte), ProcessByte(g[a], byte), cut, was /\ byte \in StillWaiting)
    BY <2>1, <2>7, ByteTogether
  <2>9. is = (was /\ byte \in StillWaiting)
    BY <2>5 DEF is, was
  <2>10. Together(f[b], g[b], cut, is)
    BY <2>3, <2>8, <2>9
  <2> QED
    BY <2>10 DEF is, b
<1>7. n - 1 \in P
  <2> HIDE DEF P
  <2> QED
    BY <1>2, <1>5, <1>6, Numbers
<1>8. Together(f[n], g[n], cut, early(n))
  <2>1. (n - 1) + 1 = n /\ n <= n
    BY <1>2
  <2> HIDE DEF early, cut
  <2> QED
    BY <1>7, <2>1
<1> HIDE DEF early, cut
<1>9. f[n].out = cut \o g[n].out
  BY <1>8 DEF Together, Alike
<1> QED
  BY <1>3, <1>4, <1>9 DEF cut, new

\* Whatever the parser has heard and is in the middle of, a sequence that begins
\* with an ESC is understood as at the start: Enter clears what an earlier one has
\* left behind, and what it does not clear is not read.
THEOREM NothingIsEverLeftOver == Spec => []NothingIsLeftOver
<1> DEFINE Inv == ParserInv /\ Fresh(parser) /\ parser.out = <<>>
<1>1. Init => Inv
  <2>1. Fresh(NewParser) /\ NewParser.out = <<>>
    BY DEF Fresh, NewParser
  <2> SUFFICES ASSUME Init PROVE Inv
    OBVIOUS
  <2>2. parser = NewParser /\ alphabet \subseteq Byte
    BY ParserAssumption DEF Init, Byte
  <2> QED
    BY <2>1, <2>2, NewParserSound DEF ParserInv
<1>2. Inv /\ [Next]_vars => Inv'
  <2> SUFFICES ASSUME Inv, [Next]_vars PROVE Inv'
    OBVIOUS
  <2>1. ASSUME NEW byte \in alphabet, Feed(byte)
        PROVE  Inv'
    <3> DEFINE next == ProcessByte(parser, byte)
    <3>1. Sound(next) /\ Fresh(next)
      BY ProcessByteKeeps, ByteKeepsFresh DEF ParserInv
    <3>2. parser' = [next EXCEPT !.out = <<>>] /\ alphabet' = alphabet
      BY <2>1 DEF Feed
    <3> HIDE DEF next
    <3>3. /\ IsParser(parser') /\ TextFits(parser') /\ parser'.out = <<>>
          /\ parser'.state = next.state /\ parser'.params = next.params
          /\ parser'.intermediates = next.intermediates
      BY <3>1, <3>2 DEF Sound, IsParser, TextFits
    <3>4. Sound(parser')
      BY <3>1, <3>2, OtherFields DEF Sound, IsParser, TextFits
    <3>5. Fresh(parser')
      BY <3>1, <3>3 DEF Fresh
    <3> QED
      BY <3>2, <3>3, <3>4, <3>5 DEF ParserInv, Fresh
  <2>2. CASE UNCHANGED vars
    BY <2>2 DEF vars, ParserInv, Fresh
  <2> QED
    BY <2>1, <2>2 DEF Next
<1>3. Inv => NothingIsLeftOver
  <2> SUFFICES ASSUME Inv PROVE NothingIsLeftOver
    OBVIOUS
  <2>1. Remains(parser) = CutShort
    BY DEF Remains, CutShort
  <2> QED
    BY <2>1, SequencesStartAfresh DEF NothingIsLeftOver, ParserInv
<1> QED
  BY <1>1, <1>2, <1>3, PTL DEF Spec
-----------------------------------------------------------------------------
(* Text. Flattening goes through the sequences one by one. *)

\* The sequences that are flattened, one after the other.
Flattens(seqs, r) ==
  /\ r[1] = seqs[1]
  /\ \A k \in 2..Len(seqs) : r[k] = r[k - 1] \o seqs[k]
FlattenFold(seqs, n, r) == r = [i \in 1..n |-> IF i = 1 THEN seqs[i] ELSE r[i - 1] \o seqs[i]]

\* There is such a function, by induction over the sequences.
LEMMA FlattenFoldExists ==
  ASSUME NEW seqs, NEW n \in Nat
  PROVE  \E r : FlattenFold(seqs, n, r)
<1> DEFINE P == {k \in Nat : \E r : FlattenFold(seqs, k, r)}
<1>1. 0 \in P
  <2> DEFINE r == [i \in 1..0 |-> i]
  <2>1. r = [i \in 1..0 |-> IF i = 1 THEN seqs[i] ELSE r[i - 1] \o seqs[i]]
    OBVIOUS
  <2> HIDE DEF r
  <2>2. FlattenFold(seqs, 0, r)
    BY <2>1 DEF FlattenFold
  <2> QED
    BY <2>2
<1>2. ASSUME NEW k \in Nat, k \in P
      PROVE  k + 1 \in P
  <2>1. PICK r : FlattenFold(seqs, k, r)
    BY <1>2
  <2> DEFINE m == k + 1
             s == [i \in 1..m |-> IF i = m THEN (IF m = 1 THEN seqs[m] ELSE r[k] \o seqs[m]) ELSE r[i]]
             t == [i \in 1..m |-> IF i = 1 THEN seqs[i] ELSE s[i - 1] \o seqs[i]]
  <2>2. ASSUME NEW i \in 1..m
        PROVE  s[i] = t[i]
    <3>1. CASE i = m
      <4>1. m # 1 => k \in 1..m /\ k # m /\ s[k] = r[k] /\ m - 1 = k
        OBVIOUS
      <4> QED
        BY <3>1, <4>1
    <3>2. CASE i # m
      <4>1. i \in 1..k /\ s[i] = r[i] /\ (i # 1 => i - 1 \in 1..k /\ i - 1 \in 1..m /\ i - 1 # m)
        BY <3>2
      <4>2. i # 1 => s[i - 1] = r[i - 1]
        BY <4>1
      <4>3. r[i] = IF i = 1 THEN seqs[i] ELSE r[i - 1] \o seqs[i]
        BY <2>1, <4>1 DEF FlattenFold
      <4> QED
        BY <4>1, <4>2, <4>3
    <3> QED
      BY <3>1, <3>2
  <2>3. s = t
    <3>1. DOMAIN s = 1..m /\ DOMAIN t = 1..m
      OBVIOUS
    <3> QED
      BY <2>2, <3>1
  <2> HIDE DEF s
  <2>4. FlattenFold(seqs, m, s)
    BY <2>3 DEF FlattenFold
  <2> QED
    BY <2>4
<1> HIDE DEF P
<1>3. n \in P
  BY <1>1, <1>2, Numbers
<1> QED
  BY <1>3 DEF P

\* A flattening goes through the sequences one by one.
LEMMA FlattensExist ==
  ASSUME NEW seqs, Len(seqs) \in Nat \ {0}
  PROVE  \E r : Flattens(seqs, r) /\ FlattenSeq(seqs) = r[Len(seqs)]
<1> DEFINE n == Len(seqs)
           r == CHOOSE s : FlattenFold(seqs, n, s)
<1>1. FlattenFold(seqs, n, r)
  BY FlattenFoldExists
<1>2. FlattenSeq(seqs) = r[n]
  BY DEF FlattenSeq, FlattenFold
<1> HIDE DEF r
<1>3. Flattens(seqs, r)
  <2>1. r[1] = seqs[1]
    <3>1. 1 \in 1..n
      OBVIOUS
    <3> QED
      BY <1>1, <3>1 DEF FlattenFold
  <2>2. ASSUME NEW k \in 2..n
        PROVE  r[k] = r[k - 1] \o seqs[k]
    <3>1. k \in 1..n /\ k # 1
      OBVIOUS
    <3> QED
      BY <1>1, <3>1 DEF FlattenFold
  <2> QED
    BY <2>1, <2>2 DEF Flattens
<1> QED
  BY <1>2, <1>3

\* Sequences over a set are flattened to one.
LEMMA FlattenKeeps ==
  ASSUME NEW S, NEW seqs \in Seq(Seq(S))
  PROVE  FlattenSeq(seqs) \in Seq(S)
<1> DEFINE n == Len(seqs)
<1>1. n \in Nat /\ \A i \in 1..n : seqs[i] \in Seq(S)
  BY LenProperties, ElementOfSeq
<1>2. CASE n = 0
  <2>1. seqs = <<>> /\ FlattenSeq(seqs) = seqs
    BY <1>2, EmptySeq DEF FlattenSeq
  <2> QED
    BY <2>1, EmptySeq
<1>3. CASE n # 0
  <2>1. PICK r : Flattens(seqs, r) /\ FlattenSeq(seqs) = r[n]
    BY <1>1, <1>3, FlattensExist
  <2> HIDE DEF n
  <2> DEFINE P == {k \in Nat : k + 1 <= n => r[k + 1] \in Seq(S)}
  <2>2. 0 \in P
    <3>1. r[1] = seqs[1] /\ 1 \in 1..n
      BY <1>1, <1>3, <2>1 DEF Flattens
    <3> QED
      BY <1>1, <3>1
  <2>3. ASSUME NEW k \in Nat, k \in P
        PROVE  k + 1 \in P
    <3> SUFFICES ASSUME (k + 1) + 1 <= n
                 PROVE  r[(k + 1) + 1] \in Seq(S)
      OBVIOUS
    <3> DEFINE m == k + 2
    <3>1. m \in 2..n /\ m \in 1..n /\ m - 1 = k + 1 /\ r[k + 1] \in Seq(S) /\ m = (k + 1) + 1
      BY <1>1, <2>3
    <3> HIDE DEF m
    <3>2. r[m] = r[m - 1] \o seqs[m]
      BY <2>1, <3>1 DEF Flattens, n
    <3>3. r[m - 1] \in Seq(S) /\ seqs[m] \in Seq(S)
      BY <1>1, <3>1
    <3>4. r[m] \in Seq(S)
      BY <3>2, <3>3, ConcatProperties
    <3> QED
      BY <3>1, <3>4
  <2> HIDE DEF P
  <2>4. n - 1 \in P
    <3>1. n - 1 \in Nat
      BY <1>1, <1>3
    <3> QED
      BY <2>2, <2>3, <3>1, Numbers
  <2>5. n - 1 \in Nat /\ (n - 1) + 1 = n
    BY <1>1, <1>3
  <2> QED
    BY <2>1, <2>4, <2>5 DEF P
<1> QED
  BY <1>2, <1>3

\* Nothing is flattened to nothing.
LEMMA FlattenNone == FlattenSeq(<<>>) = <<>>
<1>1. Len(<<>>) = 0
  OBVIOUS
<1> QED
  BY <1>1 DEF FlattenSeq

\* One more sequence comes last.
LEMMA FlattenMore ==
  ASSUME NEW S, NEW seqs \in Seq(Seq(S)), NEW s \in Seq(S)
  PROVE  FlattenSeq(Append(seqs, s)) = FlattenSeq(seqs) \o s
<1> DEFINE n == Len(seqs)
           more == Append(seqs, s)
<1>1. n \in Nat /\ DOMAIN seqs = 1..n
  BY LenProperties
<1>2. more \in Seq(Seq(S)) /\ Len(more) = n + 1 /\ (\A i \in 1..n : more[i] = seqs[i]) /\ more[n + 1] = s
  BY AppendProperties
<1> HIDE DEF n, more
<1>3. PICK q : Flattens(more, q) /\ FlattenSeq(more) = q[n + 1]
  <2>1. Len(more) \in Nat \ {0}
    BY <1>1, <1>2
  <2> QED
    BY <1>2, <2>1, FlattensExist
<1>4. CASE n = 0
  <2>1. seqs = <<>>
    BY <1>4, EmptySeq DEF n
  <2>2. FlattenSeq(seqs) \o s = s
    BY <2>1, FlattenNone, ConcatEmptySeq
  <2>3. q[1] = more[1] /\ more[1] = s
    BY <1>2, <1>3, <1>4 DEF Flattens
  <2> QED
    BY <1>3, <1>4, <2>2, <2>3 DEF more
<1>5. CASE n # 0
  <2>1. PICK r : Flattens(seqs, r) /\ FlattenSeq(seqs) = r[n]
    BY <1>1, <1>5, FlattensExist DEF n
  <2> DEFINE P == {k \in Nat : k + 1 <= n => q[k + 1] = r[k + 1]}
  <2>2. 0 \in P
    <3>1. q[1] = more[1] /\ r[1] = seqs[1] /\ more[1] = seqs[1]
      BY <1>1, <1>2, <1>3, <1>5, <2>1 DEF Flattens
    <3> QED
      BY <3>1
  <2>3. ASSUME NEW k \in Nat, k \in P
        PROVE  k + 1 \in P
    <3> SUFFICES ASSUME (k + 1) + 1 <= n
                 PROVE  q[(k + 1) + 1] = r[(k + 1) + 1]
      OBVIOUS
    <3> DEFINE m == k + 2
    <3>1. m \in 2..n /\ m \in 2..(n + 1) /\ m \in 1..n /\ m - 1 = k + 1 /\ q[k + 1] = r[k + 1] /\ m = (k + 1) + 1
      BY <1>1, <2>3
    <3> HIDE DEF m
    <3>2. q[m] = q[m - 1] \o more[m]
      BY <1>2, <1>3, <3>1 DEF Flattens
    <3>3. r[m] = r[m - 1] \o seqs[m]
      BY <2>1, <3>1 DEF Flattens, n
    <3> QED
      BY <1>2, <3>1, <3>2, <3>3
  <2> HIDE DEF P
  <2>4. n - 1 \in P /\ n - 1 \in Nat /\ (n - 1) + 1 = n
    <3>1. n - 1 \in Nat /\ (n - 1) + 1 = n
      BY <1>1, <1>5
    <3> QED
      BY <2>2, <2>3, <3>1, Numbers
  <2>5. q[n] = r[n]
    BY <1>1, <2>4 DEF P
  <2>6. n + 1 \in 2..Len(more) /\ (n + 1) - 1 = n
    BY <1>1, <1>2, <1>5
  <2>7. q[n + 1] = q[n] \o more[n + 1]
    BY <1>3, <2>6 DEF Flattens
  <2> QED
    BY <1>2, <1>3, <2>1, <2>5, <2>7 DEF more
<1> QED
  BY <1>4, <1>5


\* What is flattened of the first k sequences.
Sum(f, k) == FlattenSeq(SubSeq(f, 1, k))

\* Nothing of none, all of all, and of one more sequence what it has.
LEMMA SumGrows ==
  ASSUME NEW S, NEW f \in Seq(Seq(S)), NEW k \in 0..Len(f)
  PROVE  /\ Sum(f, k) \in Seq(S) /\ Sum(f, 0) = <<>> /\ Sum(f, Len(f)) = FlattenSeq(f)
         /\ k > 0 => Sum(f, k) = Sum(f, k - 1) \o f[k]
<1> DEFINE T == Seq(S)
<1>1. Len(f) \in Nat /\ k \in Nat /\ \A i \in 1..Len(f) : f[i] \in T
  BY LenProperties, ElementOfSeq
<1> HIDE DEF T
<1>2. ASSUME NEW j \in 0..Len(f)
      PROVE  SubSeq(f, 1, j) \in Seq(T)
  <2>1. \A i \in 1..j : f[i] \in T
    BY <1>1
  <2> QED
    BY <1>1, <2>1, SubSeqProperties
<1>3. Sum(f, k) \in Seq(S)
  BY <1>2, FlattenKeeps DEF Sum, T
<1>4. Sum(f, 0) = <<>> /\ Sum(f, Len(f)) = FlattenSeq(f)
  <2>1. SubSeq(f, 1, 0) = <<>> /\ SubSeq(f, 1, Len(f)) = f
    BY SubSeqEmpty, SubSeqFull
  <2> QED
    BY <2>1, FlattenNone DEF Sum
<1>5. ASSUME k > 0
      PROVE  Sum(f, k) = Sum(f, k - 1) \o f[k]
  <2> DEFINE front == SubSeq(f, 1, k - 1)
             last == f[k]
             one == <<last>>
  <2>1. k \in 1..Len(f) /\ 1 \in 1..k /\ k - 1 \in 0..Len(f)
    BY <1>1, <1>5
  <2>2. SubSeq(f, 1, k) = front \o one
    BY <2>1, SubSeqRecursiveSecond
  <2>3. front \in Seq(T) /\ last \in T
    BY <1>1, <1>2, <2>1
  <2> HIDE DEF front, last
  <2>4. Append(front, last) = front \o one
    BY <2>3, AppendIsConcat
  <2>5. FlattenSeq(Append(front, last)) = FlattenSeq(front) \o last
    BY <2>3, FlattenMore DEF T
  <2>6. FlattenSeq(SubSeq(f, 1, k)) = FlattenSeq(SubSeq(f, 1, k - 1)) \o f[k]
    BY <2>2, <2>4, <2>5 DEF front, last
  <2> QED
    BY <2>6 DEF Sum
<1> QED
  BY <1>3, <1>4, <1>5

\* Sequences with nothing in them add nothing.
LEMMA SumStays ==
  ASSUME NEW S, NEW f \in Seq(Seq(S)), NEW n \in 0..Len(f), NEW k \in 0..n, \A i \in (k + 1)..n : f[i] = <<>>
  PROVE  Sum(f, n) = Sum(f, k)
<1> DEFINE P == {d \in Nat : k + d <= n => Sum(f, k + d) = Sum(f, k)}
<1>1. n \in Nat /\ k \in Nat /\ Len(f) \in Nat
  BY LenProperties
<1>2. 0 \in P
  BY <1>1
<1>3. ASSUME NEW d \in Nat, d \in P
      PROVE  d + 1 \in P
  <2> SUFFICES ASSUME k + (d + 1) <= n
               PROVE  Sum(f, k + (d + 1)) = Sum(f, k)
    OBVIOUS
  <2> DEFINE m == k + (d + 1)
  <2>1. m \in 0..Len(f) /\ m > 0 /\ m - 1 = k + d /\ m \in (k + 1)..n /\ k + d <= n /\ k + d \in 0..Len(f)
    BY <1>1
  <2>2. Sum(f, k + d) = Sum(f, k)
    BY <1>3, <2>1
  <2> HIDE DEF m
  <2>3. Sum(f, m) = Sum(f, m - 1) \o f[m]
    BY <2>1, SumGrows
  <2>4. Sum(f, k + d) \in Seq(S)
    BY <2>1, SumGrows
  <2>5. f[m] = <<>>
    BY <2>1
  <2>6. Sum(f, k + d) \o <<>> = Sum(f, k + d)
    BY <2>4, ConcatEmptySeq
  <2>7. Sum(f, m) = Sum(f, k)
    BY <2>1, <2>2, <2>3, <2>5, <2>6
  <2> QED
    BY <2>7 DEF m
<1> HIDE DEF P
<1>4. n - k \in P /\ k + (n - k) = n
  <2>1. n - k \in Nat /\ k + (n - k) = n
    BY <1>1
  <2> QED
    BY <1>2, <1>3, <2>1, Numbers
<1> QED
  BY <1>1, <1>4 DEF P

\* Sequences that are the same give the same.
LEMMA SumAgrees ==
  ASSUME NEW T, NEW f \in Seq(T), NEW g \in Seq(T), NEW k \in Nat, k <= Len(f), k <= Len(g),
         \A i \in 1..k : f[i] = g[i]
  PROVE  Sum(f, k) = Sum(g, k)
<1>1. SubSeq(f, 1, k) = SubSeq(g, 1, k)
  OBVIOUS
<1> QED
  BY <1>1 DEF Sum

-----------------------------------------------------------------------------
(* The pieces of a text: there is one from every byte on, and only the last can *)
(* gain a further byte. *)

\* A piece of n bytes begins at byte i, and no longer one does.
Fits(bytes, i, n) ==
  /\ n \in 1..(Len(bytes) - i + 1)
  /\ n = 1 \/ n <= Expected(bytes[i])
  /\ \A k \in (i + 1)..(i + n - 1) : IsContinuation(bytes[k])
Ends(bytes, i, n) == i + n > Len(bytes) \/ n >= Expected(bytes[i]) \/ ~IsContinuation(bytes[i + n])
IsPiece(bytes, i, n) == Fits(bytes, i, n) /\ Ends(bytes, i, n)

\* A character has at most four bytes.
LEMMA ExpectedRange ==
  ASSUME NEW byte
  PROVE  Expected(byte) \in {0, 2, 3, 4}
BY DEF Expected

\* From every byte on there is a piece,
LEMMA PieceExists ==
  ASSUME NEW bytes \in Seq(Byte), NEW i \in 1..Len(bytes)
  PROVE  \E n \in 1..4 : IsPiece(bytes, i, n)
<1> DEFINE e == Expected(bytes[i])
           C(k) == IsContinuation(bytes[k])
           len == Len(bytes)
<1>1. e \in {0, 2, 3, 4} /\ len \in Nat /\ i \in 1..len
  BY ExpectedRange, LenProperties
<1>2. \A n : Fits(bytes, i, n) <=> /\ n \in 1..(len - i + 1)
                                   /\ n = 1 \/ n <= e
                                   /\ \A k \in (i + 1)..(i + n - 1) : C(k)
  BY DEF Fits
<1>3. \A n : Ends(bytes, i, n) <=> (i + n > len \/ n >= e \/ ~C(i + n))
  BY DEF Ends
<1> HIDE DEF e, C, len
<1>4. Fits(bytes, i, 1)
  BY <1>1, <1>2
<1>5. ASSUME NEW n \in 1..4, Fits(bytes, i, n), ~Ends(bytes, i, n)
      PROVE  n + 1 \in 1..4 /\ Fits(bytes, i, n + 1)
  <2>1. n \in 1..(len - i + 1) /\ i + n <= len /\ n < e /\ C(i + n)
    BY <1>1, <1>2, <1>3, <1>5
  <2>2. \A k \in (i + 1)..(i + n - 1) : C(k)
    BY <1>2, <1>5
  <2>3. \A k \in (i + 1)..(i + (n + 1) - 1) : C(k)
    BY <1>1, <2>1, <2>2
  <2>4. n + 1 \in 1..(len - i + 1) /\ n + 1 <= e /\ n + 1 \in 1..4
    BY <1>1, <2>1
  <2> QED
    BY <1>2, <2>3, <2>4
<1>6. Ends(bytes, i, 4)
  BY <1>1, <1>3
<1>7. CASE Ends(bytes, i, 1)
  BY <1>4, <1>7 DEF IsPiece
<1>8. CASE ~Ends(bytes, i, 1)
  <2>1. Fits(bytes, i, 2)
    BY <1>4, <1>5, <1>8
  <2>2. Fits(bytes, i, 2) /\ ~Ends(bytes, i, 2) => Fits(bytes, i, 3)
    BY <1>5
  <2>3. Fits(bytes, i, 3) /\ ~Ends(bytes, i, 3) => Fits(bytes, i, 4)
    BY <1>5
  <2> QED
    BY <1>6, <2>1, <2>2, <2>3 DEF IsPiece
<1> QED
  BY <1>7, <1>8

\* and it is the one PieceFrom finds.
LEMMA PieceIs ==
  ASSUME NEW bytes \in Seq(Byte), NEW i \in 1..Len(bytes), NEW n \in Nat, IsPiece(bytes, i, n)
  PROVE  PieceFrom(bytes, i) = n
<1> DEFINE e == Expected(bytes[i])
           len == Len(bytes)
           fits(m) == /\ m = 1 \/ m <= Expected(bytes[i])
                      /\ \A k \in (i + 1)..(i + m - 1) : IsContinuation(bytes[k])
           S == {m \in 1..(Len(bytes) - i + 1) : fits(m)}
<1>1. e \in {0, 2, 3, 4} /\ len \in Nat /\ i \in 1..len
  BY ExpectedRange, LenProperties
<1>2. n \in S
  BY DEF IsPiece, Fits
<1>3. ASSUME NEW m \in S
      PROVE  m <= n
  <2>1. m \in 1..(len - i + 1) /\ m \in Int /\ (m = 1 \/ m <= e)
    BY <1>1
  <2>2. \A k \in (i + 1)..(i + m - 1) : IsContinuation(bytes[k])
    BY <1>3
  <2>3. i + n > len \/ n >= e \/ ~IsContinuation(bytes[i + n])
    BY DEF IsPiece, Ends
  <2>4. n \in 1..(len - i + 1)
    BY DEF IsPiece, Fits
  <2> HIDE DEF e, len, S
  <2> SUFFICES ASSUME m > n
               PROVE  FALSE
    BY <2>1
  <2>5. m <= e /\ i + n \in (i + 1)..(i + m - 1)
    BY <1>1, <2>1, <2>4
  <2>6. IsContinuation(bytes[i + n])
    BY <2>2, <2>5
  <2> QED
    BY <1>1, <2>1, <2>3, <2>4, <2>5, <2>6
<1>4. PieceFrom(bytes, i) = Max(S)
  BY DEF PieceFrom
<1>5. S \subseteq Int
  BY <1>1
<1> HIDE DEF S
<1>6. \A m \in S : (\A k \in S : k <= m) => m = n
  BY <1>2, <1>3, <1>5
<1> DEFINE x == CHOOSE m \in S : \A k \in S : m >= k
<1>7. x \in S /\ \A k \in S : x >= k
  BY <1>2, <1>3, <1>5
<1>8. Max(S) = x
  BY DEF Max
<1> HIDE DEF x
<1> QED
  BY <1>2, <1>4, <1>5, <1>6, <1>7, <1>8

\* What PieceFrom finds is a piece.
LEMMA PieceFound ==
  ASSUME NEW bytes \in Seq(Byte), NEW i \in 1..Len(bytes)
  PROVE  PieceFrom(bytes, i) \in 1..4 /\ IsPiece(bytes, i, PieceFrom(bytes, i))
<1>1. PICK n \in 1..4 : IsPiece(bytes, i, n)
  BY PieceExists
<1>2. PieceFrom(bytes, i) = n
  BY <1>1, PieceIs
<1> QED
  BY <1>1, <1>2

\* The piece that begins at a byte can gain a further one.
Waits(bytes, i) ==
  i + PieceFrom(bytes, i) > Len(bytes) /\ PieceFrom(bytes, i) < Expected(bytes[i])
\* The byte is in the piece of an earlier one.
Within(bytes, i) == \E j \in 1..(i - 1) : i < j + PieceFrom(bytes, j)

\* No character begins with a continuation.
LEMMA ContinuationStartsNone ==
  ASSUME NEW byte, IsContinuation(byte)
  PROVE  Expected(byte) = 0
<1>1. byte \in 128..191
  BY DEF IsContinuation
<1>2. byte \notin 192..223 /\ byte \notin 224..239 /\ byte \notin 240..247
  BY <1>1
<1> QED
  BY <1>2 DEF Expected

\* A byte within a piece is a continuation, with which no piece that waits begins.
LEMMA WithinIsContinuation ==
  ASSUME NEW bytes \in Seq(Byte), NEW i \in 1..Len(bytes), Within(bytes, i)
  PROVE  IsContinuation(bytes[i]) /\ ~Waits(bytes, i)
<1>1. PICK j \in 1..(i - 1) : i < j + PieceFrom(bytes, j)
  BY DEF Within
<1> DEFINE n == PieceFrom(bytes, j)
<1>2. Len(bytes) \in Nat /\ i \in Nat /\ j \in 1..Len(bytes)
  BY LenProperties
<1>3. n \in 1..4 /\ IsPiece(bytes, j, n)
  BY <1>2, PieceFound
<1> HIDE DEF n
<1>4. i \in (j + 1)..(j + n - 1)
  BY <1>1, <1>2, <1>3 DEF n
<1>5. IsContinuation(bytes[i])
  BY <1>3, <1>4 DEF IsPiece, Fits
<1>6. Expected(bytes[i]) = 0
  BY <1>5, ContinuationStartsNone
<1>7. PieceFrom(bytes, i) \in 1..4
  BY PieceFound
<1> QED
  BY <1>5, <1>6, <1>7 DEF Waits

\* So only the last piece can wait.
LEMMA OneWaits ==
  ASSUME NEW bytes \in Seq(Byte), NEW i \in 1..Len(bytes), Waits(bytes, i),
         NEW k \in 1..Len(bytes), k > i
  PROVE  Within(bytes, k)
<1>1. Len(bytes) \in Nat /\ i \in 1..(k - 1)
  BY LenProperties
<1>2. PieceFrom(bytes, i) \in 1..4
  BY PieceFound
<1>3. k < i + PieceFrom(bytes, i)
  BY <1>1, <1>2 DEF Waits
<1> QED
  BY <1>1, <1>3 DEF Within

-----------------------------------------------------------------------------
(* What one byte more does to the pieces, *)

\* A byte more behind the others.
LEMMA OneByteMore ==
  ASSUME NEW h \in Seq(Byte), NEW b \in Byte
  PROVE  /\ Append(h, b) \in Seq(Byte) /\ Len(Append(h, b)) = Len(h) + 1 /\ Len(h) \in Nat
         /\ Append(h, b)[Len(h) + 1] = b
         /\ \A i \in 1..Len(h) : Append(h, b)[i] = h[i] /\ i \in 1..Len(Append(h, b)) /\ i \in Nat
BY AppendProperties, LenProperties

\* It leaves the pieces that do not wait as they are, and all if it is no continuation;
LEMMA PieceStays ==
  ASSUME NEW h \in Seq(Byte), NEW b \in Byte, NEW i \in 1..Len(h),
         ~Waits(h, i) \/ ~IsContinuation(b)
  PROVE  PieceFrom(Append(h, b), i) = PieceFrom(h, i)
<1> DEFINE g == Append(h, b)
           n == PieceFrom(h, i)
<1>1. /\ g \in Seq(Byte) /\ Len(g) = Len(h) + 1 /\ Len(h) \in Nat /\ g[Len(h) + 1] = b
      /\ i \in Nat /\ i \in 1..Len(g) /\ \A k \in 1..Len(h) : g[k] = h[k]
  BY OneByteMore
<1>2. n \in 1..4 /\ IsPiece(h, i, n)
  BY PieceFound
<1>3. i + n > Len(h) /\ n < Expected(h[i]) => Waits(h, i)
  BY DEF Waits
<1> HIDE DEF g, n
<1>4. n \in 1..(Len(h) - i + 1) /\ (n = 1 \/ n <= Expected(h[i]))
  BY <1>2 DEF IsPiece, Fits
<1>5. \A k \in (i + 1)..(i + n - 1) : IsContinuation(h[k])
  BY <1>2 DEF IsPiece, Fits
<1>6. g[i] = h[i] /\ Expected(h[i]) \in {0, 2, 3, 4}
  BY <1>1, ExpectedRange
<1>7. Fits(g, i, n)
  <2>1. \A k \in (i + 1)..(i + n - 1) : g[k] = h[k]
    BY <1>1, <1>4
  <2>2. \A k \in (i + 1)..(i + n - 1) : IsContinuation(g[k])
    BY <1>5, <2>1
  <2>3. n \in 1..(Len(g) - i + 1) /\ (n = 1 \/ n <= Expected(g[i]))
    BY <1>1, <1>4, <1>6
  <2> QED
    BY <2>2, <2>3 DEF Fits
<1>8. Ends(g, i, n)
  <2>1. CASE i + n > Len(h)
    <3>1. i + n = Len(h) + 1
      BY <1>1, <1>4, <2>1
    <3>2. n >= Expected(g[i]) \/ ~IsContinuation(g[i + n])
      BY <1>1, <1>3, <1>4, <1>6, <2>1, <3>1
    <3> QED
      BY <3>2 DEF Ends
  <2>2. CASE i + n <= Len(h)
    <3>1. g[i + n] = h[i + n]
      BY <1>1, <1>4, <2>2
    <3>2. i + n > Len(h) \/ n >= Expected(h[i]) \/ ~IsContinuation(h[i + n])
      BY <1>2 DEF IsPiece, Ends
    <3>3. n >= Expected(g[i]) \/ ~IsContinuation(g[i + n])
      BY <1>1, <1>4, <1>6, <2>2, <3>1, <3>2
    <3> QED
      BY <3>3 DEF Ends
  <2> QED
    BY <1>1, <1>4, <2>1, <2>2
<1>9. n \in Nat /\ IsPiece(g, i, n)
  BY <1>2, <1>7, <1>8 DEF IsPiece
<1>10. PieceFrom(g, i) = n
  BY <1>1, <1>9, PieceIs
<1> QED
  BY <1>10 DEF g, n

\* a continuation is gained by the piece that waits.
LEMMA PieceGains ==
  ASSUME NEW h \in Seq(Byte), NEW b \in Byte, NEW i \in 1..Len(h),
         Waits(h, i), IsContinuation(b)
  PROVE  PieceFrom(Append(h, b), i) = PieceFrom(h, i) + 1
<1> DEFINE g == Append(h, b)
           n == PieceFrom(h, i)
<1>1. /\ g \in Seq(Byte) /\ Len(g) = Len(h) + 1 /\ Len(h) \in Nat /\ g[Len(h) + 1] = b
      /\ i \in Nat /\ i \in 1..Len(g) /\ \A k \in 1..Len(h) : g[k] = h[k]
  BY OneByteMore
<1>2. n \in 1..4 /\ IsPiece(h, i, n)
  BY PieceFound
<1>3. i + n > Len(h) /\ n < Expected(h[i])
  BY DEF Waits
<1> HIDE DEF g, n
<1>4. n \in 1..(Len(h) - i + 1)
  BY <1>2 DEF IsPiece, Fits
<1>5. \A k \in (i + 1)..(i + n - 1) : IsContinuation(h[k])
  BY <1>2 DEF IsPiece, Fits
<1>6. g[i] = h[i] /\ Expected(h[i]) \in {0, 2, 3, 4}
  BY <1>1, ExpectedRange
<1>7. i + n = Len(h) + 1
  BY <1>1, <1>3, <1>4
<1>8. Fits(g, i, n + 1)
  <2>1. \A k \in (i + 1)..(i + n - 1) : g[k] = h[k]
    BY <1>1, <1>4
  <2>2. \A k \in (i + 1)..(i + n - 1) : IsContinuation(g[k])
    BY <1>5, <2>1
  <2>3. IsContinuation(g[i + n])
    BY <1>1, <1>7
  <2>4. \A k \in (i + 1)..(i + (n + 1) - 1) : IsContinuation(g[k])
    BY <1>1, <1>2, <2>2, <2>3
  <2>5. n + 1 \in 1..(Len(g) - i + 1) /\ n + 1 <= Expected(g[i])
    BY <1>1, <1>2, <1>3, <1>4, <1>6
  <2> QED
    BY <2>4, <2>5 DEF Fits
<1>9. Ends(g, i, n + 1)
  <2>1. i + (n + 1) > Len(g)
    BY <1>1, <1>2, <1>7
  <2> QED
    BY <2>1 DEF Ends
<1>10. n + 1 \in Nat /\ IsPiece(g, i, n + 1)
  BY <1>2, <1>8, <1>9 DEF IsPiece
<1>11. PieceFrom(g, i) = n + 1
  BY <1>1, <1>10, PieceIs
<1> QED
  BY <1>11 DEF g, n

\* Where a piece ends: not behind the last byte.
LEMMA PieceInside ==
  ASSUME NEW h \in Seq(Byte), NEW i \in 1..Len(h)
  PROVE  /\ PieceFrom(h, i) \in 1..4 /\ i + PieceFrom(h, i) <= Len(h) + 1
         /\ Waits(h, i) => i + PieceFrom(h, i) = Len(h) + 1 /\ PieceFrom(h, i) < Expected(h[i])
<1> DEFINE n == PieceFrom(h, i)
<1>1. Len(h) \in Nat /\ i \in Nat
  BY LenProperties
<1>2. n \in 1..4 /\ IsPiece(h, i, n)
  BY PieceFound
<1>3. Waits(h, i) => i + n > Len(h) /\ n < Expected(h[i])
  BY DEF Waits
<1> HIDE DEF n
<1>4. n \in 1..(Len(h) - i + 1)
  BY <1>2 DEF IsPiece, Fits
<1>5. n \in 1..4 /\ i + n <= Len(h) + 1 /\ (Waits(h, i) => i + n = Len(h) + 1 /\ n < Expected(h[i]))
  BY <1>1, <1>2, <1>3, <1>4
<1> QED
  BY <1>5 DEF n

\* What was in a piece is in one, and what was not is not.
LEMMA WithinStays ==
  ASSUME NEW h \in Seq(Byte), NEW b \in Byte, NEW i \in 1..Len(h)
  PROVE  Within(Append(h, b), i) <=> Within(h, i)
<1> DEFINE g == Append(h, b)
<1>1. Len(h) \in Nat /\ i \in Nat
  BY LenProperties
<1>2. ASSUME NEW j \in 1..(i - 1)
      PROVE  i < j + PieceFrom(g, j) <=> i < j + PieceFrom(h, j)
  <2>1. j \in 1..Len(h) /\ j \in Nat
    BY <1>1
  <2>2. CASE ~Waits(h, j) \/ ~IsContinuation(b)
    BY <2>1, <2>2, PieceStays
  <2>3. CASE Waits(h, j) /\ IsContinuation(b)
    <3>1. PieceFrom(g, j) = PieceFrom(h, j) + 1
      BY <2>1, <2>3, PieceGains
    <3>2. PieceFrom(h, j) \in 1..4 /\ j + PieceFrom(h, j) = Len(h) + 1
      BY <2>1, <2>3, PieceInside
    <3> HIDE DEF g
    <3> QED
      BY <1>1, <2>1, <3>1, <3>2
  <2> QED
    BY <2>2, <2>3
<1> HIDE DEF g
<1>3. Within(g, i) <=> Within(h, i)
  BY <1>2 DEF Within
<1> QED
  BY <1>3 DEF g

\* The new byte is in a piece if one has waited for it.
LEMMA WithinLast ==
  ASSUME NEW h \in Seq(Byte), NEW b \in Byte
  PROVE  Within(Append(h, b), Len(h) + 1) <=> IsContinuation(b) /\ \E j \in 1..Len(h) : Waits(h, j)
<1> DEFINE g == Append(h, b)
           l == Len(h) + 1
<1>1. Len(h) \in Nat /\ l - 1 = Len(h) /\ l \in Nat
  BY LenProperties
<1>2. ASSUME NEW j \in 1..Len(h)
      PROVE  l < j + PieceFrom(g, j) <=> Waits(h, j) /\ IsContinuation(b)
  <2>1. j \in Nat /\ PieceFrom(h, j) \in 1..4 /\ j + PieceFrom(h, j) <= l
    BY PieceInside
  <2>2. CASE ~Waits(h, j) \/ ~IsContinuation(b)
    <3>1. PieceFrom(g, j) = PieceFrom(h, j)
      BY <2>2, PieceStays
    <3> HIDE DEF g, l
    <3> QED
      BY <1>1, <2>1, <2>2, <3>1
  <2>3. CASE Waits(h, j) /\ IsContinuation(b)
    <3>1. PieceFrom(g, j) = PieceFrom(h, j) + 1
      BY <2>3, PieceGains
    <3>2. j + PieceFrom(h, j) = l
      BY <2>3, PieceInside
    <3> HIDE DEF g, l
    <3> QED
      BY <1>1, <2>1, <2>3, <3>1, <3>2
  <2> QED
    BY <2>2, <2>3
<1> HIDE DEF g
<1>3. Within(g, l) <=> \E j \in 1..Len(h) : l < j + PieceFrom(g, j)
  BY <1>1 DEF Within
<1>4. Within(g, l) <=> IsContinuation(b) /\ \E j \in 1..Len(h) : Waits(h, j)
  BY <1>2, <1>3
<1> QED
  BY <1>4 DEF g

-----------------------------------------------------------------------------
(* to what they say, *)

Unprinted == Controls \cup {CAN, SUB, DEL}

\* What a piece says, with names for where it is.
LEMMA CharFromIs ==
  ASSUME NEW h, NEW i
  PROVE  CharFrom(h, i) =
           IF Within(h, i) \/ Waits(h, i) \/ h[i] \in Unprinted THEN <<>>
           ELSE <<CharOf(SubSeq(h, i, i + PieceFrom(h, i) - 1))>>
BY DEF CharFrom, Within, Waits, Unprinted

\* A character is begun with no control.
LEMMA LeadIsPrinted ==
  ASSUME NEW byte \in Byte, Expected(byte) # 0
  PROVE  byte \notin Unprinted /\ byte >= 128
<1>1. byte \in 192..223 \/ byte \in 224..239 \/ byte \in 240..247
  BY DEF Expected
<1> QED
  BY <1>1 DEF Unprinted, Controls, CAN, SUB, DEL, ESC

\* A piece that does not wait keeps what it says.
LEMMA CharStays ==
  ASSUME NEW h \in Seq(Byte), NEW b \in Byte, NEW i \in 1..Len(h), ~Waits(h, i)
  PROVE  CharFrom(Append(h, b), i) = CharFrom(h, i) /\ ~Waits(Append(h, b), i)
<1> DEFINE g == Append(h, b)
           n == PieceFrom(h, i)
<1>1. /\ g \in Seq(Byte) /\ Len(g) = Len(h) + 1 /\ Len(h) \in Nat
      /\ i \in Nat /\ i \in 1..Len(g) /\ \A k \in 1..Len(h) : g[k] = h[k]
  BY OneByteMore
<1>2. PieceFrom(g, i) = n
  BY PieceStays
<1>3. n \in 1..4 /\ i + n <= Len(h) + 1
  BY PieceInside
<1>4. i + n <= Len(h) \/ n >= Expected(h[i])
  BY <1>1, <1>3, ExpectedRange DEF Waits
<1>5. Within(g, i) <=> Within(h, i)
  BY WithinStays
<1> HIDE DEF g, n
<1>6. g[i] = h[i] /\ Expected(h[i]) \in Int
  BY <1>1, ExpectedRange
<1>7. ~Waits(g, i)
  BY <1>1, <1>2, <1>3, <1>4, <1>6 DEF Waits
<1>8. SubSeq(g, i, i + n - 1) = SubSeq(h, i, i + n - 1)
  BY <1>1, <1>3
<1>9. CharFrom(g, i) = IF Within(g, i) \/ Waits(g, i) \/ g[i] \in Unprinted THEN <<>>
                       ELSE <<CharOf(SubSeq(g, i, i + n - 1))>>
  BY <1>2, CharFromIs
<1>10. CharFrom(h, i) = IF Within(h, i) \/ Waits(h, i) \/ h[i] \in Unprinted THEN <<>>
                        ELSE <<CharOf(SubSeq(h, i, i + n - 1))>>
  BY CharFromIs DEF n
<1>11. CharFrom(g, i) = CharFrom(h, i)
  <2> DEFINE of == SubSeq(g, i, i + n - 1)
             char == <<CharOf(of)>>
  <2>1. CharFrom(g, i) = IF Within(g, i) \/ Waits(g, i) \/ g[i] \in Unprinted THEN <<>> ELSE char
    BY <1>9
  <2>2. CharFrom(h, i) = IF Within(h, i) \/ Waits(h, i) \/ h[i] \in Unprinted THEN <<>> ELSE char
    BY <1>8, <1>10
  <2> HIDE DEF char
  <2>3. CASE Within(h, i) \/ h[i] \in Unprinted
    BY <1>5, <1>6, <2>1, <2>2, <2>3, Zenon
  <2>4. CASE ~(Within(h, i) \/ h[i] \in Unprinted)
    BY <1>5, <1>6, <1>7, <2>1, <2>2, <2>4, Zenon
  <2> QED
    BY <2>3, <2>4
<1> QED
  BY <1>7, <1>11 DEF g

\* The one that waits says nothing yet; it begins with a byte that asks for more.
LEMMA WaitingIsSilent ==
  ASSUME NEW h \in Seq(Byte), NEW i \in 1..Len(h), Waits(h, i)
  PROVE  CharFrom(h, i) = <<>> /\ ~Within(h, i) /\ Expected(h[i]) # 0
<1>1. CharFrom(h, i) = <<>>
  BY CharFromIs
<1>2. ~Within(h, i)
  BY WithinIsContinuation
<1>3. PieceFrom(h, i) \in 1..4 /\ PieceFrom(h, i) < Expected(h[i])
  BY PieceInside
<1>4. Expected(h[i]) # 0
  BY <1>3
<1> QED
  BY <1>1, <1>2, <1>4

\* Cut short by another byte it is one replacement.
LEMMA CharIsCut ==
  ASSUME NEW h \in Seq(Byte), NEW b \in Byte, NEW i \in 1..Len(h), Waits(h, i), ~IsContinuation(b)
  PROVE  CharFrom(Append(h, b), i) = <<Replacement>> /\ ~Waits(Append(h, b), i)
<1> DEFINE g == Append(h, b)
           n == PieceFrom(h, i)
           piece == SubSeq(g, i, i + n - 1)
<1>1. /\ g \in Seq(Byte) /\ Len(g) = Len(h) + 1 /\ Len(h) \in Nat
      /\ i \in Nat /\ i \in 1..Len(g) /\ \A k \in 1..Len(h) : g[k] = h[k]
  BY OneByteMore
<1>2. PieceFrom(g, i) = n
  BY PieceStays
<1>3. n \in 1..4 /\ i + n = Len(h) + 1 /\ n < Expected(h[i])
  BY PieceInside
<1>4. ~Within(g, i) /\ Expected(h[i]) # 0
  BY WithinStays, WaitingIsSilent
<1> HIDE DEF g, n
<1>5. g[i] = h[i] /\ h[i] \in Byte /\ Expected(h[i]) \in Int
  BY <1>1, ExpectedRange
<1>6. g[i] \notin Unprinted /\ g[i] >= 128
  BY <1>4, <1>5, LeadIsPrinted
<1>7. ~Waits(g, i)
  BY <1>1, <1>2, <1>3 DEF Waits
<1>8. Len(piece) = n /\ piece[1] = g[i]
  BY <1>1, <1>3
<1> HIDE DEF piece
<1>9. CharFrom(g, i) = <<CharOf(piece)>>
  BY <1>2, <1>4, <1>6, <1>7, CharFromIs DEF piece
<1>10. CharOf(piece) = Replacement
  <2>1. ~IsUtf8(piece)
    <3>1. Len(piece) # Expected(piece[1])
      BY <1>3, <1>5, <1>8
    <3> QED
      BY <3>1 DEF IsUtf8
  <2>2. ~(piece[1] < 128)
    <3>1. piece[1] \in 0..255 /\ piece[1] >= 128
      BY <1>5, <1>6, <1>8 DEF Byte
    <3> DEFINE first == piece[1]
    <3>2. first \in 0..255 /\ first >= 128
      BY <3>1
    <3> HIDE DEF first
    <3>3. ~(first < 128)
      BY <3>2
    <3> QED
      BY <3>3 DEF first
  <2> QED
    BY <2>1, <2>2 DEF CharOf
<1> QED
  BY <1>7, <1>9, <1>10 DEF g

\* With a continuation more it waits on, or is what its bytes are.
LEMMA CharIsContinued ==
  ASSUME NEW h \in Seq(Byte), NEW b \in Byte, NEW i \in 1..Len(h), Waits(h, i), IsContinuation(b)
  PROVE  /\ Waits(Append(h, b), i) <=> PieceFrom(h, i) + 1 < Expected(h[i])
         /\ CharFrom(Append(h, b), i) =
              IF PieceFrom(h, i) + 1 < Expected(h[i]) THEN <<>>
              ELSE <<CharOf(SubSeq(Append(h, b), i, Len(h) + 1))>>
<1> DEFINE g == Append(h, b)
           n == PieceFrom(h, i)
<1>1. /\ g \in Seq(Byte) /\ Len(g) = Len(h) + 1 /\ Len(h) \in Nat
      /\ i \in Nat /\ i \in 1..Len(g) /\ \A k \in 1..Len(h) : g[k] = h[k]
  BY OneByteMore
<1>2. PieceFrom(g, i) = n + 1
  BY PieceGains
<1>3. n \in 1..4 /\ i + n = Len(h) + 1 /\ n < Expected(h[i])
  BY PieceInside
<1>4. ~Within(g, i) /\ Expected(h[i]) # 0
  BY WithinStays, WaitingIsSilent
<1> HIDE DEF g, n
<1>5. g[i] = h[i] /\ h[i] \in Byte /\ Expected(h[i]) \in Int
  BY <1>1, ExpectedRange
<1>6. g[i] \notin Unprinted
  BY <1>4, <1>5, LeadIsPrinted
<1>7. Waits(g, i) <=> n + 1 < Expected(h[i])
  BY <1>1, <1>2, <1>3, <1>5 DEF Waits
<1>8. i + (n + 1) - 1 = Len(h) + 1
  BY <1>1, <1>3
<1>9. CharFrom(g, i) = IF Waits(g, i) THEN <<>> ELSE <<CharOf(SubSeq(g, i, i + (n + 1) - 1))>>
  BY <1>2, <1>4, <1>6, CharFromIs
<1> QED
  BY <1>7, <1>8, <1>9 DEF g, n

\* What a byte says that begins a piece.
StartChars(b) == IF b \in Unprinted \/ 1 < Expected(b) THEN <<>> ELSE <<CharOf(<<b>>)>>
LEMMA CharOfLast ==
  ASSUME NEW h \in Seq(Byte), NEW b \in Byte
  PROVE  /\ Within(Append(h, b), Len(h) + 1) => /\ CharFrom(Append(h, b), Len(h) + 1) = <<>>
                                                /\ ~Waits(Append(h, b), Len(h) + 1)
         /\ ~Within(Append(h, b), Len(h) + 1) =>
              /\ CharFrom(Append(h, b), Len(h) + 1) = StartChars(b)
              /\ Waits(Append(h, b), Len(h) + 1) <=> 1 < Expected(b)
              /\ PieceFrom(Append(h, b), Len(h) + 1) = 1
<1> DEFINE g == Append(h, b)
           l == Len(h) + 1
<1>1. /\ g \in Seq(Byte) /\ Len(g) = l /\ Len(h) \in Nat /\ g[l] = b /\ l \in Nat /\ l \in 1..Len(g)
  BY OneByteMore
<1> HIDE DEF g, l
<1>2. ASSUME Within(g, l)
      PROVE  CharFrom(g, l) = <<>> /\ ~Waits(g, l)
  BY <1>1, <1>2, CharFromIs, WithinIsContinuation
<1>3. PieceFrom(g, l) = 1
  <2>1. PieceFrom(g, l) \in 1..4 /\ l + PieceFrom(g, l) <= Len(g) + 1
    BY <1>1, PieceInside
  <2> QED
    BY <1>1, <2>1
<1>4. Waits(g, l) <=> 1 < Expected(b)
  BY <1>1, <1>3 DEF Waits
<1>5. ASSUME ~Within(g, l)
      PROVE  CharFrom(g, l) = StartChars(b)
  <2>1. SubSeq(g, l, l) = <<b>> /\ l + 1 - 1 = l
    <3>2. <<b>> \in Seq(Byte)
      OBVIOUS
    <3>3. SubSeq(g, l, l) = SubSeq(g, l, l - 1) \o <<g[l]>>
      BY <1>1, SubSeqRecursiveSecond
    <3>4. SubSeq(g, l, l - 1) = <<>>
      BY <1>1, SubSeqEmpty
    <3>5. SubSeq(g, l, l) = <<b>>
      BY <1>1, <3>2, <3>3, <3>4, ConcatEmptySeq
    <3> QED
      BY <1>1, <3>5
  <2>2. CharFrom(g, l) = IF Waits(g, l) \/ b \in Unprinted THEN <<>>
                         ELSE <<CharOf(SubSeq(g, l, l + 1 - 1))>>
    BY <1>1, <1>3, <1>5, CharFromIs
  <2> QED
    BY <1>4, <2>1, <2>2 DEF StartChars
<1> QED
  BY <1>2, <1>3, <1>4, <1>5 DEF g, l

-----------------------------------------------------------------------------
(* and to the characters of the text. *)

\* One sequence more, and what the last that had something gains before it.
LEMMA Joined ==
  ASSUME NEW S, NEW f \in Seq(Seq(S)), NEW g \in Seq(Seq(S)), NEW i \in 1..Len(f), Len(g) = Len(f) + 1,
         \A k \in 1..(i - 1) : f[k] = g[k],
         \A k \in i..Len(f) : f[k] = <<>>,
         \A k \in (i + 1)..Len(f) : g[k] = <<>>
  PROVE  Sum(g, Len(g)) = (Sum(f, Len(f)) \o g[i]) \o g[Len(g)]
<1> DEFINE n == Len(f)
           j == i - 1
<1>1. n \in Nat /\ i \in 1..n /\ j \in 0..n /\ j \in Nat /\ j + 1 = i /\ n + 1 = Len(g) /\ j <= n /\ j <= Len(g)
  BY LenProperties
<1>2. Sum(f, n) = Sum(f, j)
  <2>1. n \in 0..Len(f) /\ j \in 0..n
    BY <1>1
  <2>2. \A k \in (j + 1)..n : f[k] = <<>>
    BY <1>1
  <2> HIDE DEF n, j
  <2> QED
    BY <2>1, <2>2, SumStays
<1>3. Sum(f, j) = Sum(g, j)
  <2>1. \A k \in 1..j : f[k] = g[k]
    OBVIOUS
  <2> HIDE DEF n, j
  <2> QED
    BY <1>1, <2>1, SumAgrees DEF n
<1>4. Sum(g, i) = Sum(g, i - 1) \o g[i]
  <2>1. i \in 0..Len(g) /\ i > 0
    BY <1>1
  <2> QED
    BY <2>1, SumGrows
<1>5. Sum(g, n) = Sum(g, i)
  <2>1. n \in 0..Len(g) /\ i \in 0..n
    BY <1>1
  <2>2. \A k \in (i + 1)..n : g[k] = <<>>
    OBVIOUS
  <2> HIDE DEF n
  <2> QED
    BY <2>1, <2>2, SumStays
<1>6. Sum(g, n + 1) = Sum(g, n) \o g[n + 1]
  <2>1. n + 1 \in 0..Len(g) /\ n + 1 > 0 /\ (n + 1) - 1 = n
    BY <1>1
  <2> DEFINE m == n + 1
  <2> HIDE DEF m
  <2>2. Sum(g, m) = Sum(g, m - 1) \o g[m]
    BY <2>1, SumGrows DEF m
  <2> QED
    BY <2>1, <2>2 DEF m
<1> HIDE DEF n
<1>7. Sum(g, n + 1) = (Sum(f, n) \o g[i]) \o g[n + 1]
  BY <1>2, <1>3, <1>4, <1>5, <1>6
<1> QED
  BY <1>1, <1>7 DEF n

\* The characters of the pieces, in order.
Chars(h) == [i \in DOMAIN h |-> CharFrom(h, i)]
LEMMA CharsAre ==
  ASSUME NEW h \in Seq(Byte)
  PROVE  /\ Chars(h) \in Seq(Seq(Seq(Byte))) /\ Len(Chars(h)) = Len(h) /\ Len(h) \in Nat
         /\ \A i \in 1..Len(h) : Chars(h)[i] = CharFrom(h, i)
         /\ CharsOf(h) = Sum(Chars(h), Len(h)) /\ CharsOf(h) \in Seq(Seq(Byte))
<1> DEFINE n == Len(h)
           T == Seq(Seq(Byte))
<1>1. n \in Nat /\ DOMAIN h = 1..n
  BY LenProperties
<1>2. ASSUME NEW i \in 1..n
      PROVE  CharFrom(h, i) \in T
  <2> DEFINE k == i + PieceFrom(h, i) - 1
             piece == SubSeq(h, i, k)
  <2>1. PieceFrom(h, i) \in 1..4 /\ i + PieceFrom(h, i) <= n + 1
    BY PieceInside
  <2>2. k \in i..n
    BY <1>1, <2>1
  <2>3. piece \in Seq(Byte)
    <3> HIDE DEF k
    <3>1. \A m \in i..k : h[m] \in Byte
      BY <1>1, <2>2
    <3> QED
      BY <1>1, <2>2, <3>1, SubSeqProperties
  <2> HIDE DEF k, piece
  <2>4. CharOf(piece) \in Seq(Byte)
    BY <2>3 DEF CharOf, Replacement
  <2>5. CharFrom(h, i) \in {<<>>, <<CharOf(piece)>>}
    BY CharFromIs DEF piece, k
  <2> DEFINE char == CharOf(piece)
  <2> HIDE DEF char
  <2>6. <<char>> \in T
    BY <2>4 DEF char
  <2>7. <<>> \in T
    OBVIOUS
  <2> QED
    BY <2>5, <2>6, <2>7 DEF char
<1>3. Chars(h) = [i \in 1..n |-> CharFrom(h, i)]
  BY <1>1 DEF Chars
<1> HIDE DEF n, T
<1>4. Chars(h) \in Seq(T) /\ Len(Chars(h)) = n /\ \A i \in 1..n : Chars(h)[i] = CharFrom(h, i)
  BY <1>1, <1>2, <1>3
<1>5. CharsOf(h) = FlattenSeq(Chars(h))
  BY DEF CharsOf, Chars
<1>6. FlattenSeq(Chars(h)) = Sum(Chars(h), Len(Chars(h))) /\ Sum(Chars(h), Len(Chars(h))) \in T
  <2>1. Len(Chars(h)) \in 0..Len(Chars(h))
    BY <1>1, <1>4
  <2> QED
    BY <1>4, <2>1, SumGrows DEF T
<1> QED
  BY <1>1, <1>4, <1>5, <1>6 DEF n, T

\* What the parser has of a character is what waits for more.
Pending(h, u) ==
  /\ u = <<>> => \A i \in 1..Len(h) : ~Waits(h, i)
  /\ u # <<>> => /\ Len(h) - Len(u) + 1 \in 1..Len(h) /\ Waits(h, Len(h) - Len(u) + 1)
                 /\ u = SubSeq(h, Len(h) - Len(u) + 1, Len(h))

\* A byte that follows a character that is unfinished: which characters there are.
LEMMA AfterWaiting ==
  ASSUME NEW h \in Seq(Byte), NEW b \in Byte, NEW i \in 1..Len(h), Waits(h, i)
  PROVE  /\ CharsOf(Append(h, b)) =
              (CharsOf(h) \o CharFrom(Append(h, b), i)) \o CharFrom(Append(h, b), Len(h) + 1)
         /\ \A k \in 1..Len(h) : k # i => ~Waits(Append(h, b), k)
<1> DEFINE n == Len(h)
           more == Append(h, b)
           f == Chars(h)
           g == Chars(more)
<1>1. more \in Seq(Byte) /\ Len(more) = n + 1 /\ n \in Nat
  BY OneByteMore
<1>2. /\ f \in Seq(Seq(Seq(Byte))) /\ Len(f) = n /\ CharsOf(h) = Sum(f, n)
      /\ \A k \in 1..n : f[k] = CharFrom(h, k)
  BY CharsAre
<1>3. /\ g \in Seq(Seq(Seq(Byte))) /\ Len(g) = n + 1 /\ CharsOf(more) = Sum(g, n + 1)
      /\ \A k \in 1..(n + 1) : g[k] = CharFrom(more, k)
  BY <1>1, CharsAre
<1>4. ASSUME NEW k \in 1..n, k > i
      PROVE  Within(h, k) /\ CharFrom(h, k) = <<>> /\ ~Waits(h, k)
  <2>1. Within(h, k)
    BY <1>4, OneWaits
  <2> QED
    BY <2>1, WithinIsContinuation, CharFromIs
<1>5. ASSUME NEW k \in 1..n, k < i
      PROVE  ~Waits(h, k)
  <2> SUFFICES ASSUME Waits(h, k)
               PROVE  FALSE
    OBVIOUS
  <2>1. Within(h, i)
    BY <1>5, OneWaits
  <2> QED
    BY <2>1, WithinIsContinuation
<1>6. ASSUME NEW k \in 1..n, k # i
      PROVE  CharFrom(more, k) = CharFrom(h, k) /\ ~Waits(more, k)
  <2>1. ~Waits(h, k)
    BY <1>1, <1>4, <1>5, <1>6
  <2> QED
    BY <2>1, CharStays
<1>7. CharFrom(h, i) = <<>>
  BY WaitingIsSilent
<1> HIDE DEF n, more, f, g
<1>8. ASSUME NEW k \in 1..(i - 1)
      PROVE  f[k] = g[k]
  <2>1. k \in 1..n /\ k \in 1..(n + 1) /\ k # i
    BY <1>1 DEF n
  <2> QED
    BY <1>2, <1>3, <1>6, <2>1
<1>9. \A k \in i..n : f[k] = <<>>
  BY <1>1, <1>2, <1>4, <1>7 DEF n
<1>10. \A k \in (i + 1)..n : g[k] = <<>>
  BY <1>1, <1>3, <1>4, <1>6 DEF n
<1>11. Sum(g, Len(g)) = (Sum(f, Len(f)) \o g[i]) \o g[Len(g)]
  <2>1. i \in 1..Len(f) /\ Len(g) = Len(f) + 1
    BY <1>2, <1>3 DEF n
  <2>2. /\ \A k \in i..Len(f) : f[k] = <<>>
        /\ \A k \in (i + 1)..Len(f) : g[k] = <<>>
    BY <1>2, <1>9, <1>10
  <2> QED
    BY <1>2, <1>3, <1>8, <2>1, <2>2, Joined
<1>12. g[i] = CharFrom(more, i) /\ g[n + 1] = CharFrom(more, n + 1)
  BY <1>1, <1>3 DEF n
<1>13. CharsOf(more) = (CharsOf(h) \o CharFrom(more, i)) \o CharFrom(more, n + 1)
  BY <1>2, <1>3, <1>11, <1>12
<1>14. \A k \in 1..n : k # i => ~Waits(more, k)
  BY <1>6
<1> QED
  BY <1>13, <1>14 DEF n, more

-----------------------------------------------------------------------------
(* The reference, byte by byte. *)

\* What the parser keeps of a byte that begins a piece.
StartText(b) == IF 1 < Expected(b) THEN <<b>> ELSE <<>>

\* The piece that waits, for a parser that has some of a character.
LEMMA PendingPiece ==
  ASSUME NEW h \in Seq(Byte), NEW u \in Seq(Byte), u # <<>>, Pending(h, u)
  PROVE  \E i \in 1..Len(h) :
           /\ i = Len(h) - Len(u) + 1 /\ Waits(h, i) /\ u = SubSeq(h, i, Len(h))
           /\ PieceFrom(h, i) = Len(u) /\ h[i] = u[1] /\ Len(u) \in Nat /\ Len(u) < Expected(u[1])
           /\ Len(h) \in Nat
<1> DEFINE i == Len(h) - Len(u) + 1
           n == PieceFrom(h, i)
<1>1. i \in 1..Len(h) /\ Waits(h, i) /\ u = SubSeq(h, i, Len(h))
  BY DEF Pending
<1>2. Len(h) \in Nat /\ Len(u) \in Nat
  BY LenProperties
<1>3. n \in 1..4 /\ i + n = Len(h) + 1 /\ n < Expected(h[i])
  BY <1>1, PieceInside
<1>4. n = Len(u)
  <2> HIDE DEF n
  <2> QED
    BY <1>2, <1>3
<1> HIDE DEF n
<1>5. u[1] = h[i]
  <2> HIDE DEF i
  <2>1. SubSeq(h, i, Len(h))[1] = h[i]
    BY <1>1, <1>2
  <2> QED
    BY <1>1, <2>1
<1>6. n = PieceFrom(h, i)
  BY DEF n
<1> HIDE DEF i
<1>7. i = Len(h) - Len(u) + 1
  BY DEF i
<1> QED
  BY <1>1, <1>2, <1>3, <1>4, <1>5, <1>6, <1>7

\* The bytes from i on with one more.
LEMMA SuffixGrows ==
  ASSUME NEW h \in Seq(Byte), NEW b \in Byte, NEW i \in 1..Len(h)
  PROVE  SubSeq(Append(h, b), i, Len(h) + 1) = Append(SubSeq(h, i, Len(h)), b)
<1> DEFINE g == Append(h, b)
           l == Len(h) + 1
           u == SubSeq(h, i, Len(h))
<1>1. /\ g \in Seq(Byte) /\ Len(g) = l /\ Len(h) \in Nat /\ g[l] = b /\ i \in Nat
      /\ \A k \in 1..Len(h) : g[k] = h[k]
  BY OneByteMore
<1>2. SubSeq(g, i, l) = SubSeq(g, i, l - 1) \o <<g[l]>>
  <2>1. i \in 1..Len(g) /\ l \in i..Len(g)
    BY <1>1
  <2> HIDE DEF g, l
  <2> QED
    BY <1>1, <2>1, SubSeqRecursiveSecond
<1>3. SubSeq(g, i, l - 1) = u
  <2>1. l - 1 = Len(h)
    BY <1>1
  <2> HIDE DEF g
  <2>2. SubSeq(g, i, Len(h)) = SubSeq(h, i, Len(h))
    BY <1>1
  <2> QED
    BY <2>1, <2>2
<1>4. u \in Seq(Byte)
  <2>1. \A k \in i..Len(h) : h[k] \in Byte
    BY <1>1
  <2> QED
    BY <1>1, <2>1, SubSeqProperties
<1> HIDE DEF u
<1>5. Append(u, b) = u \o <<b>>
  BY <1>4, AppendIsConcat
<1> QED
  BY <1>1, <1>2, <1>3, <1>5 DEF g, l, u

\* A continuation is kept, and with the last one there is a character.
LEMMA ReferenceContinues ==
  ASSUME NEW h \in Seq(Byte), NEW u \in Seq(Byte), u # <<>>, Pending(h, u),
         NEW b \in Byte, IsContinuation(b)
  PROVE  /\ Len(u) + 1 < Expected(u[1]) =>
              CharsOf(Append(h, b)) = CharsOf(h) /\ Pending(Append(h, b), Append(u, b))
         /\ Len(u) + 1 = Expected(u[1]) =>
              /\ CharsOf(Append(h, b)) = CharsOf(h) \o <<CharOf(Append(u, b))>>
              /\ Pending(Append(h, b), <<>>)
<1> DEFINE g == Append(h, b)
           v == Append(u, b)
           l == Len(h) + 1
<1>1. PICK i \in 1..Len(h) :
           /\ i = Len(h) - Len(u) + 1 /\ Waits(h, i) /\ u = SubSeq(h, i, Len(h))
           /\ PieceFrom(h, i) = Len(u) /\ h[i] = u[1] /\ Len(u) \in Nat /\ Len(u) < Expected(u[1])
           /\ Len(h) \in Nat
  BY PendingPiece
<1>2. g \in Seq(Byte) /\ Len(g) = l
  BY OneByteMore
<1>3. v \in Seq(Byte) /\ Len(v) = Len(u) + 1 /\ v # <<>>
  BY AppendProperties
<1>4. SubSeq(g, i, l) = v
  BY <1>1, SuffixGrows
<1>5. /\ CharsOf(g) = (CharsOf(h) \o CharFrom(g, i)) \o CharFrom(g, l)
      /\ \A k \in 1..Len(h) : k # i => ~Waits(g, k)
  BY <1>1, AfterWaiting
<1>6. /\ Waits(g, i) <=> Len(u) + 1 < Expected(u[1])
      /\ CharFrom(g, i) = IF Len(u) + 1 < Expected(u[1]) THEN <<>> ELSE <<CharOf(v)>>
  <2>1. /\ Waits(g, i) <=> PieceFrom(h, i) + 1 < Expected(h[i])
        /\ CharFrom(g, i) = IF PieceFrom(h, i) + 1 < Expected(h[i]) THEN <<>>
                            ELSE <<CharOf(SubSeq(g, i, l))>>
    BY <1>1, CharIsContinued
  <2> QED
    BY <1>1, <1>4, <2>1
<1>7. CharFrom(g, l) = <<>> /\ ~Waits(g, l)
  <2>1. Within(g, l)
    BY <1>1, WithinLast
  <2> QED
    BY <2>1, CharOfLast
<1>8. CharsOf(h) \in Seq(Seq(Byte)) /\ CharsOf(g) \in Seq(Seq(Byte))
  BY <1>2, CharsAre
<1>9. v \in Seq(Byte) => CharOf(v) \in Seq(Byte)
  BY DEF CharOf, Replacement
<1> HIDE DEF g, v, l
<1> DEFINE before == CharsOf(h)
           char == CharOf(v)
           one == <<char>>
<1>10. one \in Seq(Seq(Byte))
  BY <1>3, <1>9
<1> HIDE DEF before, char, one
<1>11. before \o <<>> = before /\ (before \o one) \o <<>> = before \o one
  <2>1. before \in Seq(Seq(Byte)) /\ before \o one \in Seq(Seq(Byte))
    BY <1>8, <1>10, ConcatProperties DEF before
  <2> QED
    BY <2>1, ConcatEmptySeq
<1>12. ASSUME Len(u) + 1 < Expected(u[1])
       PROVE  CharsOf(g) = before /\ Pending(g, v)
  <2>1. CharFrom(g, i) = <<>> /\ Waits(g, i)
    BY <1>6, <1>12
  <2>2. CharsOf(g) = before
    BY <1>5, <1>7, <1>11, <2>1 DEF before
  <2>3. Len(g) - Len(v) + 1 = i /\ i \in 1..Len(g)
    <3>1. Len(g) = Len(h) + 1 /\ Len(v) = Len(u) + 1
      BY <1>2, <1>3 DEF l
    <3>2. Len(h) \in Nat /\ Len(u) \in Nat /\ i = Len(h) - Len(u) + 1 /\ i \in 1..Len(h)
      BY <1>1
    <3> DEFINE a == Len(h)
               c == Len(u)
    <3>3. (a + 1) - (c + 1) + 1 = i /\ i \in 1..(a + 1)
      <4>1. a \in Nat /\ c \in Nat /\ i = a - c + 1 /\ i \in 1..a
        BY <3>2
      <4> HIDE DEF a, c
      <4> QED
        BY <4>1
    <3> QED
      BY <3>1, <3>3
  <2>4. v = SubSeq(g, i, Len(g))
    BY <1>2, <1>4
  <2>5. Pending(g, v)
    BY <1>3, <2>1, <2>3, <2>4 DEF Pending
  <2> QED
    BY <2>2, <2>5
<1>13. ASSUME Len(u) + 1 = Expected(u[1])
       PROVE  CharsOf(g) = before \o one /\ Pending(g, <<>>)
  <2>1. ~(Len(u) + 1 < Expected(u[1]))
    BY <1>1, <1>13
  <2>2. CharFrom(g, i) = one /\ ~Waits(g, i)
    BY <1>6, <2>1 DEF one, char
  <2>3. CharsOf(g) = before \o one
    BY <1>5, <1>7, <1>11, <2>2 DEF before
  <2>4. ASSUME NEW k \in 1..Len(g)
        PROVE  ~Waits(g, k)
    <3>1. k \in 1..Len(h) \/ k = l
      BY <1>1, <1>2 DEF l
    <3> QED
      BY <1>5, <1>7, <2>2, <3>1
  <2>5. Pending(g, <<>>)
    BY <2>4 DEF Pending
  <2> QED
    BY <2>3, <2>5
<1> QED
  BY <1>12, <1>13 DEF before, one, char, g, v

\* A byte that begins a piece, behind what does not wait for it.
LEMMA Started ==
  ASSUME NEW h \in Seq(Byte), NEW b \in Byte,
         ~Within(Append(h, b), Len(h) + 1), \A k \in 1..Len(h) : ~Waits(Append(h, b), k)
  PROVE  Pending(Append(h, b), StartText(b))
<1> DEFINE g == Append(h, b)
           l == Len(h) + 1
<1>1. g \in Seq(Byte) /\ Len(g) = l /\ Len(h) \in Nat /\ g[l] = b /\ l \in Nat
  BY OneByteMore
<1>2. Waits(g, l) <=> 1 < Expected(b)
  BY CharOfLast
<1> HIDE DEF g
<1>3. CASE 1 < Expected(b)
  <2>1. StartText(b) = <<b>> /\ <<b>> # <<>> /\ Len(<<b>>) = 1
    BY <1>3 DEF StartText
  <2>2. Len(g) - 1 + 1 = l /\ l \in 1..Len(g)
    BY <1>1
  <2>3. SubSeq(g, l, l) = <<b>>
    <3>1. SubSeq(g, l, l) = SubSeq(g, l, l - 1) \o <<g[l]>>
      BY <1>1, <2>2, SubSeqRecursiveSecond
    <3>2. SubSeq(g, l, l - 1) = <<>>
      BY <1>1, SubSeqEmpty
    <3>3. <<b>> \in Seq(Byte)
      OBVIOUS
    <3> QED
      BY <1>1, <3>1, <3>2, <3>3, ConcatEmptySeq
  <2> DEFINE text == <<b>>
  <2>4. StartText(b) = text /\ text # <<>> /\ Len(text) = 1 /\ SubSeq(g, l, l) = text
    BY <2>1, <2>3
  <2> HIDE DEF text, l
  <2>5. Pending(g, text)
    BY <1>1, <1>2, <1>3, <2>2, <2>4 DEF Pending
  <2> QED
    BY <2>4, <2>5 DEF g
<1>4. CASE ~(1 < Expected(b))
  <2>1. StartText(b) = <<>>
    BY <1>4 DEF StartText
  <2>2. ASSUME NEW k \in 1..Len(g)
        PROVE  ~Waits(g, k)
    <3>1. k \in 1..Len(h) \/ k = l
      BY <1>1
    <3>2. k \in 1..Len(h) => ~Waits(g, k)
      BY DEF g
    <3> QED
      BY <1>2, <1>4, <3>1, <3>2
  <2>3. Pending(g, <<>>)
    BY <2>2 DEF Pending
  <2> QED
    BY <2>1, <2>3 DEF g
<1> QED
  BY <1>3, <1>4

\* Any other byte cuts the character short, and begins a piece.
LEMMA ReferenceCuts ==
  ASSUME NEW h \in Seq(Byte), NEW u \in Seq(Byte), u # <<>>, Pending(h, u),
         NEW b \in Byte, ~IsContinuation(b)
  PROVE  /\ CharsOf(Append(h, b)) = (CharsOf(h) \o <<Replacement>>) \o StartChars(b)
         /\ Pending(Append(h, b), StartText(b))
<1> DEFINE g == Append(h, b)
           l == Len(h) + 1
<1>1. PICK i \in 1..Len(h) : Waits(h, i)
  BY PendingPiece
<1>2. /\ CharsOf(g) = (CharsOf(h) \o CharFrom(g, i)) \o CharFrom(g, l)
      /\ \A k \in 1..Len(h) : k # i => ~Waits(g, k)
  BY <1>1, AfterWaiting
<1>3. CharFrom(g, i) = <<Replacement>> /\ ~Waits(g, i)
  BY <1>1, CharIsCut
<1>4. ~Within(g, l)
  BY WithinLast
<1>5. CharFrom(g, l) = StartChars(b)
  BY <1>4, CharOfLast
<1>6. \A k \in 1..Len(h) : ~Waits(g, k)
  BY <1>2, <1>3
<1>7. Pending(g, StartText(b))
  BY <1>4, <1>6, Started
<1> QED
  BY <1>2, <1>3, <1>5, <1>7

\* The first byte.
LEMMA ReferenceStarts ==
  ASSUME NEW b \in Byte
  PROVE  CharsOf(<<b>>) = StartChars(b) /\ Pending(<<b>>, StartText(b))
<1> DEFINE h == <<>>
           g == <<b>>
<1>1. h \in Seq(Byte) /\ Len(h) = 0 /\ Append(h, b) = g /\ g \in Seq(Byte) /\ Len(g) = 1
  OBVIOUS
<1> HIDE DEF h, g
<1>2. ~Within(g, 1)
  BY DEF Within
<1>3. CharFrom(g, 1) = StartChars(b)
  <2>1. Len(h) + 1 = 1
    BY <1>1
  <2>2. ~Within(Append(h, b), Len(h) + 1) => CharFrom(Append(h, b), Len(h) + 1) = StartChars(b)
    BY <1>1, CharOfLast
  <2> QED
    BY <1>1, <1>2, <2>1, <2>2
<1>4. Pending(g, StartText(b))
  <2>1. Len(h) + 1 = 1 /\ ~Within(Append(h, b), Len(h) + 1)
    BY <1>1, <1>2
  <2>2. \A k \in 1..Len(h) : ~Waits(Append(h, b), k)
    BY <1>1
  <2>3. Pending(Append(h, b), StartText(b))
    BY <1>1, <2>1, <2>2, Started
  <2> QED
    BY <1>1, <2>3
<1>5. CharsOf(g) = CharFrom(g, 1)
  <2> DEFINE f == Chars(g)
  <2>1. f \in Seq(Seq(Seq(Byte))) /\ Len(f) = 1 /\ f[1] = CharFrom(g, 1) /\ CharsOf(g) = Sum(f, 1)
    <3>1. /\ f \in Seq(Seq(Seq(Byte))) /\ Len(f) = Len(g)
          /\ \A i \in 1..Len(g) : f[i] = CharFrom(g, i)
          /\ CharsOf(g) = Sum(f, Len(g))
      BY <1>1, CharsAre
    <3>2. 1 \in 1..Len(g)
      BY <1>1
    <3> HIDE DEF f
    <3>3. CharsOf(g) = Sum(f, 1)
      BY <1>1, <3>1
    <3> QED
      BY <1>1, <3>1, <3>2, <3>3
  <2> HIDE DEF f
  <2>2. 1 \in 0..Len(f) /\ 1 > 0 /\ 1 - 1 = 0
    BY <2>1
  <2>3. Sum(f, 1) = Sum(f, 1 - 1) \o f[1]
    BY <2>1, <2>2, SumGrows
  <2>4. Sum(f, 0) = <<>>
    BY <2>1, <2>2, SumGrows
  <2>5. f[1] \in Seq(Seq(Byte))
    BY <2>1, <2>2, ElementOfSeq
  <2> QED
    BY <2>1, <2>2, <2>3, <2>4, <2>5, ConcatEmptySeq
<1> QED
  BY <1>3, <1>4, <1>5 DEF g

-----------------------------------------------------------------------------
(* The calls that say a text. *)

\* The calls of text without sequences: characters and controls.
TextCalls == {Printed(char) : char \in Seq(Byte)} \cup {Executed(byte) : byte \in Byte}
Says(call) == IF call.kind = "print" THEN <<call.char>> ELSE <<>>

\* A call says a character or nothing.
LEMMA SaysIs ==
  /\ \A char \in Seq(Byte) : Printed(char) \in TextCalls /\ Says(Printed(char)) = <<char>>
  /\ \A byte \in Byte : Executed(byte) \in TextCalls /\ Says(Executed(byte)) = <<>>
  /\ \A call \in TextCalls : Says(call) \in Seq(Seq(Byte))
<1>1. ASSUME NEW char \in Seq(Byte)
      PROVE  Printed(char) \in TextCalls /\ Says(Printed(char)) = <<char>>
  <2>1. Printed(char).kind = "print" /\ Printed(char).char = char
    BY DEF Printed
  <2> QED
    BY <2>1 DEF TextCalls, Says
<1>2. ASSUME NEW byte \in Byte
      PROVE  Executed(byte) \in TextCalls /\ Says(Executed(byte)) = <<>>
  <2>1. Executed(byte).kind = "execute"
    BY DEF Executed
  <2> QED
    BY <2>1 DEF TextCalls, Says
<1>3. ASSUME NEW call \in TextCalls
      PROVE  Says(call) \in Seq(Seq(Byte))
  <2>1. (\E char \in Seq(Byte) : call = Printed(char)) \/ (\E byte \in Byte : call = Executed(byte))
    BY DEF TextCalls
  <2>2. ASSUME NEW char \in Seq(Byte), call = Printed(char)
        PROVE  Says(call) \in Seq(Seq(Byte))
    <3>1. Says(call) = <<char>>
      BY <1>1, <2>2
    <3> DEFINE T == Seq(Byte)
    <3>2. char \in T
      OBVIOUS
    <3> HIDE DEF T
    <3>3. <<char>> \in Seq(T)
      BY <3>2
    <3> QED
      BY <3>1, <3>3 DEF T
  <2>3. ASSUME NEW byte \in Byte, call = Executed(byte)
        PROVE  Says(call) \in Seq(Seq(Byte))
    <3>1. Says(call) = <<>>
      BY <1>2, <2>3
    <3> QED
      BY <3>1
  <2> QED
    BY <2>1, <2>2, <2>3
<1> QED
  BY <1>1, <1>2, <1>3

\* What a call more adds to the characters printed.
LEMMA PrintsMore ==
  ASSUME NEW calls \in Seq(TextCalls), NEW call \in TextCalls
  PROVE  /\ CharsPrinted(Append(calls, call)) = CharsPrinted(calls) \o Says(call)
         /\ CharsPrinted(calls) \in Seq(Seq(Byte))
<1> DEFINE n == Len(calls)
           more == Append(calls, call)
           T == Seq(Seq(Byte))
           f == [i \in 1..n |-> Says(calls[i])]
           g == [i \in 1..(n + 1) |-> Says(more[i])]
           one == Says(call)
<1>1. /\ n \in Nat /\ DOMAIN calls = 1..n /\ more \in Seq(TextCalls) /\ Len(more) = n + 1
      /\ DOMAIN more = 1..(n + 1) /\ more[n + 1] = call /\ \A i \in 1..n : more[i] = calls[i]
  BY AppendProperties, LenProperties
<1>2. \A i \in 1..n : calls[i] \in TextCalls
  BY ElementOfSeq, <1>1
<1>3. CharsPrinted(calls) = FlattenSeq(f) /\ CharsPrinted(more) = FlattenSeq(g)
  BY <1>1 DEF CharsPrinted, Says
<1>4. \A i \in 1..n : Says(calls[i]) \in T
  BY <1>2, SaysIs
<1>5. one \in T
  BY SaysIs
<1> HIDE DEF n, more, T
<1>6. f \in Seq(T)
  BY <1>1, <1>4
<1>7. Len(f) = n /\ \A i \in 1..n : f[i] = Says(calls[i])
  BY <1>1
<1>8. \A i \in 1..n : more[i] = calls[i] /\ i \in 1..(n + 1) /\ i # n + 1
  BY <1>1
<1> HIDE DEF f, one
<1>9. /\ Append(f, one) \in Seq(T) /\ Len(Append(f, one)) = n + 1
      /\ Append(f, one)[n + 1] = one /\ \A i \in 1..n : Append(f, one)[i] = f[i]
  BY <1>5, <1>6, <1>7, AppendProperties
<1>10. ASSUME NEW i \in 1..(n + 1)
       PROVE  Append(f, one)[i] = g[i] /\ g[i] \in T
  <2>1. CASE i = n + 1
    BY <1>1, <1>5, <1>9, <2>1 DEF one
  <2>2. CASE i # n + 1
    <3>1. i \in 1..n
      BY <1>1, <2>2
    <3> QED
      BY <1>4, <1>7, <1>8, <1>9, <3>1
  <2> QED
    BY <2>1, <2>2
<1>11. g \in Seq(T) /\ Len(g) = n + 1
  BY <1>1, <1>10
<1> HIDE DEF g
<1>12. g = Append(f, one)
  <2>1. \A i \in 1..Len(g) : g[i] = Append(f, one)[i]
    BY <1>10, <1>11
  <2> QED
    BY <1>9, <1>11, <2>1, SeqEqual
<1>13. FlattenSeq(Append(f, one)) = FlattenSeq(f) \o one /\ FlattenSeq(f) \in T
  BY <1>5, <1>6, FlattenMore, FlattenKeeps DEF T
<1> QED
  BY <1>3, <1>12, <1>13 DEF more, one, T

\* No calls say nothing.
LEMMA PrintsNone == CharsPrinted(<<>>) = <<>>
<1> DEFINE f == [i \in DOMAIN <<>> |-> IF <<>>[i].kind = "print" THEN <<(<<>>)[i].char>> ELSE <<>>]
<1>1. CharsPrinted(<<>>) = FlattenSeq(f)
  BY DEF CharsPrinted
<1>2. f = <<>>
  OBVIOUS
<1> HIDE DEF f
<1> QED
  BY <1>1, <1>2, FlattenNone

-----------------------------------------------------------------------------
(* The machine, byte by byte. *)

\* What the parser calls for a byte that begins a piece.
StartCalls(b) ==
  IF b >= 128 THEN IF Expected(b) = 0 THEN <<Printed(Replacement)>> ELSE <<>>
  ELSE IF b = DEL THEN <<>>
  ELSE IF b \in Controls \cup {CAN, SUB} THEN <<Executed(b)>> ELSE <<Printed(<<b>>)>>

\* They say what the byte says.
LEMMA StartCallsSay ==
  ASSUME NEW calls \in Seq(TextCalls), NEW b \in Byte, b # ESC
  PROVE  /\ calls \o StartCalls(b) \in Seq(TextCalls)
         /\ CharsPrinted(calls \o StartCalls(b)) = CharsPrinted(calls) \o StartChars(b)
<1> DEFINE before == CharsPrinted(calls)
<1>1. \A call \in TextCalls : /\ calls \o <<call>> \in Seq(TextCalls)
                              /\ CharsPrinted(calls \o <<call>>) = before \o Says(call)
  <2> TAKE call \in TextCalls
  <2>1. Append(calls, call) = calls \o <<call>> /\ Append(calls, call) \in Seq(TextCalls)
    BY AppendIsConcat, AppendProperties
  <2>2. CharsPrinted(Append(calls, call)) = before \o Says(call)
    BY PrintsMore
  <2> QED
    BY <2>1, <2>2
<1>2. before \in Seq(Seq(Byte))
  <2>1. Printed(Replacement) \in TextCalls
    BY SaysIs DEF Replacement
  <2> QED
    BY <2>1, PrintsMore
<1>3. calls \o <<>> = calls /\ before \o <<>> = before
  <2> HIDE DEF before
  <2> QED
    BY <1>2, ConcatEmptySeq
<1> HIDE DEF before
<1>4. CASE b >= 128
  <2>1. b \notin Unprinted
    BY <1>4 DEF Unprinted, Controls, CAN, SUB, DEL, ESC, Byte
  <2>2. CASE Expected(b) = 0
    <3>1. StartCalls(b) = <<Printed(Replacement)>>
      BY <1>4, <2>2 DEF StartCalls
    <3>2. CharOf(<<b>>) = Replacement
      <4>1. ~(b < 128)
        BY <1>4 DEF Byte
      <4>2. <<b>>[1] = b
        OBVIOUS
      <4> QED
        BY <2>2, <4>1, <4>2 DEF CharOf
    <3>3. StartChars(b) = <<Replacement>>
      BY <2>1, <2>2, <3>2 DEF StartChars
    <3>4. Printed(Replacement) \in TextCalls /\ Says(Printed(Replacement)) = <<Replacement>>
      BY SaysIs DEF Replacement
    <3> QED
      BY <1>1, <3>1, <3>3, <3>4 DEF before
  <2>3. CASE Expected(b) # 0
    <3>1. StartCalls(b) = <<>>
      BY <1>4, <2>3 DEF StartCalls
    <3>2. StartChars(b) = <<>>
      <4>1. 1 < Expected(b)
        BY <2>3, ExpectedRange
      <4> QED
        BY <4>1 DEF StartChars
    <3> QED
      BY <1>3, <3>1, <3>2 DEF before
  <2> QED
    BY <2>2, <2>3
<1>5. CASE ~(b >= 128)
  <2>1. Expected(b) = 0 /\ b < 128
    BY <1>5 DEF Expected, Byte
  <2>2. CASE b = DEL
    <3>1. StartCalls(b) = <<>> /\ StartChars(b) = <<>>
      BY <1>5, <2>2 DEF StartCalls, StartChars, Unprinted
    <3> QED
      BY <1>3, <3>1 DEF before
  <2>3. CASE b # DEL /\ b \in Controls \cup {CAN, SUB}
    <3>1. StartCalls(b) = <<Executed(b)>> /\ StartChars(b) = <<>>
      BY <1>5, <2>3 DEF StartCalls, StartChars, Unprinted
    <3>2. Executed(b) \in TextCalls /\ Says(Executed(b)) = <<>>
      BY SaysIs
    <3> QED
      BY <1>1, <3>1, <3>2 DEF before
  <2>4. CASE b # DEL /\ b \notin Controls \cup {CAN, SUB}
    <3>1. StartCalls(b) = <<Printed(<<b>>)>>
      BY <1>5, <2>4 DEF StartCalls
    <3>2. CharOf(<<b>>) = <<b>>
      BY <2>1 DEF CharOf
    <3>3. StartChars(b) = <<(<<b>>)>>
      BY <2>1, <2>4, <3>2 DEF StartChars, Unprinted
    <3>4. <<b>> \in Seq(Byte)
      OBVIOUS
    <3>5. Printed(<<b>>) \in TextCalls /\ Says(Printed(<<b>>)) = <<(<<b>>)>>
      BY <3>4, SaysIs
    <3> QED
      BY <1>1, <3>1, <3>3, <3>5 DEF before
  <2> QED
    BY <2>2, <2>3, <2>4
<1> QED
  BY <1>4, <1>5

\* A byte by itself, for a parser with no part of a character.
Begin(r, b) ==
  IF b >= 128 THEN IF Expected(b) = 0 THEN Emit(r, Printed(Replacement)) ELSE [r EXCEPT !.utf8 = <<b>>]
  ELSE [Perform(r, Transition("Ground", b).action, b) EXCEPT !.state = "Ground"]

\* The table in Ground.
LEMMA GroundTable ==
  ASSUME NEW b \in Byte, b # ESC
  PROVE  /\ Transition("Ground", b).next = "Ground"
         /\ Transition("Ground", b).action =
              IF b \in {CAN, SUB} THEN "Execute" ELSE IF b = DEL THEN "Ignore"
              ELSE IF b \in Controls THEN "Execute" ELSE "Print"
<1>1. CASE b \in {CAN, SUB}
  <2>1. Transition("Ground", b) = Go("Execute", "Ground")
    BY <1>1 DEF Transition, CAN, SUB, ESC, DEL
  <2> QED
    BY <1>1, <2>1 DEF Go
<1>2. CASE b = DEL
  <2>1. Transition("Ground", b) = Go("Ignore", "Ground") /\ b \notin {CAN, SUB}
    BY <1>2 DEF Transition, CAN, SUB, ESC, DEL
  <2> QED
    BY <1>2, <2>1 DEF Go
<1>3. CASE b \notin {CAN, SUB, DEL}
  <2>1. Transition("Ground", b) = Go(IF b \in Controls THEN "Execute" ELSE "Print", "Ground")
    BY <1>3 DEF Transition
  <2>2. CASE b \in Controls
    BY <1>3, <2>1, <2>2 DEF Go
  <2>3. CASE b \notin Controls
    BY <1>3, <2>1, <2>3 DEF Go
  <2> QED
    BY <2>2, <2>3
<1> QED
  BY <1>1, <1>2, <1>3

\* The calls of a parser are replaced.
LEMMA OutChanges ==
  ASSUME NEW p, IsParser(p), NEW calls
  PROVE  /\ [p EXCEPT !.out = calls].out = calls /\ [p EXCEPT !.out = calls].utf8 = p.utf8
         /\ [p EXCEPT !.out = calls].state = p.state /\ IsParser([p EXCEPT !.out = calls])
BY DEF IsParser

\* The calls and the text of a parser that begins a piece.
LEMMA BeginDoes ==
  ASSUME NEW r, IsParser(r), r.state = "Ground", r.utf8 = <<>>, r.out \in Seq(TextCalls),
         NEW b \in Byte, b # ESC
  PROVE  /\ Begin(r, b).out = r.out \o StartCalls(b) /\ Begin(r, b).utf8 = StartText(b)
         /\ Begin(r, b).state = "Ground"
<1>1. ASSUME NEW call
      PROVE  /\ Emit(r, call).out = r.out \o <<call>> /\ Emit(r, call).utf8 = <<>>
             /\ Emit(r, call).state = "Ground" /\ IsParser(Emit(r, call))
  <2>1. Append(r.out, call) = r.out \o <<call>>
    BY AppendIsConcat
  <2> DEFINE calls == Append(r.out, call)
  <2> HIDE DEF calls
  <2>2. Emit(r, call) = [r EXCEPT !.out = calls]
    BY DEF Emit, calls
  <2>3. [r EXCEPT !.out = calls].out = calls /\ [r EXCEPT !.out = calls].utf8 = r.utf8
        /\ [r EXCEPT !.out = calls].state = r.state /\ IsParser([r EXCEPT !.out = calls])
    BY OutChanges
  <2> QED
    BY <2>1, <2>2, <2>3 DEF calls
<1>2. r.out \o <<>> = r.out
  BY ConcatEmptySeq
<1>3. CASE b >= 128
  <2>1. CASE Expected(b) = 0
    <3>1. Begin(r, b) = Emit(r, Printed(Replacement)) /\ StartCalls(b) = <<Printed(Replacement)>>
      BY <1>3, <2>1 DEF Begin, StartCalls
    <3>2. StartText(b) = <<>>
      BY <2>1 DEF StartText
    <3> QED
      BY <1>1, <3>1, <3>2
  <2>2. CASE Expected(b) # 0
    <3> DEFINE text == <<b>>
    <3>1. 1 < Expected(b)
      BY <2>2, ExpectedRange
    <3>2. StartCalls(b) = <<>> /\ StartText(b) = text
      BY <1>3, <2>2, <3>1 DEF StartCalls, StartText
    <3>3. Begin(r, b) = [r EXCEPT !.utf8 = text]
      BY <1>3, <2>2 DEF Begin
    <3> HIDE DEF text
    <3>4. [r EXCEPT !.utf8 = text].out = r.out /\ [r EXCEPT !.utf8 = text].utf8 = text
          /\ [r EXCEPT !.utf8 = text].state = r.state
      BY DEF IsParser
    <3> QED
      BY <1>2, <3>2, <3>3, <3>4
  <2> QED
    BY <2>1, <2>2
<1>4. CASE ~(b >= 128)
  <2> DEFINE action == Transition("Ground", b).action
             done == Perform(r, action, b)
  <2>1. Begin(r, b) = [done EXCEPT !.state = "Ground"]
    BY <1>4 DEF Begin
  <2>2. action = IF b \in {CAN, SUB} THEN "Execute" ELSE IF b = DEL THEN "Ignore"
                 ELSE IF b \in Controls THEN "Execute" ELSE "Print"
    BY GroundTable
  <2>3. StartText(b) = <<>>
    <3>1. Expected(b) = 0
      BY <1>4 DEF Expected, Byte
    <3> QED
      BY <3>1 DEF StartText
  <2> HIDE DEF action
  <2>4. done.out = r.out \o StartCalls(b) /\ done.utf8 = <<>> /\ IsParser(done)
    <3>1. CASE b = DEL
      <4>1. action = "Ignore"
        BY <2>2, <3>1 DEF CAN, SUB, DEL
      <4>2. done = r
        BY <4>1 DEF Perform
      <4>3. StartCalls(b) = <<>>
        BY <1>4, <3>1 DEF StartCalls
      <4> QED
        BY <1>2, <4>2, <4>3
    <3>2. CASE b # DEL /\ b \in Controls \cup {CAN, SUB}
      <4>1. action = "Execute"
        BY <2>2, <3>2
      <4>2. done = Emit(r, Executed(b))
        BY <4>1 DEF Perform
      <4>3. StartCalls(b) = <<Executed(b)>>
        BY <1>4, <3>2 DEF StartCalls
      <4> HIDE DEF done
      <4> QED
        BY <1>1, <4>2, <4>3
    <3>3. CASE b # DEL /\ b \notin Controls \cup {CAN, SUB}
      <4>1. action = "Print"
        BY <2>2, <3>3
      <4>2. done = Emit(r, Printed(<<b>>))
        BY <4>1 DEF Perform
      <4>3. StartCalls(b) = <<Printed(<<b>>)>>
        BY <1>4, <3>3 DEF StartCalls
      <4> HIDE DEF done
      <4> QED
        BY <1>1, <4>2, <4>3
    <3> QED
      BY <3>1, <3>2, <3>3
  <2> HIDE DEF done
  <2>5. [done EXCEPT !.state = "Ground"].out = done.out /\ [done EXCEPT !.state = "Ground"].utf8 = done.utf8
        /\ [done EXCEPT !.state = "Ground"].state = "Ground"
    BY <2>4 DEF IsParser
  <2> QED
    BY <2>1, <2>3, <2>4, <2>5
<1> QED
  BY <1>3, <1>4

\* A byte from 128 on is not below.
LEMMA NotBelow ==
  ASSUME NEW b \in Byte, b >= 128
  PROVE  ~(b < 128)
BY DEF Byte

\* What flush_utf8 calls, and that it changes nothing but the text.
LEMMA FlushDoes ==
  ASSUME NEW p, IsParser(p)
  PROVE  /\ Flush(p).out = Append(p.out, Printed(IF IsUtf8(p.utf8) THEN p.utf8 ELSE Replacement))
         /\ Flush(p).utf8 = <<>> /\ Flush(p).state = p.state /\ IsParser(Flush(p))
<1> DEFINE calls == Append(p.out, Printed(IF IsUtf8(p.utf8) THEN p.utf8 ELSE Replacement))
           q == [p EXCEPT !.out = calls]
           none == <<>>
<1>1. Flush(p) = [q EXCEPT !.utf8 = none]
  BY DEF Flush, Emit
<1> HIDE DEF calls, none
<1>2. q.out = calls /\ q.state = p.state /\ IsParser(q)
  BY OutChanges
<1> HIDE DEF q
<1>3. /\ [q EXCEPT !.utf8 = none].out = q.out /\ [q EXCEPT !.utf8 = none].utf8 = none
      /\ [q EXCEPT !.utf8 = none].state = q.state /\ IsParser([q EXCEPT !.utf8 = none])
  BY <1>2 DEF IsParser
<1> QED
  BY <1>1, <1>2, <1>3 DEF calls, none

\* A byte in Ground that does not go on with a character begins a piece,
LEMMA GroundBegins ==
  ASSUME NEW p, p.state = "Ground", NEW b \in Byte, b # ESC,
         p.utf8 = <<>> \/ ~IsContinuation(b)
  PROVE  ProcessByte(p, b) = Begin(IF p.utf8 = <<>> THEN p ELSE Flush(p), b)
<1> DEFINE r == IF p.utf8 = <<>> THEN p ELSE Flush(p)
<1>1. CASE b >= 128
  <2>1. ProcessByte(p, b) = ProcessUtf8(p, b)
    BY <1>1 DEF ProcessByte
  <2>2. CASE p.utf8 = <<>>
    <3>1. ProcessUtf8(p, b) = IF Expected(b) = 0 THEN Emit(p, Printed(Replacement)) ELSE [p EXCEPT !.utf8 = <<b>>]
      BY <2>2 DEF ProcessUtf8
    <3>2. Begin(p, b) = IF Expected(b) = 0 THEN Emit(p, Printed(Replacement)) ELSE [p EXCEPT !.utf8 = <<b>>]
      BY <1>1 DEF Begin
    <3> QED
      BY <2>1, <2>2, <3>1, <3>2
  <2>3. CASE p.utf8 # <<>>
    <3> DEFINE f == Flush(p)
    <3>1. ProcessUtf8(p, b) = IF Expected(b) = 0 THEN Emit(f, Printed(Replacement)) ELSE [f EXCEPT !.utf8 = <<b>>]
      BY <2>3 DEF ProcessUtf8
    <3> HIDE DEF f
    <3>2. Begin(f, b) = IF Expected(b) = 0 THEN Emit(f, Printed(Replacement)) ELSE [f EXCEPT !.utf8 = <<b>>]
      BY <1>1 DEF Begin
    <3> QED
      BY <2>1, <2>3, <3>1, <3>2 DEF f
  <2> QED
    BY <2>2, <2>3
<1>2. CASE ~(b >= 128)
  <2> DEFINE go == Transition("Ground", b)
             flushed == IF p.utf8 # <<>> THEN Flush(p) ELSE p
             left == IF go.next = "Escape" /\ p.state # "Escape"
                       THEN [flushed EXCEPT !.prev = p.state] ELSE flushed
             entered == IF go.next # p.state THEN Enter(left, go.next) ELSE left
  <2>1. ProcessByte(p, b) = [Perform(entered, go.action, b) EXCEPT !.state = go.next]
    BY <1>2 DEF ProcessByte
  <2>2. go.next = "Ground"
    BY GroundTable
  <2> HIDE DEF go, flushed
  <2>3. left = flushed
    BY <2>2
  <2> HIDE DEF left
  <2>4. entered = flushed
    BY <2>2, <2>3
  <2>5. flushed = r
    BY DEF flushed
  <2> HIDE DEF entered, r
  <2>6. Begin(r, b) = [Perform(r, go.action, b) EXCEPT !.state = "Ground"]
    BY <1>2 DEF Begin, go
  <2>7. ProcessByte(p, b) = Begin(r, b)
    BY <2>1, <2>2, <2>4, <2>5, <2>6
  <2> QED
    BY <2>7 DEF r
<1> QED
  BY <1>1, <1>2

\* and one that does is kept, or completes it.
LEMMA GroundContinues ==
  ASSUME NEW p, p.state = "Ground", NEW b \in Byte, p.utf8 # <<>>, IsContinuation(b), IsParser(p)
  PROVE  ProcessByte(p, b) =
           IF Len(Append(p.utf8, b)) = Expected(Append(p.utf8, b)[1])
             THEN Flush([p EXCEPT !.utf8 = Append(p.utf8, b)])
             ELSE [p EXCEPT !.utf8 = Append(p.utf8, b)]
<1> DEFINE text == Append(p.utf8, b)
           added == [p EXCEPT !.utf8 = text]
<1>1. b >= 128
  BY DEF IsContinuation, Byte
<1>2. ProcessByte(p, b) = ProcessUtf8(p, b)
  BY <1>1 DEF ProcessByte
<1>3. ProcessUtf8(p, b) = IF Len(added.utf8) = Expected(added.utf8[1]) THEN Flush(added) ELSE added
  BY DEF ProcessUtf8
<1> HIDE DEF text
<1>4. added.utf8 = text
  BY DEF IsParser
<1> HIDE DEF added
<1>5. ProcessByte(p, b) = IF Len(text) = Expected(text[1]) THEN Flush(added) ELSE added
  BY <1>2, <1>3, <1>4
<1> QED
  BY <1>5 DEF added, text

\* So the parser: with no part of a character,
LEMMA MachineStarts ==
  ASSUME NEW p, IsParser(p), p.state = "Ground", p.out = <<>>, p.utf8 = <<>>,
         NEW b \in Byte, b # ESC
  PROVE  /\ ProcessByte(p, b).out = StartCalls(b) /\ ProcessByte(p, b).utf8 = StartText(b)
         /\ ProcessByte(p, b).state = "Ground"
<1>1. ProcessByte(p, b) = Begin(p, b)
  BY GroundBegins
<1>2. p.out \in Seq(TextCalls)
  OBVIOUS
<1>3. /\ Begin(p, b).out = p.out \o StartCalls(b) /\ Begin(p, b).utf8 = StartText(b)
      /\ Begin(p, b).state = "Ground"
  BY <1>2, BeginDoes
<1>4. p.out \o StartCalls(b) = StartCalls(b)
  <2>1. \E S : StartCalls(b) \in Seq(S)
    <3>1. <<>> \o StartCalls(b) \in Seq(TextCalls)
      BY <1>2, StartCallsSay
    <3> DEFINE none == <<>>
               x == Printed(Replacement)
               y == Executed(b)
               z == Printed(<<b>>)
    <3>2. StartCalls(b) \in {none, <<x>>, <<y>>, <<z>>}
      BY DEF StartCalls
    <3> HIDE DEF x, y, z
    <3> DEFINE S == {x, y, z}
    <3>3. none \in Seq(S) /\ <<x>> \in Seq(S) /\ <<y>> \in Seq(S) /\ <<z>> \in Seq(S)
      OBVIOUS
    <3> HIDE DEF S, none
    <3>4. StartCalls(b) \in Seq(S)
      BY <3>2, <3>3
    <3> QED
      BY <3>4
  <2> DEFINE calls == StartCalls(b)
  <2> HIDE DEF calls
  <2>2. PICK S : calls \in Seq(S)
    BY <2>1 DEF calls
  <2>3. <<>> \o calls = calls
    BY <2>2, ConcatEmptySeq
  <2> QED
    BY <2>3 DEF calls
<1> QED
  BY <1>1, <1>3, <1>4

\* with one that is cut short,
LEMMA MachineCuts ==
  ASSUME NEW p, IsParser(p), p.state = "Ground", p.out = <<>>, p.utf8 # <<>>,
         Len(p.utf8) \in Nat, Len(p.utf8) < Expected(p.utf8[1]),
         NEW b \in Byte, b # ESC, ~IsContinuation(b)
  PROVE  /\ ProcessByte(p, b).out = <<Printed(Replacement)>> \o StartCalls(b)
         /\ ProcessByte(p, b).utf8 = StartText(b) /\ ProcessByte(p, b).state = "Ground"
<1> DEFINE f == Flush(p)
           x == Printed(Replacement)
<1>1. ProcessByte(p, b) = Begin(f, b)
  BY GroundBegins
<1>2. /\ f.out = Append(p.out, Printed(IF IsUtf8(p.utf8) THEN p.utf8 ELSE Replacement))
      /\ f.utf8 = <<>> /\ f.state = "Ground" /\ IsParser(f)
  BY FlushDoes
<1>3. ~IsUtf8(p.utf8)
  <2>1. Len(p.utf8) # Expected(p.utf8[1])
    BY ExpectedRange
  <2> QED
    BY <2>1 DEF IsUtf8
<1> HIDE DEF f
<1>4. x \in TextCalls
  BY SaysIs DEF Replacement
<1>5. f.out = Append(<<>>, x)
  BY <1>2, <1>3
<1> HIDE DEF x
<1>6. f.out = <<x>> /\ f.out \in Seq(TextCalls)
  BY <1>4, <1>5
<1>7. /\ Begin(f, b).out = f.out \o StartCalls(b) /\ Begin(f, b).utf8 = StartText(b)
      /\ Begin(f, b).state = "Ground"
  BY <1>2, <1>6, BeginDoes
<1> QED
  BY <1>1, <1>6, <1>7 DEF x

\* and with one that goes on.
LEMMA MachineContinues ==
  ASSUME NEW p, IsParser(p), p.state = "Ground", p.out = <<>>, p.utf8 \in Seq(Byte), p.utf8 # <<>>,
         Len(p.utf8) < Expected(p.utf8[1]),
         NEW b \in Byte, IsContinuation(b)
  PROVE  /\ ProcessByte(p, b).state = "Ground"
         /\ \/ /\ Len(p.utf8) + 1 < Expected(p.utf8[1])
               /\ ProcessByte(p, b).out = <<>> /\ ProcessByte(p, b).utf8 = Append(p.utf8, b)
            \/ /\ Len(p.utf8) + 1 = Expected(p.utf8[1])
               /\ ProcessByte(p, b).out = <<Printed(CharOf(Append(p.utf8, b)))>>
               /\ ProcessByte(p, b).utf8 = <<>>
<1> DEFINE u == p.utf8
           v == Append(u, b)
           added == [p EXCEPT !.utf8 = v]
<1>1. ProcessByte(p, b) = IF Len(v) = Expected(v[1]) THEN Flush(added) ELSE added
  BY GroundContinues
<1>2. Len(u) \in Nat /\ Len(u) > 0
  BY LenProperties, EmptySeq
<1>3. Len(v) = Len(u) + 1 /\ v[1] = u[1]
  BY <1>2, AppendProperties
<1>4. Expected(u[1]) \in Nat /\ Expected(u[1]) > 0 /\ Len(u) < Expected(u[1])
  BY <1>2, ExpectedRange
<1> HIDE DEF v
<1>5. added.utf8 = v /\ added.state = "Ground" /\ added.out = <<>> /\ IsParser(added)
  BY DEF IsParser
<1> HIDE DEF added
<1>6. CASE Len(u) + 1 = Expected(u[1])
  <2>1. ProcessByte(p, b) = Flush(added)
    BY <1>1, <1>3, <1>6
  <2>2. CharOf(v) = IF IsUtf8(v) THEN v ELSE Replacement
    <3>1. u[1] \in Byte
      BY <1>2, ElementOfSeq
    <3>2. ~(v[1] < 128) /\ Expected(v[1]) > 0
      <4> DEFINE first == u[1]
      <4>1. first \in Byte /\ Expected(first) # 0
        BY <1>4, <3>1
      <4> HIDE DEF first
      <4>2. first >= 128
        BY <4>1, LeadIsPrinted
      <4>3. ~(first < 128)
        BY <4>1, <4>2, NotBelow
      <4> QED
        BY <1>3, <1>4, <4>3 DEF first
    <3> QED
      BY <3>2 DEF CharOf
  <2>3. Flush(added).out = Append(<<>>, Printed(CharOf(v))) /\ Flush(added).utf8 = <<>>
        /\ Flush(added).state = "Ground"
    BY <1>5, <2>2, FlushDoes
  <2> QED
    BY <1>6, <2>1, <2>3 DEF v
<1>7. CASE Len(u) + 1 # Expected(u[1])
  <2>1. ProcessByte(p, b) = added
    BY <1>1, <1>3, <1>7
  <2>2. Len(u) + 1 < Expected(u[1])
    BY <1>2, <1>4, <1>7
  <2> QED
    BY <1>5, <2>1, <2>2 DEF v
<1> QED
  BY <1>6, <1>7

-----------------------------------------------------------------------------
(* Both together. *)

\* Where there was no ESC, the characters heard have been printed, but for the one
\* that is unfinished.
Decoded(p, calls, h) ==
  /\ p.state = "Ground" /\ h \in Seq(Byte) /\ calls \in Seq(TextCalls)
  /\ Pending(h, p.utf8) /\ CharsPrinted(calls) = CharsOf(h)
\* What a byte makes of that.
Decodes(p, calls, h, b) ==
  LET next == ProcessByte(p, b)
  IN  Decoded(next, calls \o next.out, Append(h, b))

\* The first byte after a rest.
LEMMA FirstDecodes ==
  ASSUME NEW p, IsParser(p), p.state = "Ground", p.out = <<>>, p.utf8 = <<>>,
         NEW b \in Byte, b # ESC
  PROVE  Decodes(p, <<>>, <<>>, b)
<1> DEFINE next == ProcessByte(p, b)
           h == <<b>>
           none == <<>>
<1>1. next.out = StartCalls(b) /\ next.utf8 = StartText(b) /\ next.state = "Ground"
  BY MachineStarts
<1>2. CharsOf(h) = StartChars(b) /\ Pending(h, StartText(b))
  BY ReferenceStarts
<1>3. none \in Seq(TextCalls) /\ h \in Seq(Byte) /\ Append(none, b) = h
  OBVIOUS
<1>4. /\ none \o StartCalls(b) \in Seq(TextCalls)
      /\ CharsPrinted(none \o StartCalls(b)) = CharsPrinted(none) \o StartChars(b)
  BY <1>3, StartCallsSay
<1>5. CharsPrinted(none) \o StartChars(b) = StartChars(b)
  <2>1. CharsPrinted(none) = none
    BY PrintsNone
  <2>2. CharsOf(h) \in Seq(Seq(Byte))
    BY <1>3, CharsAre
  <2> DEFINE chars == StartChars(b)
  <2>3. chars \in Seq(Seq(Byte))
    BY <1>2, <2>2
  <2> HIDE DEF chars
  <2>4. <<>> \o chars = chars
    BY <2>3, ConcatEmptySeq
  <2> QED
    BY <2>1, <2>4 DEF chars
<1> HIDE DEF next, h, none
<1>6. Decoded(next, none \o next.out, h)
  BY <1>1, <1>2, <1>3, <1>4, <1>5 DEF Decoded
<1>7. Decodes(p, none, none, b)
  BY <1>3, <1>6 DEF Decodes, next
<1> QED
  BY <1>7 DEF none

\* A byte within a text.
LEMMA NextDecodes ==
  ASSUME NEW p, Sound(p), p.out = <<>>, p.utf8 # <<>>, NEW calls, NEW h, Decoded(p, calls, h),
         NEW b \in Byte, b # ESC
  PROVE  Decodes(p, calls, h, b)
<1> DEFINE next == ProcessByte(p, b)
           u == p.utf8
           g == Append(h, b)
<1>1. /\ IsParser(p) /\ p.state = "Ground" /\ h \in Seq(Byte) /\ calls \in Seq(TextCalls)
      /\ Pending(h, u) /\ CharsPrinted(calls) = CharsOf(h)
      /\ u \in Seq(Byte) /\ Len(u) < Expected(u[1])
  BY DEF Decoded, Sound, TextFits
<1>2. Len(u) \in Nat
  BY <1>1, LenProperties
<1>3. g \in Seq(Byte)
  BY <1>1, OneByteMore
<1>4. \A call \in TextCalls : /\ calls \o <<call>> \in Seq(TextCalls)
                              /\ CharsPrinted(calls \o <<call>>) = CharsOf(h) \o Says(call)
  <2> TAKE call \in TextCalls
  <2>1. Append(calls, call) = calls \o <<call>> /\ Append(calls, call) \in Seq(TextCalls)
    BY <1>1, AppendIsConcat, AppendProperties
  <2>2. CharsPrinted(Append(calls, call)) = CharsPrinted(calls) \o Says(call)
    BY <1>1, PrintsMore
  <2> QED
    BY <1>1, <2>1, <2>2
<1>5. CASE ~IsContinuation(b)
  <2> DEFINE x == Printed(Replacement)
             with == calls \o <<x>>
  <2>1. next.out = <<x>> \o StartCalls(b) /\ next.utf8 = StartText(b) /\ next.state = "Ground"
    BY <1>1, <1>2, <1>5, MachineCuts
  <2>2. CharsOf(g) = (CharsOf(h) \o <<Replacement>>) \o StartChars(b) /\ Pending(g, StartText(b))
    BY <1>1, <1>5, ReferenceCuts
  <2>3. x \in TextCalls /\ Says(x) = <<Replacement>>
    BY SaysIs DEF Replacement
  <2>4. with \in Seq(TextCalls) /\ CharsPrinted(with) = CharsOf(h) \o <<Replacement>>
    BY <1>4, <2>3
  <2>5. /\ with \o StartCalls(b) \in Seq(TextCalls)
        /\ CharsPrinted(with \o StartCalls(b)) = CharsPrinted(with) \o StartChars(b)
    <3> HIDE DEF with
    <3> QED
      BY <2>4, StartCallsSay
  <2>6. calls \o next.out = with \o StartCalls(b)
    <3> DEFINE started == StartCalls(b)
               one == <<x>>
    <3>1. started \in Seq(TextCalls)
      <4>1. <<>> \in Seq(TextCalls)
        OBVIOUS
      <4>2. <<>> \o StartCalls(b) \in Seq(TextCalls)
        BY <4>1, StartCallsSay
      <4>3. StartCalls(b) \in {<<>>, <<x>>, <<Executed(b)>>, <<Printed(<<b>>)>>}
        BY DEF StartCalls
      <4>4. <<b>> \in Seq(Byte)
        OBVIOUS
      <4> DEFINE y == Executed(b)
                 z == Printed(<<b>>)
      <4>5. y \in TextCalls /\ z \in TextCalls
        BY <4>4, SaysIs
      <4> HIDE DEF x, y, z
      <4>6. <<x>> \in Seq(TextCalls) /\ <<y>> \in Seq(TextCalls) /\ <<z>> \in Seq(TextCalls)
        BY <2>3, <4>5
      <4> QED
        BY <4>1, <4>3, <4>6 DEF y, z
    <3>2. one \in Seq(TextCalls)
      <4> HIDE DEF x
      <4> QED
        BY <2>3
    <3> HIDE DEF started, one
    <3>3. (calls \o one) \o started = calls \o (one \o started)
      BY <1>1, <3>1, <3>2, ConcatAssociative
    <3> QED
      BY <2>1, <3>3 DEF started, one
  <2> HIDE DEF next, g, with
  <2>7. Decoded(next, calls \o next.out, g)
    BY <1>3, <2>1, <2>2, <2>4, <2>5, <2>6 DEF Decoded
  <2> QED
    BY <2>7 DEF Decodes, next, g
<1>6. CASE IsContinuation(b)
  <2> DEFINE v == Append(u, b)
  <2>1. /\ next.state = "Ground"
        /\ \/ Len(u) + 1 < Expected(u[1]) /\ next.out = <<>> /\ next.utf8 = v
           \/ Len(u) + 1 = Expected(u[1]) /\ next.out = <<Printed(CharOf(v))>> /\ next.utf8 = <<>>
    BY <1>1, <1>6, MachineContinues
  <2>2. /\ Len(u) + 1 < Expected(u[1]) => CharsOf(g) = CharsOf(h) /\ Pending(g, v)
        /\ Len(u) + 1 = Expected(u[1]) =>
             CharsOf(g) = CharsOf(h) \o <<CharOf(v)>> /\ Pending(g, <<>>)
    BY <1>1, <1>6, ReferenceContinues
  <2>3. v \in Seq(Byte)
    BY <1>1, AppendProperties
  <2>4. CharOf(v) \in Seq(Byte)
    BY <2>3 DEF CharOf, Replacement
  <2> HIDE DEF next, g, v
  <2>5. CASE Len(u) + 1 < Expected(u[1]) /\ next.out = <<>> /\ next.utf8 = v
    <3>1. calls \o next.out = calls
      BY <1>1, <2>5, ConcatEmptySeq
    <3>2. Decoded(next, calls \o next.out, g)
      BY <1>1, <1>3, <2>1, <2>2, <2>5, <3>1 DEF Decoded
    <3> QED
      BY <3>2 DEF Decodes, next, g
  <2>6. CASE Len(u) + 1 = Expected(u[1]) /\ next.out = <<Printed(CharOf(v))>> /\ next.utf8 = <<>>
    <3> DEFINE char == CharOf(v)
               x == Printed(char)
    <3>1. x \in TextCalls /\ Says(x) = <<char>>
      BY <2>4, SaysIs
    <3> HIDE DEF x
    <3>2. calls \o <<x>> \in Seq(TextCalls) /\ CharsPrinted(calls \o <<x>>) = CharsOf(h) \o <<char>>
      BY <1>4, <3>1
    <3>3. next.out = <<x>> /\ CharsOf(g) = CharsOf(h) \o <<char>> /\ Pending(g, <<>>)
      BY <2>2, <2>6 DEF x
    <3> HIDE DEF char
    <3>4. Decoded(next, calls \o next.out, g)
      BY <1>3, <2>1, <2>6, <3>2, <3>3 DEF Decoded
    <3> QED
      BY <3>4 DEF Decodes, next, g
  <2> QED
    BY <2>1, <2>5, <2>6
<1> QED
  BY <1>5, <1>6

\* Text is decoded as UTF-8 wherever reads cut it: of what was heard since the
\* parser last rested, pieces that are whole have been printed, one by one, and the
\* one that waits is what process_utf8 keeps.
THEOREM TextIsAlwaysDecoded == Spec => []TextIsDecoded
<1> DEFINE Quiet == ESC \notin ToSet(heard) => Decoded(parser, events, heard)
           Inv == /\ ParserInv /\ parser.out = <<>> /\ heard \in Seq(Byte)
                  /\ Quiet
<1>1. Init => Inv
  <2> SUFFICES ASSUME Init PROVE Inv
    OBVIOUS
  <2>1. /\ parser = NewParser /\ events = <<>> /\ heard = <<>> /\ alphabet \subseteq Byte
    BY ParserAssumption DEF Init, Byte
  <2>2. NewParser.out = <<>> /\ NewParser.utf8 = <<>> /\ NewParser.state = "Ground"
    BY DEF NewParser
  <2>3. CharsPrinted(<<>>) = CharsOf(<<>>)
    <3> DEFINE none == <<>>
    <3>0. none \in Seq(Byte) /\ Len(none) = 0
      OBVIOUS
    <3> HIDE DEF none
    <3>1. CharsOf(none) = Sum(Chars(none), Len(none)) /\ Chars(none) \in Seq(Seq(Seq(Byte))) /\ Len(none) = 0
          /\ Len(Chars(none)) = 0
      BY <3>0, CharsAre
    <3> DEFINE f == Chars(none)
    <3>2. f \in Seq(Seq(Seq(Byte))) /\ 0 \in 0..Len(f)
      BY <3>1
    <3> HIDE DEF f
    <3>3. Sum(f, 0) = <<>>
      BY <3>2, SumGrows
    <3> QED
      BY <3>1, <3>3, PrintsNone DEF none, f
  <2>4. Pending(<<>>, <<>>)
    BY DEF Pending
  <2>5. Decoded(NewParser, <<>>, <<>>)
    BY <2>2, <2>3, <2>4 DEF Decoded
  <2> QED
    BY <2>1, <2>2, <2>5, NewParserSound DEF ParserInv
<1>2. Inv /\ [Next]_vars => Inv'
  <2> SUFFICES ASSUME Inv, [Next]_vars PROVE Inv'
    OBVIOUS
  <2>1. ASSUME NEW byte \in alphabet, Feed(byte)
        PROVE  Inv'
    <3> DEFINE next == ProcessByte(parser, byte)
               calls == IF Resting THEN <<>> ELSE events
               h == IF Resting THEN <<>> ELSE heard
    <3>1. byte \in Byte /\ Sound(parser) /\ h \in Seq(Byte)
      BY DEF ParserInv
    <3>2. Sound(next)
      BY <3>1, ProcessByteKeeps
    <3>3. /\ parser' = [next EXCEPT !.out = <<>>] /\ alphabet' = alphabet
          /\ events' = calls \o next.out /\ heard' = Append(h, byte)
      BY <2>1 DEF Feed
    <3> HIDE DEF next, calls, h
    <3>4. /\ IsParser(parser') /\ TextFits(parser') /\ parser'.out = <<>>
          /\ parser'.state = next.state /\ parser'.utf8 = next.utf8
      BY <3>2, <3>3 DEF Sound, IsParser, TextFits
    <3>5. Sound(parser')
      <4>1. parser' = [next EXCEPT !.out = <<>>]
        BY <3>3
      <4> QED
        BY <3>2, <4>1, OtherFields DEF Sound, IsParser, TextFits
    <3>6. heard' \in Seq(Byte)
      BY <3>1, <3>3, OneByteMore
    <3>7. ASSUME ESC \notin ToSet(heard')
          PROVE  Decoded(parser', events', heard')
      <4>1. byte # ESC /\ ESC \notin ToSet(h)
        <5>1. /\ Len(heard') = Len(h) + 1 /\ Len(h) \in Nat /\ heard'[Len(h) + 1] = byte
              /\ DOMAIN heard' = 1..Len(heard') /\ DOMAIN h = 1..Len(h)
              /\ \A i \in 1..Len(h) : heard'[i] = h[i]
          BY <3>1, <3>3, <3>6, OneByteMore, LenProperties
        <5>2. \A i \in 1..(Len(h) + 1) : heard'[i] # ESC
          BY <3>7, <5>1 DEF ToSet
        <5>3. Len(h) + 1 \in 1..(Len(h) + 1) /\ \A i \in 1..Len(h) : i \in 1..(Len(h) + 1)
          BY <5>1
        <5> QED
          BY <5>1, <5>2, <5>3 DEF ToSet
      <4>2. CASE Resting
        <5>1. parser.state = "Ground" /\ parser.utf8 = <<>> /\ calls = <<>> /\ h = <<>>
          BY <4>2 DEF Resting, calls, h
        <5>2. Decodes(parser, <<>>, <<>>, byte)
          BY <3>1, <4>1, <5>1, FirstDecodes DEF Sound
        <5>3. Decoded(next, calls \o next.out, Append(h, byte))
          BY <5>1, <5>2 DEF Decodes, next
        <5> QED
          BY <3>3, <3>4, <5>3 DEF Decoded
      <4>3. CASE ~Resting
        <5>1. calls = events /\ h = heard
          BY <4>3 DEF calls, h
        <5>2. Decoded(parser, events, heard)
          BY <4>1, <5>1
        <5>3. parser.utf8 # <<>>
          BY <4>3, <5>2 DEF Resting, Decoded
        <5>4. Decodes(parser, events, heard, byte)
          BY <3>1, <4>1, <5>2, <5>3, NextDecodes
        <5>5. Decoded(next, calls \o next.out, Append(h, byte))
          BY <5>1, <5>4 DEF Decodes, next
        <5> QED
          BY <3>3, <3>4, <5>5 DEF Decoded
      <4> QED
        BY <4>2, <4>3
    <3> QED
      BY <3>1, <3>3, <3>4, <3>5, <3>6, <3>7 DEF ParserInv
  <2>2. CASE UNCHANGED vars
    BY <2>2 DEF vars, ParserInv
  <2> QED
    BY <2>1, <2>2 DEF Next
<1>3. Inv => TextIsDecoded
  BY DEF TextIsDecoded, Decoded
<1> QED
  BY <1>1, <1>2, <1>3, PTL DEF Spec
=============================================================================
