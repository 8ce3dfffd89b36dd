-------------------------------- MODULE Parser --------------------------------
(***************************************************************************)
(* The parser of what an application writes to its terminal (parser.rs,    *)
(* parser/table.rs, params.rs): a machine of fourteen states that is fed   *)
(* one byte at a time, so that a read may end anywhere, and the assembler  *)
(* of UTF-8 characters in front of it.                                     *)
(*                                                                         *)
(* Bytes are numbers. The parser is a record, and what it does with a byte *)
(* a function of the two.                                                  *)
(***************************************************************************)
EXTENDS Integers, SequencesExt, FiniteSetsExt

CONSTANTS
  Alphabets,         \* sets of bytes an application may confine itself to
  MaxParams,         \* MAX_PARAMS, and MAX_OSC_PARAMS, 16
  MaxNumber,         \* u16::MAX
  MaxIntermediates,  \* 2
  MaxString,         \* MAX_OSC_LEN and MAX_DCS_LEN, 65 536
  Probes,            \* sequences that may follow anything
  MaxHeard           \* bound of the model: bytes of one sequence

ASSUME ParserAssumption ==
  /\ \A alphabet \in Alphabets : alphabet \subseteq 0..255
  /\ MaxParams \in Nat /\ MaxParams > 0 /\ MaxNumber \in Nat /\ MaxIntermediates \in Nat
  /\ MaxString \in Nat /\ MaxHeard \in Nat

CAN == 24
SUB == 26
ESC == 27
DEL == 127
BEL == 7
ST == 156         \* the single-byte string terminator
Semicolon == 59
Backslash == 92

\* The classes of bytes the table tells apart.
Controls == 0..31 \ {CAN, SUB, ESC}
Intermediates == 32..47
Digits == 48..57
ParamBytes == Digits \cup {Semicolon}
Privates == 60..63
Finals == 64..126
StringStarts == {80, 88, 93, 94, 95}   \* P X ] ^ _

States == {"Ground", "Escape", "EscapeIntermediate", "CsiEntry", "CsiParam",
           "CsiIntermediate", "CsiIgnore", "DcsEntry", "DcsParam", "DcsIntermediate",
           "DcsPassthrough", "DcsIgnore", "OscString", "SosPmApcString"}

\* A probe begins with an ESC, and does not go on as the ESC \ that ends the string
\* the ESC has interrupted: that is still waited for behind bytes of these kinds.
StillWaiting == Controls \cup Intermediates \cup {ESC, DEL}
ASSUME ProbesAssumption ==
  \A probe \in Probes :
    /\ probe \in Seq(0..255) /\ probe # <<>> /\ probe[1] = ESC
    /\ \A k \in 2..Len(probe) :
         probe[k] = Backslash => \E j \in 2..(k - 1) : probe[j] \notin StillWaiting

VARIABLES
  alphabet,  \* the bytes of this behaviour
  parser,    \* Parser
  events,    \* what the performer was called with since the parser last rested
  heard      \* auxiliary: the bytes since then

vars == <<alphabet, parser, events, heard>>

-----------------------------------------------------------------------------
(* Events *)

Replacement == <<>>
Printed(char) == [kind |-> "print", char |-> char]
Executed(byte) == [kind |-> "execute", byte |-> byte]
Csi(params, intermediates, final) ==
  [kind |-> "csi", params |-> params, intermediates |-> intermediates, final |-> final]
Esc(intermediates, final) == [kind |-> "esc", intermediates |-> intermediates, final |-> final]
Osc(parts) == [kind |-> "osc", parts |-> parts]
Dcs(params, intermediates, final, data) ==
  [kind |-> "dcs", params |-> params, intermediates |-> intermediates, final |-> final,
   data |-> data]

\* A call of the performer.
Emit(p, event) == [p EXCEPT !.out = Append(p.out, event)]

-----------------------------------------------------------------------------
(* Parameters: the finished ones, the one in progress, whether there is one. *)

NoParams == [values |-> <<>>, current |-> 0, has |-> FALSE]
PushParam(params) ==
  IF Len(params.values) < MaxParams THEN Append(params.values, params.current) ELSE params.values

\* add_digit, finish_param and finalize
AddDigit(params, digit) ==
  [params EXCEPT !.current = Min({MaxNumber, params.current * 10 + digit}), !.has = TRUE]
FinishParam(params) == [values |-> PushParam(params), current |-> 0, has |-> TRUE]
Finalized(params) == IF params.has THEN PushParam(params) ELSE params.values

-----------------------------------------------------------------------------
(* Text *)

\* How many bytes a character has that begins with this one, 0 if none does.
Expected(byte) ==
  IF byte \in 192..223 THEN 2 ELSE IF byte \in 224..239 THEN 3
  ELSE IF byte \in 240..247 THEN 4 ELSE 0
IsContinuation(byte) == byte \in 128..191

\* str::from_utf8 on bytes that begin with a leading byte and go on with
\* continuations.
IsUtf8(bytes) ==
  /\ Len(bytes) = Expected(bytes[1])
  /\ \/ bytes[1] \in (194..223) \cup (225..236) \cup {238, 239} \cup (241..243)
     \/ bytes[1] = 224 /\ bytes[2] \in 160..191
     \/ bytes[1] = 237 /\ bytes[2] \in 128..159
     \/ bytes[1] = 240 /\ bytes[2] \in 144..191
     \/ bytes[1] = 244 /\ bytes[2] \in 128..143

\* flush_utf8
Flush(p) ==
  [Emit(p, Printed(IF IsUtf8(p.utf8) THEN p.utf8 ELSE Replacement)) EXCEPT !.utf8 = <<>>]

\* Mutant: the assembly does not end at a leading byte.
ProcessUtf8_TakesAnything(p, byte) ==
  LET begun == [p EXCEPT !.utf8 = Append(p.utf8, byte)]
  IN IF p.utf8 = <<>> /\ Expected(byte) = 0 THEN Emit(p, Printed(Replacement))
     ELSE IF Len(begun.utf8) = Expected(begun.utf8[1]) THEN Flush(begun) ELSE begun

\* process_utf8
ProcessUtf8(p, byte) ==
  LET begin(q) == IF Expected(byte) = 0 THEN Emit(q, Printed(Replacement))
                  ELSE [q EXCEPT !.utf8 = <<byte>>]
      added == [p EXCEPT !.utf8 = Append(p.utf8, byte)]
  IN IF p.utf8 = <<>> THEN begin(p)
     ELSE IF ~IsContinuation(byte) THEN begin(Flush(p))
     ELSE IF Len(added.utf8) = Expected(added.utf8[1]) THEN Flush(added) ELSE added

-----------------------------------------------------------------------------
(* The table *)

Go(action, next) == [action |-> action, next |-> next]

\* CsiEntry, CsiParam and CsiIntermediate differ in what may still come.
InCsi(state, byte) ==
  CASE byte \in Controls -> Go("Execute", state)
    [] byte \in Intermediates -> Go("Collect", "CsiIntermediate")
    [] byte \in ParamBytes /\ state # "CsiIntermediate" -> Go("Param", "CsiParam")
    [] byte \in Privates /\ state = "CsiEntry" -> Go("Collect", "CsiParam")
    [] byte \in Finals -> Go("CsiDispatch", "Ground")
    [] OTHER -> Go("Ignore", "CsiIgnore")

InDcs(state, byte) ==
  CASE byte \in Controls -> Go("Ignore", state)
    [] byte \in Intermediates -> Go("Collect", "DcsIntermediate")
    [] byte \in ParamBytes /\ state # "DcsIntermediate" -> Go("Param", "DcsParam")
    [] byte \in Privates /\ state = "DcsEntry" -> Go("Collect", "DcsParam")
    [] byte \in Finals -> Go("Hook", "DcsPassthrough")
    [] OTHER -> Go("Ignore", "DcsIgnore")

InEscape(byte) ==
  CASE byte \in Controls -> Go("Execute", "Escape")
    [] byte \in Intermediates -> Go("Collect", "EscapeIntermediate")
    [] byte = 80 -> Go("None", "DcsEntry")
    [] byte = 91 -> Go("None", "CsiEntry")
    [] byte = 93 -> Go("OscStart", "OscString")
    [] byte \in {88, 94, 95} -> Go("None", "SosPmApcString")
    [] byte \in (48..126) \ (StringStarts \cup {91}) -> Go("EscDispatch", "Ground")
    [] OTHER -> Go("Ignore", "Ground")

InEscapeIntermediate(byte) ==
  CASE byte \in Controls -> Go("Execute", "EscapeIntermediate")
    [] byte \in Intermediates -> Go("Collect", "EscapeIntermediate")
    [] byte \in 48..126 -> Go("EscDispatch", "Ground")
    [] OTHER -> Go("Ignore", "Ground")

InString(state, byte) ==
  CASE state = "DcsPassthrough" ->
         IF byte = ST THEN Go("Unhook", "Ground")
         ELSE Go(IF byte \in Controls \cup 32..126 THEN "Put" ELSE "Ignore", state)
    [] state = "OscString" ->
         IF byte \in {BEL, ST} THEN Go("OscEnd", "Ground")
         ELSE Go(IF byte \in (32..126) \cup (160..255) THEN "OscPut" ELSE "Ignore", state)
    [] OTHER -> Go("Ignore", IF byte = ST THEN "Ground" ELSE state)

\* Mutant: a cancelled sequence goes on.
Transition_CancelOnlyExecutes(state, byte) ==
  CASE byte \in {CAN, SUB} -> Go("Execute", state)
    [] byte = ESC -> Go("None", "Escape")
    [] byte = DEL -> Go("Ignore", state)
    [] state = "Ground" -> Go(IF byte \in Controls THEN "Execute" ELSE "Print", "Ground")
    [] state = "Escape" -> InEscape(byte)
    [] state = "EscapeIntermediate" -> InEscapeIntermediate(byte)
    [] state \in {"CsiEntry", "CsiParam", "CsiIntermediate"} -> InCsi(state, byte)
    [] state = "CsiIgnore" -> IF byte \in Controls THEN Go("Execute", state)
                              ELSE Go("Ignore", IF byte \in Finals THEN "Ground" ELSE state)
    [] state \in {"DcsEntry", "DcsParam", "DcsIntermediate"} -> InDcs(state, byte)
    [] OTHER -> InString(state, byte)

\* transition. In Ground only bytes below 128 come here: the others are text.
Transition(state, byte) ==
  CASE byte \in {CAN, SUB} -> Go("Execute", "Ground")
    [] byte = ESC -> Go("None", "Escape")
    [] byte = DEL -> Go("Ignore", state)
    [] OTHER ->
  CASE state = "Ground" -> Go(IF byte \in Controls THEN "Execute" ELSE "Print", "Ground")
    [] state = "Escape" -> InEscape(byte)
    [] state = "EscapeIntermediate" -> InEscapeIntermediate(byte)
    [] state \in {"CsiEntry", "CsiParam", "CsiIntermediate"} -> InCsi(state, byte)
    [] state = "CsiIgnore" -> IF byte \in Controls THEN Go("Execute", state)
                              ELSE Go("Ignore", IF byte \in Finals THEN "Ground" ELSE state)
    [] state \in {"DcsEntry", "DcsParam", "DcsIntermediate"} -> InDcs(state, byte)
    [] OTHER -> InString(state, byte)

-----------------------------------------------------------------------------
(* Actions of the table *)

Collect(p, byte) ==
  IF Len(p.intermediates) < MaxIntermediates
    THEN [p EXCEPT !.intermediates = Append(p.intermediates, byte)] ELSE p

\* dispatch_osc: the string at its semicolons, which are not in the buffer.
Parts(p) ==
  LET cuts == <<0>> \o p.splits \o <<Len(p.osc)>>
  IN [i \in 1..Min({MaxParams, Len(cuts) - 1}) |-> SubSeq(p.osc, cuts[i] + 1, cuts[i + 1])]

\* OscPut: a full buffer still takes note of semicolons.
OscPut(p, byte) ==
  IF byte = Semicolon THEN [p EXCEPT !.splits = Append(p.splits, Len(p.osc))]
  ELSE IF Len(p.osc) < MaxString THEN [p EXCEPT !.osc = Append(p.osc, byte)] ELSE p

Put(p, byte) == IF Len(p.dcs) < MaxString THEN [p EXCEPT !.dcs = Append(p.dcs, byte)] ELSE p

\* EscDispatch: a backslash ends the string the ESC interrupted.
EscDispatch(p, byte) ==
  CASE byte = Backslash /\ p.prev = "OscString" -> Emit(p, Osc(Parts(p)))
    [] byte = Backslash /\ p.prev = "DcsPassthrough" ->
         [Emit(p, Dcs(p.params.values, p.intermediates, 0, p.dcs)) EXCEPT !.dcs = <<>>]
    [] OTHER -> Emit(p, Esc(p.intermediates, byte))

\* Unhook: the last intermediate is taken for the final byte Hook has put there.
Unhook(p) ==
  LET given == p.intermediates # <<>>
      params == Finalized(p.params)
      event == Dcs(params, IF given THEN Front(p.intermediates) ELSE <<>>,
                   IF given THEN Last(p.intermediates) ELSE 0, p.dcs)
  IN [Emit(p, event) EXCEPT !.dcs = <<>>, !.params.values = params]

CsiDispatch(p, byte) ==
  LET params == Finalized(p.params)
  IN [Emit(p, Csi(params, p.intermediates, byte)) EXCEPT !.params.values = params]

\* perform_action
Perform(p, action, byte) ==
  CASE action = "Print" -> Emit(p, Printed(<<byte>>))
    [] action = "Execute" -> Emit(p, Executed(byte))
    [] action \in {"Collect", "Hook"} -> Collect(p, byte)
    [] action = "Param" ->
         [p EXCEPT !.params = IF byte = Semicolon THEN FinishParam(p.params)
                                                  ELSE AddDigit(p.params, byte - 48)]
    [] action = "EscDispatch" -> EscDispatch(p, byte)
    [] action = "CsiDispatch" -> CsiDispatch(p, byte)
    [] action = "Put" -> Put(p, byte)
    [] action = "Unhook" -> Unhook(p)
    [] action = "OscPut" -> OscPut(p, byte)
    [] action = "OscEnd" -> Emit(p, Osc(Parts(p)))
    [] OTHER -> p

\* Mutant: parameters are cleared where a sequence ends, not where one begins.
Enter_KeepsParams(p, next) ==
  CASE next \in {"Escape", "CsiEntry", "DcsEntry"} -> [p EXCEPT !.intermediates = <<>>]
    [] next = "OscString" -> [p EXCEPT !.osc = <<>>, !.splits = <<>>]
    [] OTHER -> p

\* perform_entry_action, and OscStart, which clears what the entry has cleared.
Enter(p, next) ==
  CASE next \in {"Escape", "CsiEntry"} -> [p EXCEPT !.intermediates = <<>>, !.params = NoParams]
    [] next = "DcsEntry" -> [p EXCEPT !.intermediates = <<>>, !.params = NoParams, !.dcs = <<>>]
    [] next = "OscString" -> [p EXCEPT !.osc = <<>>, !.splits = <<>>]
    [] OTHER -> p

\* process_byte
ProcessByte(p, byte) ==
  IF p.state = "Ground" /\ byte >= 128 THEN ProcessUtf8(p, byte)
  ELSE LET flushed == IF p.utf8 # <<>> THEN Flush(p) ELSE p
           go == Transition(p.state, byte)
           left == IF go.next = "Escape" /\ p.state # "Escape"
                     THEN [flushed EXCEPT !.prev = p.state] ELSE flushed
           entered == IF go.next # p.state THEN Enter(left, go.next) ELSE left
       IN [Perform(entered, go.action, byte) EXCEPT !.state = go.next]

\* Parser::new, with what the performer is called with.
NewParser ==
  [state |-> "Ground", prev |-> "Ground", params |-> NoParams, intermediates |-> <<>>,
   osc |-> <<>>, splits |-> <<>>, dcs |-> <<>>, utf8 |-> <<>>, out |-> <<>>]

\* Parser::advance
Advance(p, bytes) ==
  LET after[n \in 0..Len(bytes)] == IF n = 0 THEN p ELSE ProcessByte(after[n - 1], bytes[n])
  IN after[Len(bytes)]

-----------------------------------------------------------------------------
Init ==
  /\ alphabet \in Alphabets
  /\ parser = NewParser /\ events = <<>> /\ heard = <<>>

\* Nothing is pending.
Resting == parser.state = "Ground" /\ parser.utf8 = <<>>

\* One byte of what the application writes. The calls of the performer are
\* handed over as they are made.
Feed(byte) ==
  /\ Resting \/ Len(heard) < MaxHeard
  /\ LET next == ProcessByte(parser, byte)
     IN /\ parser' = [next EXCEPT !.out = <<>>]
        /\ events' = (IF Resting THEN <<>> ELSE events) \o next.out
  /\ heard' = Append(IF Resting THEN <<>> ELSE heard, byte)
  /\ UNCHANGED alphabet

Next == \E byte \in alphabet : Feed(byte)

Spec == Init /\ [][Next]_vars
-----------------------------------------------------------------------------
(* What a byte stream means, said without the machine. *)

SplitAt(text) ==
  LET cuts == SetToSortSeq({0, Len(text) + 1} \cup {i \in DOMAIN text : text[i] = Semicolon},
                           LAMBDA i, j : i < j)
  IN [k \in 1..(Len(cuts) - 1) |-> SubSeq(text, cuts[k] + 1, cuts[k + 1] - 1)]
UpTo(n, seq) == SubSeq(seq, 1, Min({n, Len(seq)}))
NumberOf(digits) == Min({MaxNumber, FoldLeft(LAMBDA n, d : 10 * n + d - 48, 0, digits)})

\* The bytes behind the last ESC, and those of them that are not controls.
LastEsc(bytes) == Max({0} \cup {i \in DOMAIN bytes : bytes[i] = ESC})
AfterEsc(bytes) == SubSeq(bytes, LastEsc(bytes) + 1, Len(bytes))
Plain(bytes) == SelectSeq(bytes, LAMBDA byte : byte \notin Controls \cup {DEL})

\* A private byte, parameters, intermediates and a final byte, in this order; i
\* and j are where the parameters and the intermediates begin.
WellFormed(body, i, j) ==
  /\ i \in {1, 2} /\ i <= j /\ j <= Len(body) /\ Last(body) \in Finals
  /\ i = 2 => body[1] \in Privates
  /\ \A k \in i..(j - 1) : body[k] \in ParamBytes
  /\ \A k \in j..(Len(body) - 1) : body[k] \in Intermediates
CsiMeanings(body) ==
  LET given(i, j) == IF i = j THEN <<>> ELSE SplitAt(SubSeq(body, i, j - 1))
      meaning(i, j) ==
        Csi(UpTo(MaxParams, [k \in DOMAIN given(i, j) |-> NumberOf(given(i, j)[k])]),
            UpTo(MaxIntermediates, SubSeq(body, 1, i - 1) \o SubSeq(body, j, Len(body) - 1)),
            Last(body))
  IN  {meaning(cut[1], cut[2]) :
         cut \in {c \in (1..2) \X (1..Len(body)) : WellFormed(body, c[1], c[2])}}

\* A string that is open: which kind, and what is in it. The header of a DCS
\* string ends with the first byte that can end it.
Header(body) == {k \in DOMAIN body : body[k] \in Finals /\ \A i \in 1..(k - 1) : body[i] \notin Finals}
OpenString(bytes) ==
  LET after == AfterEsc(bytes)
      starts == {k \in DOMAIN after : Plain(SubSeq(after, 1, k)) = <<after[k]>>}
      start == Min(starts)
      rest == SubSeq(after, start + 1, Len(after))
      hooks == {k \in Header(rest) :
                  \E i, j \in 1..k : WellFormed(Plain(SubSeq(rest, 1, k)), i, j)}
  IN CASE LastEsc(bytes) = 0 \/ starts = {} -> [kind |-> "none", text |-> <<>>]
       [] LastEsc(bytes) > 0 /\ starts # {} /\ after[start] = 93 -> [kind |-> "osc", text |-> rest]
       [] LastEsc(bytes) > 0 /\ starts # {} /\ after[start] = 80 /\ hooks # {} ->
            [kind |-> "dcs", text |-> SubSeq(rest, Min(hooks) + 1, Len(rest))]
       [] OTHER -> [kind |-> "none", text |-> <<>>]

\* The meaning of a string. The limit counts what is between the semicolons.
StringMeaning(string) ==
  IF string.kind = "dcs"
    THEN <<"dcs", UpTo(MaxString, SelectSeq(string.text, LAMBDA b : b \in Controls \cup 32..126))>>
  ELSE LET text == SelectSeq(string.text, LAMBDA b : b \in (32..126) \cup (160..255))
           kept == {i \in DOMAIN text : text[i] = Semicolon
                      \/ Cardinality({k \in 1..i : text[k] # Semicolon}) <= MaxString}
           short == [k \in 1..Cardinality(kept) |->
                       text[CHOOSE i \in kept : Cardinality({m \in kept : m <= i}) = k]]
       IN <<"osc", UpTo(MaxParams, SplitAt(short))>>

\* What the ESC of a terminator has interrupted: the bytes before it and before
\* the controls and further ESCs in front of it.
Interrupted(bytes) ==
  LET run == {i \in DOMAIN bytes : bytes[i] = ESC /\ i <= LastEsc(bytes)
                /\ \A k \in i..LastEsc(bytes) : bytes[k] \in Controls \cup {ESC, DEL}}
  IN IF run = {} THEN <<>> ELSE SubSeq(bytes, 1, Min(run) - 1)

\* The one sequence that ends with the last byte, if one does.
Dispatched(bytes) ==
  LET body == Plain(AfterEsc(bytes))
      last == bytes[Len(bytes)]
      inner == SubSeq(body, 1, Len(body) - 1)
      open == OpenString(Front(bytes))
      cut == OpenString(Interrupted(bytes))
      isEsc == /\ LastEsc(bytes) > 0 /\ last \in 48..126
               /\ \A k \in DOMAIN inner : inner[k] \in Intermediates
               /\ inner = <<>> => last \notin StringStarts \cup {91}
  IN IF open.kind = "osc" THEN IF last \in {BEL, ST} THEN {StringMeaning(open)} ELSE {}
     ELSE IF open.kind = "dcs" THEN IF last = ST THEN {StringMeaning(open)} ELSE {}
     ELSE IF isEsc
       THEN {IF last = Backslash /\ cut.kind # "none" THEN StringMeaning(cut)
             ELSE Esc(UpTo(MaxIntermediates, inner), last)}
     ELSE IF LastEsc(bytes) > 0 /\ body # <<>> /\ body[1] = 91 /\ last = Last(body)
       THEN CsiMeanings(SubSeq(body, 2, Len(body)))
     ELSE {}

\* The header of a DCS string is not compared.
Said(event) ==
  CASE event.kind = "osc" -> <<"osc", event.parts>>
    [] event.kind = "dcs" -> <<"dcs", event.data>>
    [] OTHER -> event

\* The pieces of a text: a leading byte with the continuations that belong to it,
\* or a byte by itself.
PieceFrom(bytes, i) ==
  LET fits(n) == /\ n = 1 \/ n <= Expected(bytes[i])
                 /\ \A k \in (i + 1)..(i + n - 1) : IsContinuation(bytes[k])
  IN Max({n \in 1..(Len(bytes) - i + 1) : fits(n)})
CharOf(piece) ==
  IF piece[1] < 128 \/ (Expected(piece[1]) > 0 /\ IsUtf8(piece)) THEN piece ELSE Replacement

\* What the piece that begins at a byte says: a character, but nothing while it can
\* gain a further byte, of a control, or where the byte is within another piece.
CharFrom(bytes, i) ==
  LET n == PieceFrom(bytes, i)
      within == \E j \in 1..(i - 1) : i < j + PieceFrom(bytes, j)
      waits == i + n > Len(bytes) /\ n < Expected(bytes[i])
  IN IF within \/ waits \/ bytes[i] \in Controls \cup {CAN, SUB, DEL} THEN <<>>
     ELSE <<CharOf(SubSeq(bytes, i, i + n - 1))>>
CharsOf(bytes) == FlattenSeq([i \in DOMAIN bytes |-> CharFrom(bytes, i)])
CharsPrinted(calls) ==
  FlattenSeq([i \in DOMAIN calls |-> IF calls[i].kind = "print" THEN <<calls[i].char>> ELSE <<>>])

OfKind(kinds) == SelectSeq(events, LAMBDA event : event.kind \in kinds)
-----------------------------------------------------------------------------
(* Properties. *)

\* No index leaves the buffer it points into, which would be a panic: the fixed
\* arrays hold what is put in them, a character is flushed before its fifth byte,
\* and the cuts of an OSC string are in order and inside its text.
TypeOK ==
  /\ parser.state \in States /\ parser.prev \in States
  /\ Len(parser.params.values) <= MaxParams /\ parser.params.current <= MaxNumber
  /\ Len(parser.intermediates) <= MaxIntermediates
  /\ Len(parser.osc) <= MaxString /\ Len(parser.dcs) <= MaxString
  /\ Len(parser.utf8) < 4
  /\ \A i, j \in DOMAIN parser.splits :
       i <= j => parser.splits[i] <= parser.splits[j] /\ parser.splits[j] <= Len(parser.osc)

\* Text is decoded as UTF-8 wherever reads cut it: a character for each valid
\* encoding, and one replacement for each piece that is none, however it ends.
TextIsDecoded == ESC \notin ToSet(heard) => CharsPrinted(events) = CharsOf(heard)

\* A sequence is dispatched when its last byte is heard, with exactly the
\* parameters, the intermediates and the text it has, and nothing else is: no
\* part of one that was cancelled, interrupted or malformed.
SequencesMeanWhatTheySay ==
  heard # <<>> /\ LastEsc(heard) > 0 =>
    ToSet([i \in DOMAIN OfKind({"csi", "esc", "osc", "dcs"}) |->
             Said(OfKind({"csi", "esc", "osc", "dcs"})[i])])
      = IF Resting THEN Dispatched(heard) ELSE {}

\* Whatever the parser is in the middle of, what begins with an ESC does what it
\* does at the start, call by call: no parameter, intermediate or text is left
\* over, and of a character that is cut short one replacement.
CutShort == IF parser.utf8 = <<>> THEN <<>> ELSE <<Printed(Replacement)>>
NothingIsLeftOver ==
  \A probe \in Probes :
    Advance(parser, probe).out = CutShort \o Advance(NewParser, probe).out
=============================================================================
