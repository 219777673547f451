-------------------------- MODULE FileReaderProofs --------------------------
(*****************************************************************************)
(* Theorems about what reads a file of the library, for every limit and      *)
(* every input: the descent of MetadataReader keeps its stack and implements *)
(* JsonGrammar, JsonString decodes the string that is written, DecimalToken  *)
(* returns the number that is written, and Sha256Stream hashes the file.     *)
(*****************************************************************************)
EXTENDS MetadataReader, JsonString, DecimalToken, Sha256Stream,
        SequenceTheorems, WellFoundedInduction, TLAPS

-----------------------------------------------------------------------------
(* Sequences. *)

LEMMA FunctionIsSeq ==
    ASSUME NEW S, NEW n \in Nat, NEW g \in [1..n -> S]
    PROVE  g \in Seq(S) /\ Len(g) = n
<1>1. g \in Seq(S)
  BY SeqDef
<1>2. Len(g) \in Nat /\ DOMAIN g = 1..Len(g) /\ DOMAIN g = 1..n
  BY <1>1, LenProperties
<1>3. \A l, m \in Nat : 1..l = 1..m => l = m
  OBVIOUS
<1>. QED BY <1>1, <1>2, <1>3

LEMMA NextNatural == \A n \in Nat : n + 1 \in Nat
OBVIOUS

LEMMA LastIndex == \A n \in Nat : \A i \in 1..(n + 1) : i = n + 1 \/ i \in 1..n
OBVIOUS

\* What Front and Last are, for any sequence that is not empty.
LEMMA FrontLast ==
    ASSUME NEW S, NEW s \in Seq(S), s # <<>>
    PROVE  /\ Front(s) \in Seq(S)
           /\ Len(Front(s)) = Len(s) - 1
           /\ \A i \in 1..(Len(s) - 1) : Front(s)[i] = s[i]
           /\ Last(s) = s[Len(s)]
<1>1. Len(s) \in Nat \ {0}
  BY EmptySeq
<1>. DEFINE n == Len(s) - 1
            r == SubSeq(s, 1, n)
<1>2. \A i \in 1..n : s[i] \in S
  BY <1>1, ElementOfSeq
<1>3. 1 \in Int /\ n \in Int /\ n >= 0
  BY <1>1
<1>4. /\ r \in Seq(S)
      /\ Len(r) = IF 1 <= n THEN n - 1 + 1 ELSE 0
      /\ \A i \in 1..(n - 1 + 1) : r[i] = s[1 + i - 1]
  <2>. HIDE DEF n
  <2>. QED BY <1>2, <1>3, SubSeqProperties
<1>5. Len(r) = n /\ \A i \in 1..n : r[i] = s[i]
  <2>. HIDE DEF n, r
  <2>1. n - 1 + 1 = n /\ (n = 0 \/ 1 <= n)
    BY <1>3
  <2>2. Len(r) = n
    BY <1>3, <1>4, <2>1
  <2>3. \A i \in 1..n : 1 + i - 1 = i
    OBVIOUS
  <2>. QED BY <1>4, <2>1, <2>2, <2>3
<1>6. Front(s) = r /\ Last(s) = s[Len(s)]
  BY DEF Front, Last
<1>. QED BY <1>4, <1>5, <1>6

-----------------------------------------------------------------------------
(* The stack.  It belongs to a call of parse_root_object: the first frame,   *)
(* and no other, is its own.                                                 *)

Frame == {"root", "metadata", "object", "array"}

StackOK(s) == s \in Seq(Frame) /\ \A i \in 1..Len(s) : s[i] = "root" <=> i = 1

\* parse_root_object is called.
LEMMA RootFrame == Len(<<"root">>) = 1 /\ <<"root">> # <<>> /\ StackOK(<<"root">>)
<1>1. Len(<<"root">>) = 1 /\ <<"root">>[1] = "root"
  OBVIOUS
<1>2. <<"root">> \in Seq(Frame)
  BY DEF Frame
<1>3. <<"root">> # <<>>
  BY <1>1, EmptySeq
<1>4. \A i \in 1..1 : i = 1
  OBVIOUS
<1>. QED BY <1>1, <1>2, <1>3, <1>4 DEF StackOK

\* A function that is not parse_root_object is called.
LEMMA PushFrame ==
    ASSUME NEW s, StackOK(s), s # <<>>, NEW f \in Frame \ {"root"}
    PROVE  /\ StackOK(Append(s, f))
           /\ Append(s, f) # <<>>
           /\ Len(Append(s, f)) = Len(s) + 1
<1>1. s \in Seq(Frame) /\ f \in Frame /\ f # "root"
  BY DEF StackOK
<1>2. Len(s) \in Nat \ {0}
  BY <1>1, EmptySeq
<1>3. /\ Append(s, f) \in Seq(Frame)
      /\ Append(s, f) # <<>>
      /\ Len(Append(s, f)) = Len(s) + 1
      /\ \A i \in 1..Len(s) : Append(s, f)[i] = s[i]
      /\ Append(s, f)[Len(s) + 1] = f
  BY <1>1, AppendProperties
<1>4. ASSUME NEW i \in 1..Len(Append(s, f))
      PROVE  Append(s, f)[i] = "root" <=> i = 1
  <2>1. CASE i = Len(s) + 1
    BY <1>1, <1>2, <1>3, <2>1
  <2>2. CASE i \in 1..Len(s)
    BY <1>3, <2>2 DEF StackOK
  <2>. QED BY <1>2, <1>3, <1>4, <2>1, <2>2
<1>. QED BY <1>3, <1>4 DEF StackOK

\* The innermost function returns.
LEMMA PopFrame ==
    ASSUME NEW s, StackOK(s), s # <<>>
    PROVE  /\ StackOK(Front(s))
           /\ Len(Front(s)) = Len(s) - 1
           /\ Front(s) = <<>> <=> Len(s) = 1
<1>1. s \in Seq(Frame) /\ Len(s) \in Nat \ {0}
  BY EmptySeq DEF StackOK
<1>2. /\ Front(s) \in Seq(Frame)
      /\ Len(Front(s)) = Len(s) - 1
      /\ \A i \in 1..(Len(s) - 1) : Front(s)[i] = s[i]
  BY <1>1, FrontLast
<1>3. StackOK(Front(s))
  BY <1>1, <1>2 DEF StackOK
<1>4. Front(s) = <<>> <=> Len(Front(s)) = 0
  BY <1>2, EmptySeq
<1>. QED BY <1>1, <1>2, <1>3, <1>4

-----------------------------------------------------------------------------
(* The depths that the functions on the stack were given. *)

Count(n) == [i \in 1..n |-> i]

LEMMA CountSeq ==
    ASSUME NEW n \in Nat
    PROVE  /\ Count(n) \in Seq(Nat)
           /\ Len(Count(n)) = n
           /\ \A i \in 1..n : Count(n)[i] = i
<1>1. Count(n) \in [1..n -> Nat]
  BY DEF Count
<1>2. Count(n) \in Seq(Nat) /\ Len(Count(n)) = n
  BY <1>1, FunctionIsSeq
<1>. QED BY <1>2 DEF Count

LEMMA CountPush ==
    ASSUME NEW n \in Nat
    PROVE  Append(Count(n), n + 1) = Count(n + 1)
<1>1. n + 1 \in Nat /\ \A i \in 1..(n + 1) : i = n + 1 \/ i \in 1..n
  BY LastIndex
<1>2. /\ Count(n) \in Seq(Nat)
      /\ Len(Count(n)) = n
      /\ \A i \in 1..n : Count(n)[i] = i
  BY CountSeq
<1>3. /\ Count(n + 1) \in Seq(Nat)
      /\ Len(Count(n + 1)) = n + 1
      /\ \A i \in 1..(n + 1) : Count(n + 1)[i] = i
  BY <1>1, CountSeq
<1>4. /\ Append(Count(n), n + 1) \in Seq(Nat)
      /\ Len(Append(Count(n), n + 1)) = n + 1
      /\ \A i \in 1..n : Append(Count(n), n + 1)[i] = Count(n)[i]
      /\ Append(Count(n), n + 1)[n + 1] = n + 1
  BY <1>1, <1>2, AppendProperties
<1>5. \A i \in 1..(n + 1) : Append(Count(n), n + 1)[i] = Count(n + 1)[i]
  BY <1>1, <1>2, <1>3, <1>4
<1>. QED BY <1>3, <1>4, <1>5, SeqEqual

LEMMA CountEnds ==
    ASSUME NEW n \in Nat \ {0}
    PROVE  Last(Count(n)) = n /\ Front(Count(n)) = Count(n - 1)
<1>1. n - 1 \in Nat /\ n \in Nat /\ n \in 1..n /\ \A i \in 1..(n - 1) : i \in 1..n
  OBVIOUS
<1>2. /\ Count(n) \in Seq(Nat)
      /\ Len(Count(n)) = n
      /\ \A i \in 1..n : Count(n)[i] = i
  BY <1>1, CountSeq
<1>3. /\ Count(n - 1) \in Seq(Nat)
      /\ Len(Count(n - 1)) = n - 1
      /\ \A i \in 1..(n - 1) : Count(n - 1)[i] = i
  BY <1>1, CountSeq
<1>4. Count(n) # <<>>
  BY <1>2, EmptySeq
<1>5. /\ Front(Count(n)) \in Seq(Nat)
      /\ Len(Front(Count(n))) = n - 1
      /\ \A i \in 1..(n - 1) : Front(Count(n))[i] = Count(n)[i]
      /\ Last(Count(n)) = Count(n)[n]
  BY <1>2, <1>4, FrontLast
<1>6. \A i \in 1..(n - 1) : Front(Count(n))[i] = Count(n - 1)[i]
  BY <1>1, <1>2, <1>3, <1>5
<1>. QED BY <1>1, <1>2, <1>3, <1>5, <1>6, SeqEqual

\* Before parse_root_object is called, and after.
LEMMA CountFirst == <<>> = Count(0) /\ <<1>> = Count(1)
<1>1. Count(0) \in Seq(Nat) /\ Len(Count(0)) = 0 /\ Count(1) \in Seq(Nat)
      /\ Len(Count(1)) = 1 /\ \A i \in 1..1 : Count(1)[i] = i
  BY CountSeq
<1>2. <<1>> \in Seq(Nat) /\ Len(<<1>>) = 1 /\ <<1>>[1] = 1
  OBVIOUS
<1>3. \A i \in 1..1 : i = 1
  OBVIOUS
<1>4. \A i \in 1..1 : <<1>>[i] = Count(1)[i]
  BY <1>1, <1>2, <1>3
<1>. QED BY <1>1, <1>2, <1>4, EmptySeq, SeqEqual

-----------------------------------------------------------------------------
(* The stack fits the place in the text, and keeps the limit. *)

Outside == {"file", "start", "end", "done"}

Inside == {"first member", "member", "colon", "value", "rest of value",
           "first element", "more"}

\* RecursionSound, by what a step can change.
StackInv == /\ StackOK(frames)
            /\ place \in Outside \cup Inside
            /\ frames = <<>> <=> place \in Outside
            /\ depths = Count(Len(frames))
            /\ Len(frames) <= MaxDepth

FieldInv == field \in Text /\ seen \subseteq Required

LEMMA SoundIs == RecursionSound <=> StackInv /\ FieldInv
<1>1. ASSUME RecursionSound PROVE StackInv /\ FieldInv
  BY <1>1 DEF RecursionSound, DepthsCount, Count, NestingBounded, ReaderTypeOK, StackInv, FieldInv, StackOK,
              Frame, Outside, Inside
<1>2. ASSUME StackInv, FieldInv PROVE RecursionSound
  BY <1>2 DEF RecursionSound, DepthsCount, Count, NestingBounded, ReaderTypeOK, StackInv, FieldInv, StackOK,
              Frame, Outside, Inside
<1>. QED BY <1>1, <1>2

\* Where a value is read, and where a key is, is inside of a bracket.
LEMMA InnermostExists ==
    ASSUME StackInv, place \in Inside
    PROVE  frames # <<>> /\ Len(frames) \in Nat \ {0}
<1>1. frames # <<>>
  BY DEF StackInv, Outside, Inside
<1>. QED BY <1>1, EmptySeq DEF StackInv, StackOK

\* The argument of the next call is the place it takes on the stack.
LEMMA ChildDepthIs ==
    ASSUME StackInv, place \in Inside
    PROVE  ChildDepth = Len(frames) + 1
<1>1. Len(frames) \in Nat \ {0} /\ depths = Count(Len(frames))
  BY InnermostExists DEF StackInv
<1>. QED BY <1>1, CountEnds DEF ChildDepth

\* There is room for one more frame when check_depth does not object.
LEMMA RoomForOne ==
    ASSUME NEW d \in Nat, ~TooDeep(d)
    PROVE  d <= MaxDepth
BY DepthAssumption DEF TooDeep

LEMMA StayStep ==
    ASSUME StackInv, UNCHANGED <<frames, depths>>,
           \/ UNCHANGED place
           \/ place \in Inside /\ place' \in Inside
           \/ place \in Outside /\ place' \in Outside
    PROVE  StackInv'
BY DEF StackInv, Inside, Outside

LEMMA LeaveStep ==
    ASSUME StackInv, place \in Inside, Leave
    PROVE  StackInv'
<1>1. frames # <<>> /\ Len(frames) \in Nat \ {0}
  BY InnermostExists
<1>2. /\ StackOK(frames')
      /\ Len(frames') = Len(frames) - 1
      /\ frames' = <<>> <=> Len(frames) = 1
  BY <1>1, PopFrame DEF Leave, StackInv
<1>3. place' = IF Len(frames) = 1 THEN "end" ELSE "more"
  BY DEF Leave, Go
<1>4. Len(frames') <= MaxDepth
  BY <1>1, <1>2, DepthAssumption DEF StackInv
<1>5. place' \in Outside \cup Inside /\ (frames' = <<>> <=> place' \in Outside)
  BY <1>2, <1>3 DEF Outside, Inside
<1>6. depths' = Count(Len(frames'))
  <2>1. depths = Count(Len(frames)) /\ depths' = Front(depths)
    BY DEF StackInv, Leave
  <2>. QED BY <1>1, <1>2, <2>1, CountEnds
<1>. QED BY <1>2, <1>4, <1>5, <1>6 DEF StackInv

LEMMA PushStep ==
    ASSUME StackInv, place \in Inside, ~TooDeep(ChildDepth), NEW f \in Frame \ {"root"},
           Call(f, ChildDepth), place' \in {"first member", "first element"}
    PROVE  StackInv'
<1>1. frames # <<>> /\ Len(frames) \in Nat \ {0}
  BY InnermostExists
<1>2. StackOK(frames') /\ frames' # <<>> /\ Len(frames') = Len(frames) + 1
  BY <1>1, PushFrame DEF StackInv, Call
<1>3. ChildDepth = Len(frames) + 1 /\ ChildDepth \in Nat
  <2>1. ChildDepth = Len(frames) + 1
    BY ChildDepthIs
  <2>. QED BY <1>1, <2>1, NextNatural
<1>4. Len(frames') <= MaxDepth
  BY <1>2, <1>3, RoomForOne
<1>5. depths' = Count(Len(frames'))
  <2>1. depths = Count(Len(frames)) /\ depths' = Append(depths, Len(frames) + 1)
    BY <1>3 DEF StackInv, Call
  <2>. QED BY <1>1, <1>2, <2>1, CountPush
<1>. QED BY <1>2, <1>4, <1>5 DEF StackInv, Outside, Inside

-----------------------------------------------------------------------------
(* Every step. *)

LEMMA SoundInit == ReaderInit => StackInv /\ FieldInv
<1>1. <<>> \in Seq(Frame) /\ Len(<<>>) = 0
  BY EmptySeq
<1>. QED BY <1>1, CountFirst, DepthAssumption
         DEF ReaderInit, StackInv, FieldInv, StackOK, Outside, Inside, Text, Required

LEMMA FieldStep ==
    ASSUME StackInv, FieldInv, NEW t \in Token, ReadToken(t)
    PROVE  FieldInv'
<1>1. CASE ReadKey(t)
  BY <1>1 DEF FieldInv, ReadKey, Text
<1>2. CASE RequiredString(t)
  <2>1. Reads("required string") => field \in Required
    BY DEF Reads, Required
  <2>. QED BY <1>2, <2>1 DEF FieldInv, RequiredString
<1>3. CASE /\ ~ReadKey(t) /\ ~RequiredString(t)
  <2>1. UNCHANGED <<field, seen>>
    BY <1>3 DEF ReadToken, Start, ReadColon, SampleRate, OptionalString, OptionalNumber,
                Optional, OpenMetadata, SkipValue, ReadSeparator, EndOfFile
  <2>. QED BY <2>1 DEF FieldInv
<1>. QED BY <1>1, <1>2, <1>3

LEMMA StackStep ==
    ASSUME StackInv, NEW t \in Token, ReadToken(t)
    PROVE  StackInv'
<1>1. CASE Start(t)
  <2>1. CASE t = "{" /\ ~TooDeep(1)
    <3>1. /\ place = "start" /\ place' = "first member" /\ frames' = <<"root">>
          /\ depths' = <<1>>
      BY <1>1, <2>1 DEF Start, Go
    <3>3. Len(frames') = 1 /\ frames' # <<>> /\ StackOK(frames')
      BY <3>1, RootFrame
    <3>4. Len(frames') <= MaxDepth
      BY <2>1, <3>3, RoomForOne
    <3>5. depths' = Count(Len(frames'))
      BY <3>1, <3>3, CountFirst
    <3>. QED BY <3>1, <3>3, <3>4, <3>5 DEF StackInv, Outside, Inside
  <2>2. CASE ~(t = "{" /\ ~TooDeep(1))
    BY <1>1, <2>2, StayStep DEF Start, Fail
  <2>. QED BY <2>1, <2>2
<1>2. CASE ReadKey(t)
  <2>1. place \in Inside
    BY <1>2 DEF ReadKey, Inside
  <2>2. CASE Leave
    BY <2>1, <2>2, LeaveStep
  <2>3. CASE ~Leave
    BY <1>2, <2>1, <2>3, StayStep DEF ReadKey, Go, Fail, Inside
  <2>. QED BY <2>2, <2>3
<1>3. CASE ReadColon(t)
  BY <1>3, StayStep DEF ReadColon, Go, Fail, Inside
<1>4. CASE RequiredString(t)
  BY <1>4, StayStep DEF RequiredString, Reads, Go, Fail, Inside
<1>5. CASE SampleRate(t)
  BY <1>5, StayStep DEF SampleRate, Reads, Go, Fail, Inside
<1>6. CASE OptionalString(t)
  BY <1>6, StayStep DEF OptionalString, Optional, Reads, Go, Fail, Inside
<1>7. CASE OptionalNumber(t)
  BY <1>7, StayStep DEF OptionalNumber, Optional, Reads, Go, Fail, Inside
<1>8. CASE OpenMetadata(t)
  <2>1. place \in Inside
    BY <1>8 DEF OpenMetadata, Reads, Inside
  <2>2. CASE ~TooDeep(ChildDepth) /\ t = "{"
    <3>1. Call("metadata", ChildDepth) /\ place' = "first member"
      BY <1>8, <2>2 DEF OpenMetadata, Go
    <3>. QED BY <2>1, <2>2, <3>1, PushStep DEF Frame
  <2>3. CASE ~(~TooDeep(ChildDepth) /\ t = "{")
    BY <1>8, <2>3, StayStep DEF OpenMetadata, Fail
  <2>. QED BY <2>2, <2>3
<1>9. CASE SkipValue(t)
  <2>1. place \in Inside
    BY <1>9 DEF SkipValue, Reads, Inside
  <2>2. CASE Leave
    BY <2>1, <2>2, LeaveStep
  <2>3. CASE ~Leave /\ ~TooDeep(ChildDepth) /\ t = "{"
    <3>1. Call("object", ChildDepth) /\ place' = "first member"
      BY <1>9, <2>3 DEF SkipValue, Go
    <3>. QED BY <2>1, <2>3, <3>1, PushStep DEF Frame
  <2>4. CASE ~Leave /\ ~TooDeep(ChildDepth) /\ t = "["
    <3>1. Call("array", ChildDepth) /\ place' = "first element"
      BY <1>9, <2>4 DEF SkipValue, Go
    <3>. QED BY <2>1, <2>4, <3>1, PushStep DEF Frame
  <2>5. CASE ~Leave /\ (TooDeep(ChildDepth) \/ t \notin {"{", "["})
    <3>1. UNCHANGED <<frames, depths>> /\ (UNCHANGED place \/ place' = "more")
      BY <1>9, <2>5 DEF SkipValue, Go, Fail
    <3>. QED BY <2>1, <3>1, StayStep DEF Inside
  <2>. QED BY <2>2, <2>3, <2>4, <2>5
<1>10. CASE ReadSeparator(t)
  <2>1. place \in Inside
    BY <1>10 DEF ReadSeparator, Inside
  <2>2. CASE Leave
    BY <2>1, <2>2, LeaveStep
  <2>3. CASE ~Leave
    BY <1>10, <2>1, <2>3, StayStep DEF ReadSeparator, Go, Fail, AfterComma, Inside
  <2>. QED BY <2>2, <2>3
<1>11. CASE EndOfFile(t)
  BY <1>11, StayStep DEF EndOfFile, Go, Fail, Outside
<1>. QED BY <1>1, <1>2, <1>3, <1>4, <1>5, <1>6, <1>7, <1>8, <1>9, <1>10, <1>11 DEF ReadToken

(* Whatever the file holds, the functions that read_metadata is in belong to  *)
(* the place it has reached in the text, and there are never more of them,    *)
(* which read or skip an object or an array, than max_nesting_depth.          *)
THEOREM RecursionIsSound == ReaderSpec => []RecursionSound
<1>. DEFINE Inv == StackInv /\ FieldInv
<1>1. ReaderInit => Inv
  BY SoundInit
<1>2. Inv /\ [ReaderNext]_readerVars => Inv'
  <2>. SUFFICES ASSUME Inv, [ReaderNext]_readerVars
                PROVE  Inv'
    OBVIOUS
  <2>1. CASE Inspect
    <3>1. UNCHANGED <<frames, depths, field, seen>>
          /\ place = "file" /\ (UNCHANGED place \/ place' = "start")
      BY <2>1 DEF Inspect, Go, Fail
    <3>2. StackInv'
      BY <3>1, StayStep DEF Outside
    <3>. QED BY <3>1, <3>2 DEF FieldInv
  <2>2. ASSUME NEW t \in Token, ReadToken(t)
        PROVE  Inv'
    BY <2>2, StackStep, FieldStep
  <2>3. CASE UNCHANGED readerVars
    BY <2>3, StayStep DEF readerVars, FieldInv
  <2>. QED BY <2>1, <2>2, <2>3 DEF ReaderNext
<1>3. Inv => RecursionSound
  BY SoundIs
<1>. QED BY <1>1, <1>2, <1>3, PTL DEF ReaderSpec

-----------------------------------------------------------------------------
(* The brackets that the stack stands for. *)

Bracket(f) == IF f = "array" THEN "[" ELSE "{"

BracketsOf(s) == [i \in 1..Len(s) |-> Bracket(s[i])]

LEMMA BracketsSeq ==
    ASSUME NEW s \in Seq(Frame)
    PROVE  /\ BracketsOf(s) \in Seq({"{", "["})
           /\ Len(BracketsOf(s)) = Len(s)
           /\ \A i \in 1..Len(s) : BracketsOf(s)[i] = Bracket(s[i])
           /\ BracketsOf(s) = <<>> <=> s = <<>>
<1>1. Len(s) \in Nat
  BY LenProperties
<1>2. BracketsOf(s) \in [1..Len(s) -> {"{", "["}]
  BY DEF BracketsOf, Bracket
<1>3. BracketsOf(s) \in Seq({"{", "["}) /\ Len(BracketsOf(s)) = Len(s)
  BY <1>1, <1>2, FunctionIsSeq
<1>4. \A i \in 1..Len(s) : BracketsOf(s)[i] = Bracket(s[i])
  BY DEF BracketsOf
<1>. QED BY <1>3, <1>4, EmptySeq

LEMMA BracketsPush ==
    ASSUME NEW s \in Seq(Frame), NEW f \in Frame
    PROVE  BracketsOf(Append(s, f)) = Append(BracketsOf(s), Bracket(f))
<1>1. /\ BracketsOf(s) \in Seq({"{", "["})
      /\ Len(BracketsOf(s)) = Len(s)
      /\ \A i \in 1..Len(s) : BracketsOf(s)[i] = Bracket(s[i])
  BY BracketsSeq
<1>2. /\ Append(s, f) \in Seq(Frame)
      /\ Len(Append(s, f)) = Len(s) + 1
      /\ \A i \in 1..Len(s) : Append(s, f)[i] = s[i]
      /\ Append(s, f)[Len(s) + 1] = f
  BY AppendProperties
<1>3. /\ BracketsOf(Append(s, f)) \in Seq({"{", "["})
      /\ Len(BracketsOf(Append(s, f))) = Len(s) + 1
      /\ \A i \in 1..(Len(s) + 1) :
             BracketsOf(Append(s, f))[i] = Bracket(Append(s, f)[i])
  BY <1>2, BracketsSeq
<1>4. Bracket(f) \in {"{", "["}
  BY DEF Bracket
<1>5. /\ Append(BracketsOf(s), Bracket(f)) \in Seq({"{", "["})
      /\ Len(Append(BracketsOf(s), Bracket(f))) = Len(s) + 1
      /\ \A i \in 1..Len(s) : Append(BracketsOf(s), Bracket(f))[i] = BracketsOf(s)[i]
      /\ Append(BracketsOf(s), Bracket(f))[Len(s) + 1] = Bracket(f)
  <2>1. ASSUME NEW S, NEW q \in Seq(S), NEW b \in S, Len(q) = Len(s)
        PROVE  /\ Append(q, b) \in Seq(S)
               /\ Len(Append(q, b)) = Len(s) + 1
               /\ \A i \in 1..Len(s) : Append(q, b)[i] = q[i]
               /\ Append(q, b)[Len(s) + 1] = b
    BY <2>1, AppendProperties
  <2>. QED BY <1>1, <1>4, <2>1
<1>6. ASSUME NEW i \in 1..(Len(s) + 1)
      PROVE  BracketsOf(Append(s, f))[i] = Append(BracketsOf(s), Bracket(f))[i]
  <2>1. CASE i = Len(s) + 1
    BY <1>2, <1>3, <1>5, <2>1
  <2>2. CASE i \in 1..Len(s)
    BY <1>1, <1>2, <1>3, <1>5, <2>2
  <2>3. Len(s) \in Nat
    BY LenProperties
  <2>4. i = Len(s) + 1 \/ i \in 1..Len(s)
    BY <1>6, <2>3, LastIndex
  <2>. QED BY <2>1, <2>2, <2>4
<1>. QED BY <1>3, <1>5, <1>6, SeqEqual

LEMMA BracketsPop ==
    ASSUME NEW s \in Seq(Frame), s # <<>>
    PROVE  BracketsOf(Front(s)) = Front(BracketsOf(s))
<1>1. Len(s) \in Nat \ {0}
  BY EmptySeq
<1>2. /\ BracketsOf(s) \in Seq({"{", "["})
      /\ BracketsOf(s) # <<>>
      /\ Len(BracketsOf(s)) = Len(s)
      /\ \A i \in 1..Len(s) : BracketsOf(s)[i] = Bracket(s[i])
  BY BracketsSeq
<1>3. /\ Front(s) \in Seq(Frame)
      /\ Len(Front(s)) = Len(s) - 1
      /\ \A i \in 1..(Len(s) - 1) : Front(s)[i] = s[i]
  BY FrontLast
<1>4. /\ BracketsOf(Front(s)) \in Seq({"{", "["})
      /\ Len(BracketsOf(Front(s))) = Len(s) - 1
      /\ \A i \in 1..(Len(s) - 1) : BracketsOf(Front(s))[i] = Bracket(Front(s)[i])
  BY <1>3, BracketsSeq
<1>5. /\ Front(BracketsOf(s)) \in Seq({"{", "["})
      /\ Len(Front(BracketsOf(s))) = Len(s) - 1
      /\ \A i \in 1..(Len(s) - 1) : Front(BracketsOf(s))[i] = BracketsOf(s)[i]
  BY <1>2, FrontLast
<1>6. \A i \in 1..(Len(s) - 1) : i \in 1..Len(s)
  BY <1>1
<1>7. \A i \in 1..(Len(s) - 1) : BracketsOf(Front(s))[i] = Front(BracketsOf(s))[i]
  BY <1>2, <1>3, <1>4, <1>5, <1>6
<1>. QED BY <1>4, <1>5, <1>7, SeqEqual

LEMMA BracketsLast ==
    ASSUME NEW s \in Seq(Frame), s # <<>>
    PROVE  Last(BracketsOf(s)) = Bracket(Last(s))
<1>1. Len(s) \in Nat \ {0}
  BY EmptySeq
<1>2. Len(s) \in 1..Len(s)
  BY <1>1
<1>. QED BY <1>2, BracketsSeq DEF Last

-----------------------------------------------------------------------------
(* The steps of the grammar. *)

\* What is read without an error where any value may be.
Value == Text \cup Number \cup {"true", "null"}

\* What Brackets is inside of a bracket, and what it becomes.
LEMMA BracketsAre ==
    ASSUME StackInv
    PROVE  /\ frames \in Seq(Frame)
           /\ Brackets = BracketsOf(frames)
           /\ Brackets' = BracketsOf(frames')
           /\ frames # <<>> => /\ Brackets # <<>>
                               /\ Last(Brackets) = Bracket(Last(frames))
<1>1. frames \in Seq(Frame)
  BY DEF StackInv, StackOK
<1>2. Brackets = BracketsOf(frames) /\ Brackets' = BracketsOf(frames')
  BY DEF Brackets, BracketsOf, Bracket
<1>. QED BY <1>1, <1>2, BracketsSeq, BracketsLast

\* The ends of a sequence are the same for both modules.
LEMMA SameEnds == \A s : Grammar!Last(s) = Last(s) /\ Grammar!Front(s) = Front(s)
BY DEF Grammar!Last, Grammar!Front, Last, Front

LEMMA FirstFrame == <<"root">> = Append(<<>>, "root") /\ "root" \in Frame
<1>1. <<>> \in Seq(Frame) /\ Len(<<>>) = 0 /\ "root" \in Frame
  BY EmptySeq DEF Frame
<1>2. /\ Append(<<>>, "root") \in Seq(Frame)
      /\ Len(Append(<<>>, "root")) = 1
      /\ Append(<<>>, "root")[1] = "root"
  BY <1>1, AppendProperties
<1>3. <<"root">> \in Seq(Frame) /\ Len(<<"root">>) = 1 /\ <<"root">>[1] = "root"
  BY RootFrame DEF StackOK
<1>4. \A i \in 1..1 : i = 1
  OBVIOUS
<1>. QED BY <1>1, <1>2, <1>3, <1>4, SeqEqual

LEMMA FailIsRefuse ==
    ASSUME error = "none", place # "done", NEW t \in Token, last' = t,
           UNCHANGED <<frames, place>>, error' # "none"
    PROVE  Grammar!Refuse
<1>1. TokenSeen' \in {t, TokenSeen}
  BY DEF TokenSeen
<1>2. t \in Grammar!Token
  BY DEF Grammar!Token, Grammar!Punctuation, Token
<1>. QED BY <1>1, <1>2 DEF Grammar!Refuse, Brackets, Expected, Verdict

LEMMA StartIsTake ==
    ASSUME StackInv, error = "none", place = "start", last' = "{",
           place' = "first member", frames' = <<"root">>, UNCHANGED error
    PROVE  Grammar!Take
<1>1. /\ Verdict = "reading" /\ Verdict' = "reading"
      /\ Expected = "object" /\ Expected' = "first member"
      /\ TokenSeen' = last'
  BY DEF Verdict, Expected, TokenSeen
<1>2. last' \in Grammar!Legal
  BY <1>1 DEF Grammar!Legal
<1>3. Brackets = <<>>
  <2>1. frames = <<>>
    BY DEF StackInv, Outside
  <2>. QED BY <2>1, BracketsAre, BracketsSeq
<1>4. Brackets' = Append(Brackets, "{")
  <2>1. frames' = Append(frames, "root") /\ "root" \in Frame
    <3>1. frames = <<>>
      BY DEF StackInv, Outside
    <3>. QED BY <3>1, FirstFrame
  <2>. QED BY <2>1, BracketsAre, BracketsPush DEF Bracket
<1>. QED BY <1>1, <1>2, <1>4 DEF Grammar!Take

LEMMA KeyIsTake ==
    ASSUME StackInv, error = "none", place \in {"first member", "member"},
           NEW t \in Text, last' = t, place' = "colon", UNCHANGED <<frames, error>>
    PROVE  Grammar!Take
<1>1. /\ Verdict = "reading" /\ Verdict' = "reading"
      /\ Expected = place /\ Expected' = "colon"
      /\ Brackets' = Brackets
      /\ TokenSeen' = last'
  BY DEF Verdict, Expected, TokenSeen, Brackets
<1>2. last' \in Grammar!Legal
  BY <1>1 DEF Grammar!Legal
<1>3. t \notin {"{", "}", "[", "]", ":", ",", "end"}
  BY DEF Text, Required
<1>. QED BY <1>1, <1>2, <1>3 DEF Grammar!Take

LEMMA ColonIsTake ==
    ASSUME error = "none", place = "colon", last' = ":", place' = "value",
           UNCHANGED <<frames, error>>
    PROVE  Grammar!Take
<1>1. /\ Verdict = "reading" /\ Verdict' = "reading"
      /\ Expected = "colon" /\ Expected' = "value"
      /\ Brackets' = Brackets
      /\ TokenSeen' = last'
  BY DEF Verdict, Expected, TokenSeen, Brackets
<1>2. last' \in Grammar!Legal
  BY <1>1 DEF Grammar!Legal
<1>. QED BY <1>1, <1>2 DEF Grammar!Take

LEMMA ValueIsTake ==
    ASSUME StackInv, error = "none", place \in {"value", "rest of value", "first element"},
           NEW t \in Value, last' = t, place' = "more", UNCHANGED <<frames, error>>
    PROVE  Grammar!Take
<1>1. /\ Verdict = "reading" /\ Verdict' = "reading"
      /\ Expected \in {"value", "first element"} /\ Expected' = "more"
      /\ Brackets' = Brackets
      /\ TokenSeen' = last'
  BY DEF Verdict, Expected, TokenSeen, Brackets
<1>2. last' \in Grammar!Legal
  BY <1>1 DEF Grammar!Legal, Value
<1>3. t \notin {"{", "}", "[", "]", ":", ",", "end"}
  BY DEF Value, Number, Text, Required
<1>4. Brackets # <<>>
  BY BracketsAre, InnermostExists DEF Inside
<1>. QED BY <1>1, <1>2, <1>3, <1>4 DEF Grammar!Take

LEMMA OpenIsTake ==
    ASSUME StackInv, error = "none", place \in {"value", "rest of value", "first element"},
           NEW f \in Frame, last' = Bracket(f), frames' = Append(frames, f), UNCHANGED error,
           place' = IF f = "array" THEN "first element" ELSE "first member"
    PROVE  Grammar!Take
<1>1. /\ Verdict = "reading" /\ Verdict' = "reading"
      /\ Expected \in {"value", "first element"}
      /\ Expected' = IF f = "array" THEN "first element" ELSE "first member"
      /\ TokenSeen' = last'
  BY DEF Verdict, Expected, TokenSeen
<1>2. last' = IF f = "array" THEN "[" ELSE "{"
  BY DEF Bracket
<1>3. last' \in Grammar!Legal
  BY <1>1, <1>2 DEF Grammar!Legal
<1>4. Brackets' = Append(Brackets, last')
  BY BracketsAre, BracketsPush
<1>. QED BY <1>1, <1>2, <1>3, <1>4 DEF Grammar!Take

LEMMA LeaveIsTake ==
    ASSUME StackInv, error = "none", Leave,
           \/ place = "first member" /\ last' = "}"
           \/ place = "first element" /\ last' = "]"
           \/ place = "more" /\ last' = IF Innermost = "array" THEN "]" ELSE "}"
    PROVE  Grammar!Take
<1>1. frames # <<>>
  BY InnermostExists DEF Inside
<1>2. /\ frames' = Front(frames)
      /\ place' = IF Len(frames) = 1 THEN "end" ELSE "more"
      /\ UNCHANGED error
  BY DEF Leave, Go
<1>3. /\ Verdict = "reading" /\ Verdict' = "reading"
      /\ Expected = place /\ Expected' = place'
      /\ TokenSeen' = last'
  BY <1>2 DEF Verdict, Expected, TokenSeen
<1>4. last' \in {"}", "]"}
  OBVIOUS
<1>5. last' \in Grammar!Legal
  <2>1. Last(Brackets) = IF Innermost = "array" THEN "[" ELSE "{"
    BY <1>1, BracketsAre DEF Bracket, Innermost
  <2>. QED BY <1>3, <2>1, SameEnds DEF Grammar!Legal, Grammar!Closing
<1>6. Brackets' = Front(Brackets)
  BY <1>1, <1>2, BracketsAre, BracketsPop
<1>7. Brackets' = <<>> <=> Len(frames) = 1
  <2>1. StackOK(frames') /\ (frames' = <<>> <=> Len(frames) = 1)
    BY <1>1, <1>2, PopFrame DEF StackInv
  <2>. QED BY <2>1, BracketsAre, BracketsSeq DEF StackOK
<1>8. last' \notin Text
  BY <1>4 DEF Text, Required
<1>. QED BY <1>2, <1>3, <1>4, <1>5, <1>6, <1>7, <1>8, SameEnds DEF Grammar!Take

LEMMA CommaIsTake ==
    ASSUME StackInv, error = "none", place = "more", last' = ",", place' = AfterComma,
           UNCHANGED <<frames, error>>
    PROVE  Grammar!Take
<1>1. /\ Verdict = "reading" /\ Verdict' = "reading"
      /\ Expected = "more" /\ Expected' = AfterComma
      /\ Brackets' = Brackets
      /\ TokenSeen' = last'
  BY DEF Verdict, Expected, TokenSeen, Brackets, AfterComma
<1>2. last' \in Grammar!Legal
  BY <1>1 DEF Grammar!Legal
<1>3. frames # <<>>
  BY InnermostExists DEF Inside
<1>4. AfterComma = IF Last(Brackets) = "{" THEN "member" ELSE "value"
  BY <1>3, BracketsAre DEF AfterComma, Innermost, Bracket
<1>. QED BY <1>1, <1>2, <1>4, SameEnds DEF Grammar!Take

LEMMA EndIsTake ==
    ASSUME StackInv, error = "none", place = "end", last' = "end", place' = "done",
           UNCHANGED <<frames, error>>
    PROVE  Grammar!Take
<1>1. /\ Verdict = "reading" /\ Verdict' = "accepted"
      /\ Expected = "end" /\ Expected' = "end"
      /\ Brackets' = Brackets
      /\ TokenSeen' = last'
  BY DEF Verdict, Expected, TokenSeen, Brackets
<1>2. last' \in Grammar!Legal
  BY <1>1 DEF Grammar!Legal
<1>3. Brackets' = <<>>
  <2>1. frames = <<>>
    BY DEF StackInv, Outside
  <2>. QED BY <1>1, <2>1, BracketsAre, BracketsSeq
<1>. QED BY <1>1, <1>2, <1>3 DEF Grammar!Take

\* In an object a value comes after a colon.
ColonInv == place = "value" /\ error = "none" /\ Innermost # "array" => last = ":"

\* The grammar does not see a nul that is dropped.
LEMMA NulIsDropped ==
    ASSUME StackInv, ColonInv, error = "none", place = "value", place' = "rest of value",
           Innermost = "metadata", UNCHANGED <<frames, error>>
    PROVE  UNCHANGED Grammar!grammarVars
<1>1. TokenSeen = ":" /\ TokenSeen' = ":"
  BY DEF ColonInv, TokenSeen
<1>. QED BY <1>1 DEF Grammar!grammarVars, Verdict, Expected, Brackets

LEMMA ColonStep ==
    ASSUME ColonInv, NEW t \in Token, ReadToken(t)
    PROVE  ColonInv'
<1>. DEFINE Elsewhere == place' # "value"
            Refused   == error' # "none"
<1>1. Elsewhere \/ Refused => ColonInv'
  BY DEF ColonInv
<1>2. \A strings \in BOOLEAN : Complaint(t, strings) # "none"
  BY DEF Complaint
<1>3. CASE Start(t)
  BY <1>1, <1>3 DEF Start, Go, Fail
<1>4. CASE ReadKey(t)
  BY <1>1, <1>2, <1>4 DEF ReadKey, Leave, Go, Fail
<1>5. CASE ReadColon(t)
  BY <1>1, <1>5 DEF ReadColon, Go, Fail, ColonInv, ReadToken
<1>6. CASE RequiredString(t) \/ SampleRate(t)
  BY <1>1, <1>2, <1>6 DEF RequiredString, SampleRate, Go, Fail
<1>7. CASE OptionalString(t) \/ OptionalNumber(t)
  BY <1>1, <1>2, <1>7 DEF OptionalString, OptionalNumber, Optional, Go, Fail
<1>8. CASE OpenMetadata(t)
  BY <1>1, <1>8 DEF OpenMetadata, Go, Fail
<1>9. CASE SkipValue(t)
  BY <1>1, <1>2, <1>9 DEF SkipValue, Leave, Go, Fail
<1>10. CASE ReadSeparator(t)
  <2>1. CASE Leave
    BY <1>1, <2>1 DEF Leave, Go
  <2>2. CASE ~Leave
    BY <1>1, <1>10, <2>2 DEF ReadSeparator, AfterComma, Go, Fail, ColonInv, Innermost
  <2>. QED BY <2>1, <2>2
<1>11. CASE EndOfFile(t)
  BY <1>1, <1>11 DEF EndOfFile, Go, Fail
<1>. QED BY <1>3, <1>4, <1>5, <1>6, <1>7, <1>8, <1>9, <1>10, <1>11 DEF ReadToken

-----------------------------------------------------------------------------
(* The descent implements the grammar. *)

LEMMA GrammarInit == ReaderInit => Grammar!Init
<1>. SUFFICES ASSUME ReaderInit PROVE Grammar!Init
  OBVIOUS
<1>1. StackInv
  BY SoundInit
<1>2. Brackets = <<>>
  BY <1>1, BracketsAre, BracketsSeq DEF ReaderInit
<1>. QED BY <1>2 DEF ReaderInit, Grammar!Init, Expected, Verdict, TokenSeen

\* An error leaves the descent where it is.
LEMMA Refusal ==
    ASSUME NEW t \in Token, ReadToken(t), UNCHANGED <<frames, place>>, error' # "none",
           place # "done"
    PROVE  Grammar!Refuse
BY FailIsRefuse DEF ReadToken

LEMMA GrammarStep ==
    ASSUME StackInv, ColonInv, NEW t \in Token, ReadToken(t)
    PROVE  Grammar!Next \/ UNCHANGED Grammar!grammarVars
<1>. DEFINE Refused == /\ UNCHANGED <<frames, place>>
                       /\ error' # "none"
                       /\ place # "done"
<1>1. error = "none" /\ last' = t
  BY DEF ReadToken
<1>2. Refused => Grammar!Next
  BY Refusal DEF Grammar!Next
<1>3. \A strings \in BOOLEAN : Complaint(t, strings) # "none"
  BY DEF Complaint
<1>. HIDE DEF Refused
<1>4. CASE Start(t)
  <2>1. CASE t = "{" /\ ~TooDeep(1)
    BY <1>1, <1>4, <2>1, StartIsTake DEF Start, Go, Grammar!Next
  <2>2. CASE ~(t = "{" /\ ~TooDeep(1))
    BY <1>2, <1>4, <2>2 DEF Start, Fail, Refused
  <2>. QED BY <2>1, <2>2
<1>5. CASE ReadKey(t)
  <2>1. CASE t \in Text
    <3>1. t # "}"
      BY <2>1 DEF Text, Required
    <3>. QED BY <1>1, <1>5, <2>1, <3>1, KeyIsTake DEF ReadKey, Go, Grammar!Next
  <2>2. CASE t = "}" /\ place = "first member"
    <3>1. t \notin Text
      BY <2>2 DEF Text, Required
    <3>. QED BY <1>1, <1>5, <2>2, <3>1, LeaveIsTake DEF ReadKey, Grammar!Next
  <2>3. CASE t \notin Text /\ ~(t = "}" /\ place = "first member")
    BY <1>2, <1>3, <1>5, <2>3 DEF ReadKey, Fail, Refused
  <2>. QED BY <2>1, <2>2, <2>3
<1>6. CASE ReadColon(t)
  <2>1. CASE t = ":"
    BY <1>1, <1>6, <2>1, ColonIsTake DEF ReadColon, Go, Grammar!Next
  <2>2. CASE t # ":"
    BY <1>2, <1>6, <2>2 DEF ReadColon, Fail, Refused
  <2>. QED BY <2>1, <2>2
<1>7. CASE RequiredString(t)
  <2>1. CASE t \in Text
    <3>1. t \in Value
      BY <2>1 DEF Value
    <3>. QED BY <1>1, <1>7, <2>1, <3>1, ValueIsTake DEF RequiredString, Reads, Go, Grammar!Next
  <2>2. CASE t \notin Text
    BY <1>2, <1>3, <1>7, <2>2 DEF RequiredString, Reads, Fail, Refused
  <2>. QED BY <2>1, <2>2
<1>8. CASE SampleRate(t)
  <2>1. CASE t = "positive"
    <3>1. t \in Value
      BY <2>1 DEF Value, Number
    <3>. QED BY <1>1, <1>8, <2>1, <3>1, ValueIsTake DEF SampleRate, Reads, Go, Grammar!Next
  <2>2. CASE t # "positive"
    BY <1>2, <1>8, <2>2 DEF SampleRate, Reads, Fail, Refused
  <2>. QED BY <2>1, <2>2
<1>9. ASSUME NEW V \in SUBSET Value, NEW strings \in BOOLEAN, Optional(t, V, strings),
             Innermost = "metadata", place \in {"value", "rest of value", "first element"}
      PROVE  Grammar!Next \/ UNCHANGED Grammar!grammarVars
  <2>1. CASE t \in V \/ (t = "null" /\ place = "value")
    <3>1. t \in Value
      BY <2>1 DEF Value
    <3>2. place' = "more" /\ UNCHANGED <<frames, error>>
      BY <1>9, <2>1 DEF Optional, Go
    <3>. QED BY <1>1, <1>9, <3>1, <3>2, ValueIsTake DEF Grammar!Next
  <2>2. CASE t \notin V /\ t = "nul" /\ place = "value"
    BY <1>1, <1>9, <2>2, NulIsDropped DEF Optional, Go
  <2>3. CASE t \notin V /\ ~(t \in {"null", "nul"} /\ place = "value")
    BY <1>2, <1>3, <1>9, <2>3 DEF Optional, Fail, Refused
  <2>. QED BY <2>1, <2>2, <2>3
<1>10. CASE OptionalString(t)
  <2>1. Innermost = "metadata" /\ place \in {"value", "rest of value", "first element"}
    BY <1>10 DEF OptionalString, Reads
  <2>2. Text \in SUBSET Value
    BY DEF Value
  <2>. QED BY <1>9, <1>10, <2>1, <2>2 DEF OptionalString
<1>11. CASE OptionalNumber(t)
  <2>1. Innermost = "metadata" /\ place \in {"value", "rest of value", "first element"}
    BY <1>11 DEF OptionalNumber, Reads
  <2>2. Number \in SUBSET Value
    BY DEF Value
  <2>. QED BY <1>9, <1>11, <2>1, <2>2 DEF OptionalNumber
<1>12. CASE OpenMetadata(t)
  <2>1. CASE ~TooDeep(ChildDepth) /\ t = "{"
    <3>1. t = Bracket("metadata") /\ "metadata" \in Frame
      BY <2>1 DEF Bracket, Frame
    <3>. QED BY <1>1, <1>12, <2>1, <3>1, OpenIsTake DEF OpenMetadata, Call, Reads, Go, Grammar!Next
  <2>2. CASE ~(~TooDeep(ChildDepth) /\ t = "{")
    BY <1>2, <1>12, <2>2 DEF OpenMetadata, Reads, Fail, Refused
  <2>. QED BY <2>1, <2>2
<1>13. CASE SkipValue(t)
  <2>. USE <1>13
  <2>1. CASE EmptyArray(t)
    BY <1>1, <2>1, LeaveIsTake DEF SkipValue, EmptyArray, Grammar!Next
  <2>2. CASE ~EmptyArray(t) /\ ~TooDeep(ChildDepth) /\ t = "{"
    <3>1. t = Bracket("object") /\ "object" \in Frame
      BY <2>2 DEF Bracket, Frame
    <3>. QED BY <1>1, <2>2, <3>1, OpenIsTake DEF SkipValue, Call, Reads, Go, Grammar!Next
  <2>3. CASE ~EmptyArray(t) /\ ~TooDeep(ChildDepth) /\ t = "["
    <3>1. t = Bracket("array") /\ "array" \in Frame
      BY <2>3 DEF Bracket, Frame
    <3>. QED BY <1>1, <2>3, <3>1, OpenIsTake DEF SkipValue, Call, Reads, Go, Grammar!Next
  <2>4. CASE ~EmptyArray(t) /\ ~TooDeep(ChildDepth) /\ t \in Value
    <3>1. t \notin {"{", "["}
      BY <2>4 DEF Value, Number, Text, Required
    <3>2. /\ place \in {"value", "rest of value", "first element"}
          /\ place' = "more" /\ UNCHANGED <<frames, error>>
      BY <2>4, <3>1 DEF SkipValue, Reads, Go, Value
    <3>. QED BY <1>1, <2>4, <3>2, ValueIsTake DEF Grammar!Next
  <2>5. CASE ~EmptyArray(t) /\ (TooDeep(ChildDepth) \/ t \notin Value \cup {"{", "["})
    BY <1>2, <1>3, <2>5 DEF SkipValue, Reads, Fail, Refused, Value
  <2>. QED BY <2>1, <2>2, <2>3, <2>4, <2>5
<1>14. CASE ReadSeparator(t)
  <2>1. CASE t = ","
    BY <1>1, <1>14, <2>1, CommaIsTake DEF ReadSeparator, Go, Grammar!Next
  <2>2. CASE t = IF Innermost = "array" THEN "]" ELSE "}"
    BY <1>1, <1>14, <2>2, LeaveIsTake DEF ReadSeparator, Grammar!Next
  <2>3. CASE t \notin {",", IF Innermost = "array" THEN "]" ELSE "}"}
    BY <1>2, <1>14, <2>3 DEF ReadSeparator, Fail, Refused
  <2>. QED BY <2>1, <2>2, <2>3
<1>15. CASE EndOfFile(t)
  <2>1. CASE t = "end" /\ seen = Required
    BY <1>1, <1>15, <2>1, EndIsTake DEF EndOfFile, Go, Grammar!Next
  <2>2. CASE ~(t = "end" /\ seen = Required)
    BY <1>2, <1>15, <2>2 DEF EndOfFile, Fail, Refused
  <2>. QED BY <2>1, <2>2
<1>. QED BY <1>4, <1>5, <1>6, <1>7, <1>8, <1>10, <1>11, <1>12, <1>13, <1>14, <1>15
         DEF ReadToken

\* Opening the file is no step of the grammar; not to open it refuses the text.
LEMMA GrammarInspect ==
    ASSUME StackInv, Inspect
    PROVE  Grammar!Next \/ UNCHANGED Grammar!grammarVars
<1>1. /\ place = "file" /\ error = "none"
      /\ UNCHANGED <<frames, last>>
  BY DEF Inspect
<1>2. CASE Go("start")
  BY <1>1, <1>2 DEF Go, Grammar!grammarVars, Brackets, Expected, Verdict, TokenSeen
<1>3. CASE \E code \in {"file_not_found", "not_a_regular_file", "file_too_large",
                        "open_failed"} : Fail(code)
  BY <1>1, <1>3 DEF Fail, Grammar!Next, Grammar!Refuse, Brackets, Expected, Verdict, TokenSeen
<1>. QED BY <1>2, <1>3 DEF Inspect

(* For every limit of the nesting and every file: what read_metadata accepts  *)
(* is one JSON object once the beginnings of null that it drops where a       *)
(* member's value begins are left out.  Each token that the descent reads is  *)
(* a step of the strict grammar, but those, which it does not see.            *)
THEOREM ReaderImplementsJson == ReaderSpec => JsonOnceNulIsDropped
<1>1. ReaderInit => Grammar!Init /\ ColonInv
  BY GrammarInit DEF ReaderInit, ColonInv
<1>2. ColonInv /\ [ReaderNext]_readerVars => ColonInv'
  <2>. SUFFICES ASSUME ColonInv, [ReaderNext]_readerVars
                PROVE  ColonInv'
    OBVIOUS
  <2>1. CASE Inspect
    BY <2>1 DEF Inspect, Go, Fail, ColonInv
  <2>2. CASE UNCHANGED readerVars
    BY <2>2 DEF readerVars, ColonInv, Innermost
  <2>. QED BY <2>1, <2>2, ColonStep DEF ReaderNext
<1>3. RecursionSound /\ ColonInv /\ [ReaderNext]_readerVars => [Grammar!Next]_Grammar!grammarVars
  <2>. SUFFICES ASSUME RecursionSound, ColonInv, [ReaderNext]_readerVars
                PROVE  Grammar!Next \/ UNCHANGED Grammar!grammarVars
    OBVIOUS
  <2>1. StackInv
    BY SoundIs
  <2>2. CASE Inspect
    BY <2>1, <2>2, GrammarInspect
  <2>3. ASSUME NEW t \in Token, ReadToken(t)
        PROVE  Grammar!Next \/ UNCHANGED Grammar!grammarVars
    BY <2>1, <2>3, GrammarStep
  <2>4. CASE UNCHANGED readerVars
    BY <2>4 DEF readerVars, Grammar!grammarVars, Brackets, Expected, Verdict, TokenSeen
  <2>. QED BY <2>2, <2>3, <2>4 DEF ReaderNext
<1>. QED BY <1>1, <1>2, <1>3, RecursionIsSound, PTL
         DEF ReaderSpec, JsonOnceNulIsDropped, Grammar!Spec
-----------------------------------------------------------------------------
(***************************************************************************)
(* What a refusal says.  The first element of an array is looked for in     *)
(* arrays only: without this, null might be refused where it is permitted.  *)
(***************************************************************************)
ElementInv == place = "first element" => frames # <<>> /\ Innermost = "array"

LEMMA PushedInnermost ==
    ASSUME NEW s \in Seq(Frame), NEW f \in Frame
    PROVE  Append(s, f) # <<>> /\ Last(Append(s, f)) = f
<1>1. Len(s) \in Nat
  BY LenProperties
<1>2. /\ Append(s, f) \in Seq(Frame)
      /\ Len(Append(s, f)) = Len(s) + 1
      /\ Append(s, f)[Len(s) + 1] = f
  BY AppendProperties
<1>3. Append(s, f) # <<>>
  BY <1>1, <1>2, EmptySeq
<1>. QED BY <1>2, <1>3 DEF Last

LEMMA ElementStep ==
    ASSUME StackInv, ElementInv, NEW t \in Token, ReadToken(t)
    PROVE  ElementInv'
<1>. DEFINE Elsewhere == place' # "first element"
            Stays     == UNCHANGED <<frames, place>>
            Opens     == frames' = Append(frames, "array")
<1>1. Elsewhere \/ Stays => ElementInv'
  BY DEF ElementInv, Innermost
<1>2. Opens => ElementInv'
  <2>1. frames \in Seq(Frame) /\ "array" \in Frame
    BY DEF StackInv, StackOK, Frame
  <2>. QED BY <2>1, PushedInnermost DEF ElementInv, Innermost
<1>3. CASE Start(t)
  BY <1>1, <1>3 DEF Start, Go, Fail
<1>4. CASE ReadKey(t)
  BY <1>1, <1>4 DEF ReadKey, Leave, Go, Fail
<1>5. CASE ReadColon(t)
  BY <1>1, <1>5 DEF ReadColon, Go, Fail
<1>6. CASE RequiredString(t) \/ SampleRate(t)
  BY <1>1, <1>6 DEF RequiredString, SampleRate, Go, Fail
<1>7. CASE OptionalString(t) \/ OptionalNumber(t)
  BY <1>1, <1>7 DEF OptionalString, OptionalNumber, Optional, Go, Fail
<1>8. CASE OpenMetadata(t)
  BY <1>1, <1>8 DEF OpenMetadata, Go, Fail
<1>9. CASE SkipValue(t)
  BY <1>1, <1>2, <1>9 DEF SkipValue, Call, Leave, Go, Fail
<1>10. CASE ReadSeparator(t)
  BY <1>1, <1>10 DEF ReadSeparator, AfterComma, Leave, Go, Fail
<1>11. CASE EndOfFile(t)
  BY <1>1, <1>11 DEF EndOfFile, Go, Fail
<1>. QED BY <1>3, <1>4, <1>5, <1>6, <1>7, <1>8, <1>9, <1>10, <1>11 DEF ReadToken

\* What the grammar lets come next, at the places where something is refused.
LEMMA LegalHere ==
    ASSUME StackInv
    PROVE  /\ place = "start" => Grammar!Legal = {"{"}
           /\ place = "first member" => Grammar!Legal = Text \cup {"}"}
           /\ place = "member" => Grammar!Legal = Text
           /\ place = "colon" => Grammar!Legal = {":"}
           /\ place \in {"value", "rest of value"} =>
                  Grammar!Legal = Value \cup OutOfRange \cup {"{", "["}
           /\ place = "first element" => Grammar!Legal = Value \cup OutOfRange \cup {"{", "[", "]"}
           /\ place = "more" =>
                  Grammar!Legal = {",", IF Innermost = "array" THEN "]" ELSE "}"}
           /\ place = "end" => Grammar!Legal = {"end"}
<1>1. CASE place # "more"
  BY <1>1 DEF Grammar!Legal, Expected, Value
<1>2. CASE place = "more"
  <2>1. frames # <<>>
    BY <1>2, InnermostExists DEF Inside
  <2>2. Grammar!Closing(Grammar!Last(Brackets)) = IF Innermost = "array" THEN "]" ELSE "}"
    BY <2>1, BracketsAre, SameEnds DEF Grammar!Closing, Bracket, Innermost
  <2>3. Expected = "more"
    BY <1>2 DEF Expected
  <2>. QED BY <1>2, <2>2, <2>3 DEF Grammar!Legal
<1>. QED BY <1>1, <1>2

\* The four things a refused token can be told.
Malformed(t) == NoJson(t) \/ OtherType(t) \/ NoDouble(t)

Deep(t) == Len(frames) >= MaxDepth /\ ~EmptyArray(t)

Long(t) == t = "long string" /\ "" \in Grammar!Legal

Incomplete(t) == frames = <<>> /\ t \in Grammar!Legal /\ seen # Required

True(t, code) == \/ code = "malformed_json" /\ Malformed(t)
                 \/ code = "nesting_too_deep" /\ Deep(t)
                 \/ code = "string_too_long" /\ Long(t)
                 \/ code = "missing_required_field" /\ Incomplete(t)

\* check_depth refuses what would be one level too many.
LEMMA TooDeepIs ==
    ASSUME StackInv, \/ place = "start" /\ TooDeep(1)
                     \/ place \in Inside /\ TooDeep(ChildDepth)
    PROVE  Len(frames) >= MaxDepth
<1>1. Len(frames) \in Nat
  BY LenProperties DEF StackInv, StackOK
<1>2. \A n \in Nat : n + 1 > MaxDepth => n >= MaxDepth
  BY DepthAssumption
<1>3. CASE place = "start"
  <2>1. Len(frames) = 0 /\ 1 > MaxDepth
    BY <1>3, EmptySeq DEF StackInv, Outside, Inside, TooDeep
  <2>. QED BY <2>1, DepthAssumption
<1>4. CASE place \in Inside
  <2>1. Len(frames) + 1 > MaxDepth
    BY <1>4, ChildDepthIs DEF TooDeep, Inside
  <2>. QED BY <1>1, <1>2, <2>1
<1>. QED BY <1>3, <1>4

\* parse_string knows its own error, and only where a string may come.
LEMMA ComplaintIsTrue ==
    ASSUME NEW t, NEW strings \in BOOLEAN, strings => "" \in Grammar!Legal, Malformed(t)
    PROVE  True(t, Complaint(t, strings))
BY DEF Complaint, True, Long

LEMMA RefusalIsTrue ==
    ASSUME StackInv, ElementInv, NEW t \in Token, ReadToken(t), error' # error
    PROVE  True(t, error')
<1>1. "" \in Text /\ "" \in Value
  BY DEF Text, Value
<1>2. \/ place = "start" /\ TooDeep(1)
      \/ place \in Inside /\ TooDeep(ChildDepth)
      => (~EmptyArray(t) => True(t, "nesting_too_deep"))
  BY TooDeepIs DEF True, Deep
<1>3. Malformed(t) => True(t, "malformed_json")
  BY DEF True
<1>. HIDE DEF True
<1>4. CASE Start(t)
  <2>1. t # "{" => Malformed(t)
    BY <1>4, LegalHere DEF Start, Malformed, NoJson
  <2>. QED BY <1>2, <1>3, <1>4, <2>1 DEF Start, Go, Fail, EmptyArray
<1>5. CASE ReadKey(t)
  <2>1. /\ t \notin Text /\ ~(t = "}" /\ place = "first member")
        /\ error' = Complaint(t, TRUE)
    BY <1>5 DEF ReadKey, Leave, Go, Fail
  <2>2. Malformed(t) /\ "" \in Grammar!Legal
    BY <1>1, <1>5, <2>1, LegalHere DEF ReadKey, Malformed, NoJson
  <2>. QED BY <2>1, <2>2, ComplaintIsTrue
<1>6. CASE ReadColon(t)
  <2>1. t # ":" => Malformed(t)
    BY <1>6, LegalHere DEF ReadColon, Malformed, NoJson
  <2>. QED BY <1>3, <1>6, <2>1 DEF ReadColon, Go, Fail
<1>. DEFINE Reading == place \in {"value", "rest of value", "first element"}
<1>7. Reading => "" \in Grammar!Legal /\ AtValue /\ frames # <<>>
  BY <1>1, LegalHere, InnermostExists DEF AtValue, Inside
<1>8. CASE RequiredString(t)
  <2>1. /\ Reading /\ Innermost = "root" /\ field \in Required
        /\ t \notin Text /\ error' = Complaint(t, TRUE)
    BY <1>8 DEF RequiredString, Reads, Go, Fail
  <2>2. Malformed(t)
    BY <1>7, <2>1 DEF Malformed, OtherType, Permitted, Required
  <2>. QED BY <1>7, <2>1, <2>2, ComplaintIsTrue
<1>9. CASE SampleRate(t)
  <2>1. /\ Reading /\ Innermost = "root" /\ field = "sample_rate"
        /\ t # "positive" /\ error' = "malformed_json"
    BY <1>9 DEF SampleRate, Reads, Required, Go, Fail
  <2>2. Malformed(t)
    BY <1>7, <2>1 DEF Malformed, OtherType, Permitted, Required
  <2>. QED BY <1>3, <2>1, <2>2
<1>10. ASSUME NEW V, NEW strings \in BOOLEAN, Optional(t, V, strings),
              Reading, Innermost = "metadata", Permitted = V \cup {"null"}
       PROVE  True(t, error')
  <2>1. /\ t \notin V /\ ~(t = "null" /\ place = "value")
        /\ error' = Complaint(t, strings)
    BY <1>10 DEF Optional, Go, Fail
  <2>2. place # "first element"
    BY <1>10 DEF ElementInv
  <2>3. Malformed(t)
    BY <1>7, <1>10, <2>1, <2>2 DEF Malformed, NoJson, OtherType
  <2>. QED BY <1>7, <1>10, <2>1, <2>3, ComplaintIsTrue
<1>11. CASE OptionalString(t)
  <2>1. Reading /\ Innermost = "metadata" /\ field = "name"
    BY <1>11 DEF OptionalString, Reads
  <2>2. Permitted = Text \cup {"null"}
    BY <1>7, <2>1 DEF Permitted
  <2>. QED BY <1>10, <1>11, <2>1, <2>2 DEF OptionalString
<1>12. CASE OptionalNumber(t)
  <2>1. Reading /\ Innermost = "metadata" /\ field = "input_level_dbu"
    BY <1>12 DEF OptionalNumber, Reads
  <2>2. Permitted = Number \cup {"null"}
    BY <1>7, <2>1 DEF Permitted
  <2>. QED BY <1>10, <1>12, <2>1, <2>2 DEF OptionalNumber
<1>13. CASE OpenMetadata(t)
  <2>1. Reading /\ Innermost = "root" /\ field = "metadata"
    BY <1>13 DEF OpenMetadata, Reads, Required
  <2>2. ~EmptyArray(t)
    BY <2>1 DEF ElementInv, EmptyArray
  <2>3. t # "{" => Malformed(t)
    BY <1>7, <2>1 DEF Malformed, OtherType, Permitted, Required
  <2>. QED BY <1>2, <1>3, <1>13, <2>1, <2>2, <2>3 DEF OpenMetadata, Go, Fail, Inside
<1>14. CASE SkipValue(t)
  <2>1. Reading /\ ~EmptyArray(t)
    BY <1>14 DEF SkipValue, Reads, Leave, Go
  <2>2. CASE TooDeep(ChildDepth)
    BY <1>2, <1>14, <2>1, <2>2 DEF SkipValue, Fail, Inside
  <2>3. CASE ~TooDeep(ChildDepth)
    <3>1. t \notin Value \cup {"{", "["} /\ error' = Complaint(t, TRUE)
      BY <1>14, <2>1, <2>3 DEF SkipValue, Value, Go, Fail
    <3>2. CASE t \in OutOfRange
      <4>1. Malformed(t)
        BY <1>7, <2>1, <3>2 DEF Malformed, NoDouble
      <4>. QED BY <1>7, <2>1, <3>1, <4>1, ComplaintIsTrue
    <3>3. CASE t \notin OutOfRange
      <4>1. Malformed(t)
        BY <2>1, <3>1, <3>3, LegalHere DEF Malformed, NoJson, EmptyArray
      <4>. QED BY <1>7, <2>1, <3>1, <4>1, ComplaintIsTrue
    <3>. QED BY <3>2, <3>3
  <2>. QED BY <2>2, <2>3
<1>15. CASE ReadSeparator(t)
  <2>1. /\ t \notin {",", IF Innermost = "array" THEN "]" ELSE "}"}
        /\ place = "more" /\ error' = "malformed_json"
    BY <1>15 DEF ReadSeparator, Leave, Go, Fail
  <2>2. Malformed(t)
    BY <2>1, LegalHere DEF Malformed, NoJson
  <2>. QED BY <1>3, <2>1, <2>2
<1>16. CASE EndOfFile(t)
  <2>1. place = "end" /\ frames = <<>> /\ Grammar!Legal = {"end"}
    BY <1>16, LegalHere DEF EndOfFile, StackInv, Outside
  <2>2. t # "end" => Malformed(t)
    BY <2>1 DEF Malformed, NoJson
  <2>3. t = "end" /\ seen # Required => True(t, "missing_required_field")
    BY <2>1 DEF True, Incomplete
  <2>. QED BY <1>3, <1>16, <2>2, <2>3 DEF EndOfFile, Go, Fail
<1>. QED BY <1>4, <1>5, <1>6, <1>8, <1>9, <1>11, <1>12, <1>13, <1>14, <1>15, <1>16
         DEF ReadToken

(* For every limit and every file, an error of read_metadata has its cause in *)
(* the file.  What is called malformed is no JSON where the descent stands,   *)
(* or JSON with a known field of another type, or JSON with a number outside  *)
(* the range of a double, be it in a known field or in what is skipped; too   *)
(* deep, too long and incomplete are said only of what is.                    *)
THEOREM RefusalsTellTheTruth == ReaderSpec => RefusalsAreTrue
<1>1. ReaderInit => StackInv /\ ElementInv
  BY SoundInit DEF ReaderInit, ElementInv
<1>2. StackInv /\ FieldInv /\ ElementInv /\ [ReaderNext]_readerVars => ElementInv'
  <2>. SUFFICES ASSUME StackInv, ElementInv, [ReaderNext]_readerVars
                PROVE  ElementInv'
    OBVIOUS
  <2>1. CASE Inspect
    BY <2>1 DEF Inspect, Go, Fail, ElementInv
  <2>2. CASE UNCHANGED readerVars
    BY <2>2 DEF readerVars, ElementInv, Innermost
  <2>. QED BY <2>1, <2>2, ElementStep DEF ReaderNext
<1>3. StackInv /\ ElementInv /\ [ReaderNext]_readerVars =>
          [error' # error =>
            CASE error' = "malformed_json" ->
                    NoJson(last') \/ OtherType(last') \/ NoDouble(last')
              [] error' = "nesting_too_deep" ->
                    Len(frames) >= MaxDepth /\ ~EmptyArray(last')
              [] error' = "string_too_long" ->
                    last' = "long string" /\ "" \in Grammar!Legal
              [] error' = "missing_required_field" ->
                    frames = <<>> /\ last' \in Grammar!Legal /\ seen # Required
              [] OTHER -> place = "file"]_readerVars
  <2>. SUFFICES ASSUME StackInv, ElementInv, ReaderNext, error' # error
                PROVE  CASE error' = "malformed_json" -> Malformed(last')
                         [] error' = "nesting_too_deep" -> Deep(last')
                         [] error' = "string_too_long" -> Long(last')
                         [] error' = "missing_required_field" -> Incomplete(last')
                         [] OTHER -> place = "file"
    BY DEF Malformed, Deep, Long, Incomplete, readerVars
  <2>1. CASE Inspect
    BY <2>1 DEF Inspect, Go, Fail
  <2>2. ASSUME NEW t \in Token, ReadToken(t)
        PROVE  last' = t /\ True(t, error')
    BY <2>2, RefusalIsTrue DEF ReadToken
  <2>3. CASE ~Inspect
    <3>1. True(last', error')
      BY <2>2, <2>3 DEF ReaderNext
    <3>. QED BY <3>1 DEF True
  <2>. QED BY <2>1, <2>3
<1>4. RecursionSound => StackInv /\ FieldInv
  BY SoundIs
<1>. QED BY <1>1, <1>2, <1>3, <1>4, RecursionIsSound, PTL DEF ReaderSpec, RefusalsAreTrue

-----------------------------------------------------------------------------
(* JsonString. *)

\* The text before the character that is being read.
TextRead == /\ Len(units) = Len(text) + (IF scan = "low" THEN 1 ELSE 0)
            /\ \A i \in 1..Len(text) : units[i] = Utf16(text[i])
            /\ scan = "low" => units[Len(units)] = <<high>>

\* Nothing is decoded before the quote.
Beginning == scan = "quote" => text = <<>> /\ bytes = 0 /\ units = <<>>

StringInv == /\ StringTypeOK
             /\ Beginning
             /\ \A i \in 1..Len(text) : ~IsHigh(text[i]) /\ ~IsLow(text[i])
             /\ scan \in {"text", "low", "closed", "toolong"} => TextRead
             /\ LimitIsExact

LEMMA Utf8Range == \A c \in Nat : Utf8Length(c) \in 1..4
BY SMT DEF Utf8Length

\* The last code point is not written out, as ranges of literals are enumerated.
LEMMA CodePointIsNat == /\ CodePoint \subseteq Nat
                        /\ \A c \in Nat : c < \h110000 => c \in CodePoint
<1>1. LastCodePoint \in Nat /\ \A c \in Nat : c < \h110000 => c <= LastCodePoint
  BY SMT DEF LastCodePoint
<1> QED BY <1>1, SMT DEF CodePoint

LEMMA PairOfPlane ==
    ASSUME NEW m \in Nat, NEW n \in Nat, m < 1024, n < 1024
    PROVE  /\ (m * 1024 + n) \div 1024 = m
           /\ (m * 1024 + n) % 1024 = n
BY SMT

\* The code units of a pair are those of the code point it is combined to.
LEMMA CombinedPair ==
    ASSUME NEW a \in Nat, NEW b \in Nat, IsHigh(a), IsLow(b)
    PROVE  /\ Combine(a, b) \in CodePoint
           /\ ~IsHigh(Combine(a, b)) /\ ~IsLow(Combine(a, b))
           /\ Utf16(Combine(a, b)) = <<a, b>>
<1> SUFFICES ASSUME NEW m \in Nat, NEW n \in Nat, m = a - \hD800, n = b - \hDC00
             PROVE  /\ Combine(a, b) \in CodePoint
                    /\ ~IsHigh(Combine(a, b)) /\ ~IsLow(Combine(a, b))
                    /\ Utf16(Combine(a, b)) = <<a, b>>
  BY SMT DEF IsHigh, IsLow
<1>1. m < 1024 /\ n < 1024 BY SMT DEF IsHigh, IsLow
<1>2. PICK c \in Nat : c = Combine(a, b) /\ c = 65536 + m * 1024 + n
  BY SMT DEF Combine
<1>3. c \in CodePoint /\ ~IsHigh(c) /\ ~IsLow(c)
  BY <1>1, <1>2, CodePointIsNat, SMT DEF IsHigh, IsLow
<1>4. /\ ~(c < 65536) /\ c - 65536 = m * 1024 + n
      /\ \hD800 + m = a /\ \hDC00 + n = b
  BY <1>2, SMT
<1>5. (c - 65536) \div 1024 = m /\ (c - 65536) % 1024 = n
  BY <1>1, <1>4, PairOfPlane, SMT
<1>6. Utf16(c) = <<a, b>> BY <1>4, <1>5, SMT DEF Utf16
<1> QED BY <1>2, <1>3, <1>6, SMT

LEMMA LimitIsNat == MaxStringBytes \in Nat
BY StringAssumption, SMT

LEMMA UnitIsNat == Unit \subseteq Nat
BY StringAssumption, SMT

LEMMA AppendToOne ==
    ASSUME NEW S, NEW a \in S, NEW b \in S
    PROVE  Append(<<a>>, b) \in Seq(S) /\ Append(<<a>>, b) = <<a, b>>
<1>1. <<a>> \in Seq(S) /\ Len(<<a>>) = 1 /\ <<a>>[1] = a OBVIOUS
<1> DEFINE s == Append(<<a>>, b)
           t == <<a, b>>
<1>2. s \in Seq(S) /\ Len(s) = 2 /\ s[1] = a /\ s[2] = b BY <1>1
<1>3. t \in Seq(S) /\ Len(t) = 2 /\ t[1] = a /\ t[2] = b OBVIOUS
<1> HIDE DEF s, t
<1>4. \A i \in 1..2 : i = 1 \/ i = 2 OBVIOUS
<1>5. s = t BY <1>2, <1>3, <1>4, SeqEqual
<1> QED BY <1>2, <1>5 DEF s, t

\* A character is appended whose units have been read.
LEMMA AppendInv ==
    ASSUME NEW c \in CodePoint, StringInv, scan \in {"text", "low"},
           ~IsHigh(c), ~IsLow(c), AppendPoint(c),
           units' \in Seq(Seq(Unit)),
           Len(units') = Len(text) + 1,
           \A i \in 1..Len(text) : units'[i] = units[i],
           units'[Len(text) + 1] = Utf16(c)
    PROVE  StringInv'
<1>1. /\ text \in Seq(CodePoint) /\ bytes \in Nat /\ bytes <= MaxStringBytes
      /\ TextRead
  BY DEF StringInv, StringTypeOK, LimitIsExact, Beginning
<1>2. /\ text' = Append(text, c) /\ bytes' = bytes + Utf8Length(c) /\ high' = 0
      /\ scan' = IF bytes' > MaxStringBytes THEN "toolong" ELSE "text"
  BY DEF AppendPoint
<1>3. Utf8Length(c) \in 1..4 BY Utf8Range, CodePointIsNat
<1>4. bytes' \in Nat /\ LimitIsExact'
  BY <1>1, <1>2, <1>3, LimitIsNat DEF LimitIsExact
<1>5. /\ text' \in Seq(CodePoint) /\ Len(text') = Len(text) + 1
      /\ \A i \in 1..Len(text) : text'[i] = text[i]
      /\ text'[Len(text) + 1] = c
  BY <1>1, <1>2
<1>6. Len(text) \in Nat /\ \A i \in 1..Len(text') : i \in 1..Len(text) \/ i = Len(text) + 1
  BY <1>1, <1>5
<1>7. StringTypeOK' BY <1>2, <1>4, <1>5 DEF StringTypeOK
<1>8. \A i \in 1..Len(text') : ~IsHigh(text'[i]) /\ ~IsLow(text'[i])
  BY <1>5, <1>6 DEF StringInv
<1>9. \A i \in 1..Len(text') : units'[i] = Utf16(text'[i])
  BY <1>1, <1>5, <1>6 DEF TextRead
<1>10. TextRead' BY <1>2, <1>5, <1>9 DEF TextRead
<1>11. Beginning' BY <1>2 DEF Beginning
<1> QED BY <1>4, <1>7, <1>8, <1>10, <1>11 DEF StringInv

LEMMA EndsInv ==
    ASSUME NEW how, StringInv, Ends(how), units' \in Seq(Seq(Unit)),
           \/ how = "malformed"
           \/ how = "closed" /\ scan = "text" /\ units' = units
    PROVE  StringInv'
BY DEF StringInv, StringTypeOK, TextRead, LimitIsExact, Beginning, Ends

LEMMA StringInvInit == StringInit => StringInv
BY LimitIsNat DEF StringInit, StringInv, StringTypeOK, TextRead, LimitIsExact, Beginning

LEMMA StringInvNext == StringInv /\ [StringNext]_stringVars => StringInv'
<1> SUFFICES ASSUME StringInv, [StringNext]_stringVars PROVE StringInv' OBVIOUS
<1>1. /\ text \in Seq(CodePoint) /\ units \in Seq(Seq(Unit)) /\ Len(text) \in Nat
      /\ Len(units) \in Nat
  BY DEF StringInv, StringTypeOK
<1>2. CASE UNCHANGED stringVars
  BY <1>2 DEF stringVars, StringInv, StringTypeOK, TextRead, LimitIsExact, Beginning
<1>3. CASE OpenQuote
  <2>1. CASE Ends("text")
    <3>1. text = <<>> /\ bytes = 0 /\ units = <<>>
      BY <1>3 DEF OpenQuote, StringInv, Beginning
    <3> QED BY <2>1, <1>3, <3>1, LimitIsNat
       DEF OpenQuote, Ends, StringInv, StringTypeOK, TextRead, LimitIsExact, Beginning
  <2> QED BY <1>1, <1>3, <2>1, EndsInv DEF OpenQuote
<1>4. CASE CloseQuote BY <1>1, <1>4, EndsInv DEF CloseQuote
<1>5. ASSUME NEW byte \in Unit \cap 0..127, Plain(byte) PROVE StringInv'
  <2>1. TextRead /\ scan = "text" /\ Len(units) = Len(text) BY <1>5 DEF Plain, StringInv, TextRead
  <2>2. units' = Append(units, <<byte>>) BY <1>5 DEF Plain
  <2>3. byte \in CodePoint /\ Utf16(byte) = <<byte>> /\ ~IsHigh(byte) /\ ~IsLow(byte)
    BY CodePointIsNat, SMT DEF Utf16, IsHigh, IsLow
  <2>4. /\ units' \in Seq(Seq(Unit)) /\ Len(units') = Len(text) + 1
        /\ \A i \in 1..Len(text) : units'[i] = units[i]
        /\ units'[Len(text) + 1] = <<byte>>
    BY <1>1, <2>1, <2>2
  <2> QED BY <1>5, <2>1, <2>3, <2>4, AppendInv DEF Plain
<1>6. ASSUME NEW unit \in Unit, Escape(unit) PROVE StringInv'
  <2>1. TextRead /\ scan = "text" /\ Len(units) = Len(text) BY <1>6 DEF Escape, StringInv, TextRead
  <2>2. units' = Append(units, <<unit>>) BY <1>6 DEF Escape
  <2>3. unit \in CodePoint /\ Utf16(unit) = <<unit>>
    BY StringAssumption, CodePointIsNat, SMT DEF Utf16
  <2>4. /\ units' \in Seq(Seq(Unit)) /\ Len(units') = Len(text) + 1
        /\ \A i \in 1..Len(text) : units'[i] = units[i]
        /\ units'[Len(text) + 1] = <<unit>>
    BY <1>1, <2>1, <2>2
  <2>5. CASE IsHigh(unit)
    <3>1. scan' = "low" /\ high' = unit /\ text' = text /\ bytes' = bytes
      BY <1>6, <2>5 DEF Escape
    <3>2. TextRead' BY <2>1, <2>4, <3>1 DEF TextRead
    <3> QED BY <2>1, <2>4, <2>5, <3>1, <3>2, UnitIsNat DEF StringInv, StringTypeOK, LimitIsExact, Beginning
  <2>6. CASE ~IsHigh(unit) /\ IsLow(unit)
    BY <1>6, <2>4, <2>6, EndsInv DEF Escape
  <2>7. CASE ~IsHigh(unit) /\ ~IsLow(unit)
    BY <1>6, <2>1, <2>3, <2>4, <2>7, AppendInv DEF Escape
  <2> QED BY <2>5, <2>6, <2>7
<1>7. ASSUME NEW unit \in Unit, LowSurrogate(unit) PROVE StringInv'
  <2>1. /\ TextRead /\ scan = "low" /\ Len(units) = Len(text) + 1
        /\ units[Len(units)] = <<high>>
    BY <1>7 DEF LowSurrogate, StringInv, TextRead
  <2>2. units' = [units EXCEPT ![Len(units)] = Append(@, unit)] BY <1>7 DEF LowSurrogate
  <2>0. Append(<<high>>, unit) \in Seq(Unit) /\ Append(<<high>>, unit) = <<high, unit>>
    <3>1. Len(units) \in 1..Len(units) BY <1>1, <2>1
    <3>2. <<high>> \in Seq(Unit)
      <4>1. \A i \in 1..Len(units) : units[i] \in Seq(Unit)
        BY <1>1, ElementOfSeq
      <4> QED BY <2>1, <3>1, <4>1
    <3>3. <<high>>[1] = high /\ Len(<<high>>) = 1 OBVIOUS
    <3>4. high \in Unit BY <3>2, <3>3
    <3> QED BY <3>4, AppendToOne
  <2>3. /\ units' \in Seq(Seq(Unit)) /\ Len(units') = Len(text) + 1
        /\ \A i \in 1..Len(text) : units'[i] = units[i]
        /\ units'[Len(text) + 1] = Append(<<high>>, unit)
    <3>1. DOMAIN units = 1..Len(units) /\ Len(units) \in 1..Len(units)
      BY <1>1, <2>1
    <3>2. Append(<<high>>, unit) \in Seq(Unit) BY <2>0
    <3>3. units' \in Seq(Seq(Unit)) /\ Len(units') = Len(units)
      BY <1>1, <2>1, <2>2, <3>1, <3>2
    <3>4. \A i \in 1..Len(units) :
             units'[i] = IF i = Len(units) THEN Append(<<high>>, unit) ELSE units[i]
      BY <2>1, <2>2, <3>1
    <3>5. \A i \in 1..Len(text) : i \in 1..Len(units) /\ i # Len(units)
      BY <1>1, <2>1
    <3> QED BY <2>1, <3>1, <3>3, <3>4, <3>5
  <2>4. high \in Nat /\ IsHigh(high) /\ unit \in Nat
    BY <2>1, UnitIsNat DEF StringInv, StringTypeOK
  <2>5. Append(<<high>>, unit) = <<high, unit>> BY <2>0
  <2>6. CASE IsLow(unit)
    <3>1. AppendPoint(Combine(high, unit)) BY <1>7, <2>6 DEF LowSurrogate
    <3>2. /\ Combine(high, unit) \in CodePoint
          /\ ~IsHigh(Combine(high, unit)) /\ ~IsLow(Combine(high, unit))
          /\ Utf16(Combine(high, unit)) = <<high, unit>>
      BY <2>4, <2>6, CombinedPair
    <3> QED BY <2>1, <2>3, <2>5, <3>1, <3>2, AppendInv
  <2>7. CASE ~IsLow(unit) BY <1>7, <2>3, <2>7, EndsInv DEF LowSurrogate
  <2> QED BY <2>6, <2>7
<1>8. CASE NoLowSurrogate BY <1>1, <1>8, EndsInv DEF NoLowSurrogate
<1> QED BY <1>2, <1>3, <1>4, <1>5, <1>6, <1>7, <1>8 DEF StringNext

(* However characters of ASCII are written, whatever is escaped and wherever the *)
(* limit falls, parse_string returns the characters that were written, no        *)
(* surrogate among them and within the limit, and refuses as too long only what  *)
(* exceeds it, by one character at most.                                         *)
THEOREM StringsAreExact == StringSpec => []StringIsExact
<1>1. StringInv => StringIsExact
  <2> SUFFICES ASSUME StringInv PROVE StringIsExact OBVIOUS
  <2>1. CASE scan \in {"text", "closed", "toolong"}
    <3>1. /\ units \in Seq(Seq(Unit)) /\ Len(units) = Len(text) /\ Len(text) \in Nat
          /\ \A i \in 1..Len(text) : units[i] = Utf16(text[i])
      BY <2>1 DEF StringInv, StringTypeOK, TextRead
    <3>2. units = [i \in 1..Len(units) |-> units[i]] BY <3>1
    <3>3. units = [i \in 1..Len(text) |-> Utf16(text[i])] BY <3>1, <3>2
    <3> QED BY <3>3 DEF StringInv, StringIsExact, OutputIsText
  <2> QED BY <2>1 DEF StringInv, StringIsExact, OutputIsText
<1> QED BY <1>1, StringInvInit, StringInvNext, PTL DEF StringSpec

-----------------------------------------------------------------------------
(* DecimalToken: the powers of ten. *)

LEMMA LeastNat ==
    ASSUME NEW T \in SUBSET Nat, T # {}
    PROVE  \E n \in T : \A m \in T : n <= m
<1>1. \E n \in T : \A m \in T : ~(<<m, n>> \in OpToRel(<, Nat))
  BY NatLessThanWellFounded, WFMin
<1>2. \A m, n \in Nat : m < n => <<m, n>> \in OpToRel(<, Nat)
  BY Zenon DEF OpToRel
<1>3. \A m, n \in Nat : n <= m \/ m < n OBVIOUS
<1> QED BY <1>1, <1>2, <1>3

\* The powers of ten up to one of them.
Powers(g, n) == /\ g \in [0..n -> Nat]
                /\ g[0] = 1
                /\ \A m \in 1..n : g[m] = 10 * g[m - 1]

LEMMA PowersExist == \A n \in Nat : \E g : Powers(g, n)
<1> DEFINE Bad == {n \in Nat : ~ \E g : Powers(g, n)}
<1> SUFFICES ASSUME Bad # {} PROVE FALSE
  OBVIOUS
<1>1. PICK n \in Bad : \A m \in Bad : n <= m
  <2>1. Bad \in SUBSET Nat OBVIOUS
  <2> HIDE DEF Bad
  <2> QED BY <2>1, LeastNat
<1>2. n \in Nat BY <1>1
<1>3. n # 0
  <2>1. Powers([m \in 0..0 |-> 1], 0) BY DEF Powers
  <2> QED BY <1>1, <2>1
<1>4. n - 1 \in Nat BY <1>2, <1>3
<1>5. n - 1 \notin Bad BY <1>1, <1>2, <1>4
<1>6. PICK g : Powers(g, n - 1) BY <1>4, <1>5
<1> DEFINE h == [m \in 0..n |-> IF m = n THEN 10 * g[n - 1] ELSE g[m]]
<1>7. /\ g \in [0..(n - 1) -> Nat] /\ g[0] = 1 /\ n - 1 \in 0..(n - 1)
      /\ \A m \in 1..(n - 1) : g[m] = 10 * g[m - 1]
      /\ \A m \in 0..n : m = n \/ m \in 0..(n - 1)
  BY <1>2, <1>4, <1>6 DEF Powers
<1>8. h \in [0..n -> Nat]
  <2>1. \A m \in 0..n : h[m] \in Nat BY <1>7
  <2> QED BY <2>1
<1>9. h[0] = 1 BY <1>2, <1>3, <1>7
<1>10. ASSUME NEW m \in 1..n PROVE h[m] = 10 * h[m - 1]
  <2>1. m - 1 \in 0..(n - 1) /\ m - 1 # n /\ m - 1 \in 0..n BY <1>2
  <2>2. h[m - 1] = g[m - 1] BY <2>1
  <2>3. CASE m = n BY <1>2, <2>2, <2>3
  <2>4. CASE m # n
    <3>1. m \in 1..(n - 1) /\ m \in 0..n BY <1>2, <2>4
    <3>2. h[m] = g[m] BY <2>4, <3>1
    <3> QED BY <1>7, <2>2, <3>1, <3>2
  <2> QED BY <2>3, <2>4
<1> HIDE DEF h
<1>11. Powers(h, n) BY <1>8, <1>9, <1>10 DEF Powers
<1> QED BY <1>1, <1>11

\* They are the same, however far they go.
LEMMA PowersAgree ==
    ASSUME NEW n \in Nat, NEW g, NEW h, Powers(g, n), Powers(h, n + 1)
    PROVE  \A m \in 0..n : g[m] = h[m]
<1> DEFINE Bad == {m \in 0..n : g[m] # h[m]}
<1> SUFFICES ASSUME Bad # {} PROVE FALSE
  OBVIOUS
<1>1. PICK m \in Bad : \A k \in Bad : m <= k
  <2>1. Bad \in SUBSET Nat OBVIOUS
  <2> HIDE DEF Bad
  <2> QED BY <2>1, LeastNat
<1>2. m \in 0..n /\ g[m] # h[m] BY <1>1
<1>3. m # 0 BY <1>2 DEF Powers
<1>4. m \in 1..n /\ m \in 1..(n + 1) /\ m - 1 \in 0..n /\ ~(m <= m - 1) BY <1>2, <1>3
<1>5. m - 1 \notin Bad BY <1>1, <1>4
<1>6. g[m - 1] = h[m - 1] BY <1>4, <1>5
<1>7. g[m] = 10 * g[m - 1] BY <1>4 DEF Powers
<1>8. h[m] = 10 * h[m - 1] BY <1>4 DEF Powers
<1> QED BY <1>2, <1>6, <1>7, <1>8

\* The recursive function is what its definition says.
LEMMA TensIs ==
    /\ Tens \in [Nat -> Nat]
    /\ Tens[0] = 1
    /\ \A n \in Nat : Tens[n + 1] = 10 * Tens[n]
<1> DEFINE P(n) == CHOOSE g : Powers(g, n)
           G    == [n \in Nat |-> P(n)[n]]
<1>1. \A n \in Nat : Powers(P(n), n) BY PowersExist
<1> HIDE DEF P
<1>2. G \in [Nat -> Nat]
  <2>1. \A n \in Nat : P(n)[n] \in Nat
    <3>1. \A n \in Nat : P(n) \in [0..n -> Nat] /\ n \in 0..n BY <1>1 DEF Powers
    <3> QED BY <3>1
  <2> QED BY <2>1
<1>3. G[0] = 1 BY <1>1 DEF Powers
<1>4. ASSUME NEW n \in Nat PROVE G[n + 1] = 10 * G[n]
  <2>1. n + 1 \in Nat /\ n + 1 \in 1..(n + 1) /\ n + 1 - 1 = n /\ n \in 0..n OBVIOUS
  <2>2. Powers(P(n), n) /\ Powers(P(n + 1), n + 1) BY <1>1, <2>1
  <2>3. P(n)[n] = P(n + 1)[n] BY <2>1, <2>2, PowersAgree
  <2>4. P(n + 1)[n + 1] = 10 * P(n + 1)[n] BY <2>1, <2>2 DEF Powers
  <2> QED BY <2>1, <2>3, <2>4
<1> HIDE DEF G
<1>5. ASSUME NEW n \in Nat PROVE G[n] = IF n = 0 THEN 1 ELSE 10 * G[n - 1]
  <2>1. CASE n = 0 BY <1>3, <2>1
  <2>2. CASE n # 0
    <3>1. n - 1 \in Nat /\ n - 1 + 1 = n BY <2>2
    <3>2. G[n - 1 + 1] = 10 * G[n - 1] BY <1>4, <3>1
    <3> QED BY <2>2, <3>1, <3>2
  <2> QED BY <2>1, <2>2
<1>6. G = [n \in Nat |-> IF n = 0 THEN 1 ELSE 10 * G[n - 1]] BY <1>2, <1>5
<1>7. Tens = CHOOSE g : g = [n \in Nat |-> IF n = 0 THEN 1 ELSE 10 * g[n - 1]]
  BY DEF Tens
<1>8. Tens = [n \in Nat |-> IF n = 0 THEN 1 ELSE 10 * Tens[n - 1]]
  BY <1>6, <1>7, Zenon
<1>9. Tens[0] = 1 BY <1>8
<1>10. ASSUME NEW n \in Nat PROVE Tens[n + 1] = 10 * Tens[n]
  <2>1. n + 1 \in Nat /\ n + 1 # 0 /\ n + 1 - 1 = n OBVIOUS
  <2>2. Tens[n + 1] = 10 * Tens[n + 1 - 1] BY <1>8, <2>1
  <2> QED BY <2>1, <2>2
<1>11. \A n \in Nat : Tens[n] \in Nat
  <2> DEFINE Bad == {n \in Nat : Tens[n] \notin Nat}
  <2> SUFFICES ASSUME Bad # {} PROVE FALSE
    OBVIOUS
  <2>1. PICK n \in Bad : \A m \in Bad : n <= m
    <3>1. Bad \in SUBSET Nat OBVIOUS
    <3> HIDE DEF Bad
    <3> QED BY <3>1, LeastNat
  <2>2. n \in Nat /\ Tens[n] \notin Nat BY <2>1
  <2>3. n # 0 BY <1>9, <2>2
  <2>4. n - 1 \in Nat /\ n - 1 + 1 = n /\ ~(n <= n - 1) BY <2>2, <2>3
  <2>5. Tens[n - 1] \in Nat BY <2>1, <2>4
  <2>6. Tens[n] = 10 * Tens[n - 1] BY <1>10, <2>4
  <2> QED BY <2>2, <2>5, <2>6
<1>12. Tens \in [Nat -> Nat] BY <1>8, <1>11
<1> QED BY <1>9, <1>10, <1>12

LEMMA TensGrow == \A m, n \in Nat : m <= n => Tens[m] <= Tens[n]
<1> SUFFICES ASSUME NEW m \in Nat PROVE \A n \in Nat : m <= n => Tens[m] <= Tens[n]
  OBVIOUS
<1> DEFINE Bad == {n \in Nat : m <= n /\ ~(Tens[m] <= Tens[n])}
<1> SUFFICES ASSUME Bad # {} PROVE FALSE
  OBVIOUS
<1>1. PICK n \in Bad : \A k \in Bad : n <= k
  <2>1. Bad \in SUBSET Nat OBVIOUS
  <2> HIDE DEF Bad
  <2> QED BY <2>1, LeastNat
<1>2. n \in Nat /\ m <= n /\ ~(Tens[m] <= Tens[n]) BY <1>1
<1>3. Tens[m] \in Nat BY TensIs
<1>4. m # n BY <1>2, <1>3
<1>5. n - 1 \in Nat /\ n - 1 + 1 = n /\ m <= n - 1 /\ ~(n <= n - 1) BY <1>2, <1>4
<1>6. Tens[m] <= Tens[n - 1] BY <1>1, <1>5
<1>7. Tens[n] = 10 * Tens[n - 1] /\ Tens[n - 1] \in Nat BY <1>5, TensIs
<1> QED BY <1>2, <1>3, <1>6, <1>7

\* The digits that are not stored.
Ignored == significant - stored

Scanned == /\ part \in {"integer", "fraction", "value", "zero", "refused"}
           /\ mantissa \in Nat /\ stored \in Nat /\ significant \in Nat /\ fraction \in Nat
           /\ written \in [value : Nat, digits : Nat, exponent : Int]
           /\ stored <= significant /\ stored <= StoredDigits
           /\ significant <= written.digits /\ fraction <= written.digits
           /\ written.digits <= MaxLength

\* The mantissa is the number scanned without the digits ignored, and has as
\* many digits as are stored.
Gathered == /\ significant > stored => stored = StoredDigits
            /\ significant = 0 => written.value = 0
            /\ mantissa < Tens[stored]
            /\ stored > 0 => mantissa >= Tens[stored - 1]
            /\ mantissa * Tens[Ignored] <= written.value
            /\ written.value < (mantissa + 1) * Tens[Ignored]

\* What the end of the token adds.
Scaled == /\ part = "value" => power = DecimalExponent(written.exponent)
          /\ part = "zero" => significant = 0

DecimalInv == Scanned /\ Gathered /\ Scaled

LEMMA DigitSizes == /\ StoredDigits \in Nat \ {0} /\ MaxLength \in Nat
                    /\ \A d \in Digit : d \in Nat /\ d <= 9
BY DigitAssumption

LEMMA DecimalInvInit == DecimalInit => DecimalInv
<1> SUFFICES ASSUME DecimalInit PROVE DecimalInv
  OBVIOUS
<1>1. Scanned BY DigitSizes DEF DecimalInit, Scanned
<1>2. Ignored = 0 BY DEF DecimalInit, Ignored
<1>3. Gathered BY <1>2, TensIs DEF DecimalInit, Gathered
<1>4. Scaled BY DEF DecimalInit, Scaled
<1> QED BY <1>1, <1>3, <1>4 DEF DecimalInv

\* One digit more, which is stored or ignored.
LEMMA OneMore ==
    ASSUME NEW m \in Nat, NEW v \in Nat, NEW t \in Nat, NEW d \in Nat, d <= 9,
           m * t <= v, v < (m + 1) * t
    PROVE  m * (10 * t) <= v * 10 + d /\ v * 10 + d < (m + 1) * (10 * t)
<1>1. m * t \in Nat /\ (m + 1) * t \in Nat BY SMT
<1>2. PICK x \in Nat, y \in Nat : x = m * t /\ y = (m + 1) * t BY <1>1
<1>3. m * (10 * t) = 10 * x /\ (m + 1) * (10 * t) = 10 * y BY <1>2, SMT
<1>4. 10 * x <= v * 10 + d /\ v * 10 + d < 10 * y BY <1>2, SMT
<1> QED BY <1>3, <1>4

LEMMA ScanDigitInv ==
    ASSUME DecimalInv, NEW digit \in Digit, ScanDigit(digit)
    PROVE  DecimalInv'
<1>1. digit \in Nat /\ digit <= 9 BY DigitSizes
<1>2. Scanned /\ Gathered BY DEF DecimalInv
<1>3. /\ part \in {"integer", "fraction"} /\ part' = part
      /\ written.digits < MaxLength
      /\ fraction' = IF part = "fraction" THEN fraction + 1 ELSE fraction
      /\ written' = [written EXCEPT !.value = @ * 10 + digit, !.digits = @ + 1]
      /\ StoreDigit(digit)
  BY DEF ScanDigit
<1>4. PICK v \in Nat : v = written.value BY <1>2 DEF Scanned
<1>5. /\ written' \in [value : Nat, digits : Nat, exponent : Int]
      /\ written'.value = v * 10 + digit /\ written'.digits = written.digits + 1
  <2>1. PICK a \in Nat : a = v * 10 + digit BY <1>1
  <2>2. written \in [value : Nat, digits : Nat, exponent : Int] BY <1>2 DEF Scanned
  <2>3. PICK b \in Nat : b = written.digits + 1 BY <2>2
  <2>4. written' = [written EXCEPT !.value = a, !.digits = b] BY <1>3, <1>4, <2>1, <2>3
  <2>5. /\ written' \in [value : Nat, digits : Nat, exponent : Int]
        /\ written'.value = a /\ written'.digits = b
    BY <2>2, <2>4
  <2> QED BY <2>1, <2>3, <2>5
<1>6. /\ mantissa \in Nat /\ stored \in Nat /\ significant \in Nat /\ fraction \in Nat
      /\ written.digits \in Nat /\ MaxLength \in Nat /\ StoredDigits \in Nat
      /\ stored <= significant /\ stored <= StoredDigits
      /\ significant <= written.digits /\ fraction <= written.digits
  BY <1>2, DigitSizes DEF Scanned
<1>7. /\ fraction' \in Nat /\ fraction' <= written.digits + 1
      /\ written.digits + 1 <= MaxLength
  BY <1>3, <1>6
<1>8. Scaled' BY <1>3 DEF Scaled
<1>9. CASE significant = 0 /\ digit = 0
  <2>1. UNCHANGED <<mantissa, stored, significant>> BY <1>3, <1>9 DEF StoreDigit
  <2>2. v = 0 /\ v * 10 + digit = 0 BY <1>2, <1>4, <1>9 DEF Gathered
  <2>3. Scanned' BY <1>3, <1>5, <1>6, <1>7, <2>1 DEF Scanned
  <2>4. Gathered' BY <1>2, <1>4, <1>5, <2>1, <2>2 DEF Gathered, Ignored
  <2> QED BY <1>8, <2>3, <2>4 DEF DecimalInv
<1>10. CASE ~(significant = 0 /\ digit = 0) /\ stored < StoredDigits
  <2>1. /\ significant' = significant + 1 /\ stored' = stored + 1
        /\ mantissa' = mantissa * 10 + digit
    BY <1>3, <1>10 DEF StoreDigit
  <2>2. significant = stored BY <1>2, <1>6, <1>10 DEF Gathered
  <2>3. Ignored = 0 /\ Ignored' = 0 BY <1>6, <2>1, <2>2 DEF Ignored
  <2>4. v = mantissa
    <3>1. mantissa * 1 <= v /\ v < (mantissa + 1) * 1
      BY <1>2, <1>4, <2>3, TensIs DEF Gathered
    <3> QED BY <1>6, <3>1
  <2>5. mantissa' \in Nat BY <1>1, <1>6, <2>1
  <2>6. Scanned' BY <1>3, <1>5, <1>6, <1>7, <1>10, <2>1, <2>2, <2>5 DEF Scanned
  <2>7. PICK t \in Nat : t = Tens[stored] /\ Tens[stored + 1] = 10 * t BY <1>6, TensIs
  <2>8. mantissa' < Tens[stored']
    <3>1. mantissa < t BY <1>2, <2>7 DEF Gathered
    <3>2. mantissa * 10 + digit < 10 * t BY <1>1, <1>6, <3>1
    <3> QED BY <2>1, <2>7, <3>2
  <2>9. mantissa' >= Tens[stored]
    <3>1. CASE stored = 0
      <4>1. digit > 0 BY <1>1, <1>10, <2>2, <3>1
      <4> QED BY <1>1, <1>6, <2>1, <3>1, <4>1, TensIs
    <3>2. CASE stored > 0
      <4>1. stored - 1 \in Nat /\ stored - 1 + 1 = stored BY <1>6, <3>2
      <4>2. PICK u \in Nat : u = Tens[stored - 1] /\ Tens[stored - 1 + 1] = 10 * u
        BY <4>1, TensIs
      <4>3. mantissa >= u BY <1>2, <3>2, <4>2 DEF Gathered
      <4>4. mantissa * 10 + digit >= 10 * u BY <1>1, <1>6, <4>3
      <4> QED BY <2>1, <4>1, <4>2, <4>4
    <3> QED BY <1>6, <3>1, <3>2
  <2>10. Gathered'
    <3>1. stored' - 1 = stored /\ significant' = stored' /\ significant' # 0
      BY <1>6, <2>1, <2>2
    <3>2. ASSUME NEW m \in Nat PROVE m * 1 <= m /\ m < (m + 1) * 1 OBVIOUS
    <3>3. written'.value = mantissa' BY <1>5, <2>1, <2>4
    <3>6. mantissa' * 1 <= mantissa' /\ mantissa' < (mantissa' + 1) * 1 BY <2>5, <3>2
    <3>4. /\ mantissa' * Tens[Ignored'] <= written'.value
          /\ written'.value < (mantissa' + 1) * Tens[Ignored']
      BY <2>3, <3>3, <3>6, TensIs, Zenon
    <3>5. ~(significant' > stored') BY <1>6, <2>1, <2>2
    <3> QED BY <2>8, <2>9, <3>1, <3>4, <3>5 DEF Gathered
  <2> QED BY <1>8, <2>6, <2>10 DEF DecimalInv
<1>11. CASE ~(significant = 0 /\ digit = 0) /\ ~(stored < StoredDigits)
  <2>1. significant' = significant + 1 /\ UNCHANGED <<mantissa, stored>>
    BY <1>3, <1>11 DEF StoreDigit
  <2>2. stored = StoredDigits BY <1>6, <1>11
  <2>3. Ignored \in Nat /\ Ignored' = Ignored + 1 BY <1>6, <2>1 DEF Ignored
  <2>4. Scanned' BY <1>3, <1>5, <1>6, <1>7, <2>1 DEF Scanned
  <2>5. PICK t \in Nat : t = Tens[Ignored] /\ Tens[Ignored + 1] = 10 * t BY <2>3, TensIs
  <2>6. mantissa * t <= v /\ v < (mantissa + 1) * t BY <1>2, <1>4, <2>5 DEF Gathered
  <2>7. mantissa * (10 * t) <= v * 10 + digit /\ v * 10 + digit < (mantissa + 1) * (10 * t)
    BY <1>1, <1>6, <2>6, OneMore
  <2>8. /\ mantissa' * Tens[Ignored'] <= written'.value
        /\ written'.value < (mantissa' + 1) * Tens[Ignored']
    BY <1>5, <2>1, <2>3, <2>5, <2>7
  <2>9. significant' # 0 /\ stored' = StoredDigits BY <1>6, <2>1, <2>2
  <2>10. mantissa' < Tens[stored'] /\ (stored' > 0 => mantissa' >= Tens[stored' - 1])
    BY <1>2, <2>1 DEF Gathered
  <2>11. Gathered' BY <2>8, <2>9, <2>10 DEF Gathered
  <2> QED BY <1>8, <2>4, <2>11 DEF DecimalInv
<1> QED BY <1>9, <1>10, <1>11

LEMMA ScaleInv ==
    ASSUME DecimalInv, NEW exponent \in Exponents, Scale(exponent)
    PROVE  DecimalInv'
<1>1. exponent \in Int BY DigitAssumption
<1>2. Scanned /\ Gathered BY DEF DecimalInv
<1>3. /\ written' = [written EXCEPT !.exponent = exponent]
      /\ power' = DecimalExponent(exponent)
      /\ UNCHANGED <<mantissa, stored, significant, fraction>>
      /\ part' \in {"zero", "value", "refused"}
      /\ part' = "zero" => significant = 0
  BY DEF Scale
<1>4. /\ written' \in [value : Nat, digits : Nat, exponent : Int]
      /\ written'.value = written.value /\ written'.digits = written.digits
      /\ written'.exponent = exponent
  BY <1>1, <1>2, <1>3 DEF Scanned
<1>5. Scanned' BY <1>2, <1>3, <1>4 DEF Scanned
<1>6. Gathered' BY <1>2, <1>3, <1>4 DEF Gathered, Ignored
<1>7. Scaled' BY <1>3, <1>4 DEF Scaled, DecimalExponent
<1> QED BY <1>5, <1>6, <1>7 DEF DecimalInv

LEMMA DecimalStep == DecimalInv /\ [DecimalNext]_decimalVars => DecimalInv'
<1> SUFFICES ASSUME DecimalInv, [DecimalNext]_decimalVars PROVE DecimalInv'
  OBVIOUS
<1>1. ASSUME NEW digit \in Digit, ScanDigit(digit) PROVE DecimalInv'
  BY <1>1, ScanDigitInv
<1>2. CASE ScanPoint
  BY <1>2 DEF ScanPoint, DecimalInv, Scanned, Gathered, Scaled, Ignored
<1>3. ASSUME NEW exponent \in Exponents, Scale(exponent) PROVE DecimalInv'
  BY <1>3, ScaleInv
<1>4. CASE UNCHANGED decimalVars
  BY <1>4 DEF decimalVars, DecimalInv, Scanned, Gathered, Scaled, Ignored, DecimalExponent
<1> QED BY <1>1, <1>2, <1>3, <1>4 DEF DecimalNext

LEMMA DecimalInvIsEnough == DecimalInv => NumberIsExact
<1> SUFFICES ASSUME DecimalInv PROVE NumberIsExact
  OBVIOUS
<1>1. Scanned /\ Gathered /\ Scaled BY DEF DecimalInv
<1>2. /\ mantissa \in Nat /\ stored \in Nat /\ significant \in Nat /\ fraction \in Nat
      /\ written.value \in Nat /\ written.digits \in Nat /\ written.exponent \in Int
      /\ MaxLength \in Nat /\ StoredDigits \in Nat /\ stored <= StoredDigits
      /\ stored <= significant
  BY <1>1, DigitSizes DEF Scanned
<1>3. DecimalTypeOK BY <1>1, <1>2 DEF Scanned, DecimalTypeOK
<1>4. MantissaFits
  <2>1. Tens[stored] <= Tens[StoredDigits] /\ Tens[stored] \in Nat /\ Tens[StoredDigits] \in Nat
    BY <1>2, TensGrow, TensIs
  <2>2. mantissa < Tens[stored] BY <1>1 DEF Gathered
  <2> QED BY <1>2, <2>1, <2>2 DEF MantissaFits
<1>5. ValueIsWritten
  <2>1. ASSUME part = "zero" PROVE written.value = 0
    BY <1>1, <2>1 DEF Scaled, Gathered
  <2>2. ASSUME part = "value"
        PROVE  power - (written.exponent - fraction) = Ignored
    BY <1>1, <1>2, <2>2 DEF Scaled, DecimalExponent, Ignored
  <2>3. Ignored \in Nat /\ (Ignored > 0 => significant > stored) BY <1>2 DEF Ignored
  <2>4. Ignored > 0 => mantissa >= Tens[StoredDigits - 1]
    <3>1. Ignored > 0 => stored = StoredDigits /\ stored > 0
      BY <1>1, <2>3, DigitSizes DEF Gathered
    <3> QED BY <1>1, <3>1 DEF Gathered
  <2>5. /\ mantissa * Tens[Ignored] <= written.value
        /\ written.value < (mantissa + 1) * Tens[Ignored]
    BY <1>1 DEF Gathered
  <2>6. Ignored >= 0 BY <2>3
  <2> HIDE DEF Ignored
  <2> QED BY <2>1, <2>2, <2>4, <2>5, <2>6 DEF ValueIsWritten
<1> QED BY <1>3, <1>4, <1>5 DEF NumberIsExact

(* parse_decimal_token returns the number that is written, cut off after the  *)
(* digits stored, and never needs more of them, for every length of a token.  *)
THEOREM NumbersAreExact == DecimalSpec => []NumberIsExact
<1>1. DecimalInit => DecimalInv BY DecimalInvInit
<1>2. DecimalInv /\ [DecimalNext]_decimalVars => DecimalInv' BY DecimalStep
<1>3. DecimalInv => NumberIsExact BY DecimalInvIsEnough
<1> QED BY <1>1, <1>2, <1>3, PTL DEF DecimalSpec

-----------------------------------------------------------------------------
(* Sha256Stream. *)

\* How many bytes n blocks have.
Span(n) == n * BlockSize

Byte == {Data(n) : n \in Nat} \cup {Zero, Mark} \cup {LengthByte(m, n) : m \in Nat, n \in Nat}

Block == [1..BlockSize -> Byte]

\* The bytes are those of the file after the first ones.
Follows(s, first) == s \in Seq(Byte) /\ \A j \in 1..Len(s) : s[j] = Data(first + j)

\* What has been read is in the blocks and at the start of the buffer.
FileRead ==
    /\ total = Span(Len(blocks)) + filled
    /\ \A n \in 1..Len(blocks), i \in 1..BlockSize : blocks[n][i] = Data(Span(n - 1) + i)
    /\ \A i \in 1..filled : buffer[i] = Data(Span(Len(blocks)) + i)

Filling == /\ total \in Nat
           /\ filled \in 0..BlockSize - 1
           /\ buffer \in Block
           /\ blocks \in Seq(Block)
           /\ FileRead

ShaInv == /\ left \in Nat /\ total \in Nat /\ total + left <= MaxBytes
          /\ filled \in 0..BlockSize - 1
          /\ buffer \in Block
          /\ outcome \in {"reading", "failed", "hashed"}
          /\ outcome # "hashed" => Filling
          /\ HashesPaddedMessage

LEMMA SizesType == /\ BlockSize \in Nat /\ BlockSize >= 2 /\ LengthBytes \in Nat
                   /\ 1 <= LengthBytes /\ LengthBytes < BlockSize
                   /\ ChunkSize \in Nat /\ ChunkSize > 0 /\ MaxBytes \in Nat
BY ShaAssumption

LEMMA Spans ==
    /\ Span(0) = 0 /\ Span(1) = BlockSize
    /\ \A n \in Nat : Span(n) \in Nat
    /\ \A n, m \in Nat : Span(n + m) = Span(n) + Span(m)
    /\ \A n, m \in Nat : n < m => Span(n) + BlockSize <= Span(m)
<1>1. ASSUME NEW b \in Nat
      PROVE  /\ 0 * b = 0 /\ 1 * b = b
             /\ \A n \in Nat : n * b \in Nat
             /\ \A n, m \in Nat : (n + m) * b = n * b + m * b
             /\ \A n, m \in Nat : n < m => n * b + b <= m * b
  <2>1. ASSUME NEW n \in Nat, NEW m \in Nat
        PROVE  n * b \in Nat /\ (n + m) * b = n * b + m * b
    BY SMT
  <2>2. ASSUME NEW n \in Nat, NEW m \in Nat, n < m
        PROVE  n * b + b <= m * b
    BY <2>2, SMT
  <2>3. 0 * b = 0 /\ 1 * b = b BY SMT
  <2> QED BY <2>1, <2>2, <2>3
<1> QED BY <1>1, SizesType DEF Span

LEMMA SpanType == \A n \in Nat : Span(n) \in Nat
BY Spans

LEMMA SpanSum == \A n, m \in Nat : Span(n + m) = Span(n) + Span(m)
BY Spans

\* Division by the size of a block, without the division.
LEMMA Quotient ==
    ASSUME NEW l \in Nat
    PROVE  \E q \in Nat, r \in 0..(BlockSize - 1) :
              l = Span(q) + r /\ l \div BlockSize = q /\ l % BlockSize = r
<1>1. ASSUME NEW b \in Nat \ {0}
      PROVE  \E q \in Nat, r \in 0..(b - 1) : l = q * b + r /\ l \div b = q /\ l % b = r
  <2> DEFINE q == l \div b
             r == l - q * b
  <2>1. q \in Nat /\ q * b <= l /\ l < q * b + b BY SMT
  <2>2. q * b \in Nat BY <2>1, SMT
  <2>3. r \in Nat /\ r < b /\ l = q * b + r BY <2>1, <2>2, SMT
  <2>4. \A n, k \in Nat : k < b => (n * b + k) % b = k BY SMT
  <2> HIDE DEF q, r
  <2>5. l % b = r BY <2>1, <2>3, <2>4
  <2>6. r \in 0..(b - 1) BY <2>3
  <2> QED BY <2>1, <2>3, <2>5, <2>6 DEF q
<1>2. BlockSize \in Nat \ {0} BY SizesType
<1> QED BY <1>1, <1>2 DEF Span

LEMMA QuotientIs ==
    ASSUME NEW n \in Nat, NEW r \in Nat, r < BlockSize
    PROVE  (Span(n) + r) \div BlockSize = n
<1>1. ASSUME NEW b \in Nat \ {0}, NEW k \in Nat, k < b
      PROVE  (n * b + k) \div b = n
  BY <1>1, SMT
<1>2. BlockSize \in Nat \ {0} BY SizesType
<1> QED BY <1>1, <1>2 DEF Span

LEMMA Part ==
    ASSUME NEW S, NEW s \in Seq(S), NEW m \in Nat, NEW n \in Nat,
           1 <= m, m <= n + 1, n <= Len(s)
    PROVE  /\ SubSeq(s, m, n) \in Seq(S)
           /\ Len(SubSeq(s, m, n)) = n - m + 1
           /\ \A i \in 1..(n - m + 1) : SubSeq(s, m, n)[i] = s[m + i - 1]
<1>1. /\ Len(s) \in Nat /\ m \in 1..Len(s) + 1 /\ n \in m - 1..Len(s) BY LenProperties
<1> QED BY <1>1, SubSeqProperties

\* What update makes of bytes that follow each other in the file.
LEMMA WholeAndRest ==
    ASSUME NEW s, NEW base \in Nat, Follows(s, base)
    PROVE  \E q \in Nat, r \in 0..(BlockSize - 1) :
              /\ Len(s) = Span(q) + r
              /\ WholeBlocks(s) \in Seq(Block) /\ Len(WholeBlocks(s)) = q
              /\ \A n \in 1..q, i \in 1..BlockSize :
                    WholeBlocks(s)[n][i] = Data(base + Span(n - 1) + i)
              /\ Rest(s) \in Seq(Byte) /\ Len(Rest(s)) = r
              /\ \A i \in 1..r : Rest(s)[i] = Data(base + Span(q) + i)
<1>0. s \in Seq(Byte) BY DEF Follows
<1>1. Len(s) \in Nat BY <1>0
<1>2. PICK q \in Nat, r \in 0..(BlockSize - 1) :
         Len(s) = Span(q) + r /\ Len(s) \div BlockSize = q /\ Len(s) % BlockSize = r
  BY <1>1, Quotient
<1>3. Span(q) \in Nat /\ r \in Nat /\ BlockSize \in Nat BY <1>2, Spans, SizesType
<1>4. ASSUME NEW n \in 1..q
      PROVE  /\ SubSeq(s, (n - 1) * BlockSize + 1, n * BlockSize) \in Block
             /\ \A i \in 1..BlockSize :
                   SubSeq(s, (n - 1) * BlockSize + 1, n * BlockSize)[i]
                   = Data(base + Span(n - 1) + i)
  <2> DEFINE a == Span(n - 1)
             b == Span(n)
             piece == SubSeq(s, a + 1, b)
  <2>1. n - 1 \in Nat /\ n \in Nat /\ n = (n - 1) + 1 BY <1>2
  <2>2. a \in Nat /\ b = a + BlockSize
    <3>1. b = a + Span(1) BY <2>1, Spans
    <3> QED BY <2>1, <3>1, Spans
  <2>3. b <= Span(q)
    <3>1. n = q \/ n < q BY <2>1, <1>2
    <3>2. n < q => b + BlockSize <= Span(q) BY <2>1, <1>2, Spans
    <3>3. b \in Nat BY <2>1, Spans
    <3> QED BY <1>3, <3>1, <3>2, <3>3
  <2> HIDE DEF a, b
  <2>4. /\ piece \in Seq(Byte) /\ Len(piece) = BlockSize
        /\ \A i \in 1..BlockSize : piece[i] = s[a + i]
    <3>1. a + 1 \in Nat /\ b \in Nat /\ 1 <= a + 1 /\ a + 1 <= b + 1 /\ b <= Len(s)
      BY <1>2, <1>3, <2>2, <2>3
    <3>2. /\ piece \in Seq(Byte) /\ Len(piece) = b - (a + 1) + 1
          /\ \A i \in 1..(b - (a + 1) + 1) : piece[i] = s[a + 1 + i - 1]
      BY <1>0, <3>1, Part
    <3>3. b - (a + 1) + 1 = BlockSize /\ \A i \in 1..BlockSize : a + 1 + i - 1 = a + i
      BY <1>3, <2>2
    <3> QED BY <3>2, <3>3
  <2>5. \A i \in 1..BlockSize : a + i \in 1..Len(s) /\ base + (a + i) = base + a + i
    BY <1>2, <1>3, <2>2, <2>3
  <2>6. \A i \in 1..BlockSize : piece[i] = Data(base + a + i)
    BY <2>4, <2>5 DEF Follows
  <2>7. piece \in Block
    <3>1. piece \in [1..Len(piece) -> Byte] BY <2>4, LenProperties
    <3>2. piece \in [1..BlockSize -> Byte] BY <2>4, <3>1
    <3> QED BY <3>2 DEF Block
  <2> QED BY <2>6, <2>7 DEF a, b, Span
<1>5. /\ WholeBlocks(s) \in Seq(Block) /\ Len(WholeBlocks(s)) = q
      /\ \A n \in 1..q : WholeBlocks(s)[n] = SubSeq(s, (n - 1) * BlockSize + 1, n * BlockSize)
  <2>1. WholeBlocks(s) = [n \in 1..q |-> SubSeq(s, (n - 1) * BlockSize + 1, n * BlockSize)]
    BY <1>2 DEF WholeBlocks
  <2>2. WholeBlocks(s) \in [1..q -> Block] BY <1>4, <2>1
  <2> QED BY <1>2, <2>1, <2>2, FunctionIsSeq
<1>6. \A n \in 1..q, i \in 1..BlockSize :
         WholeBlocks(s)[n][i] = Data(base + Span(n - 1) + i)
  BY <1>4, <1>5
<1>7. /\ Rest(s) \in Seq(Byte) /\ Len(Rest(s)) = r
      /\ \A i \in 1..r : Rest(s)[i] = s[Span(q) + i]
  <2>1. Len(s) - r + 1 = Span(q) + 1 BY <1>2, <1>3
  <2>2. Rest(s) = SubSeq(s, Span(q) + 1, Len(s)) BY <1>2, <2>1 DEF Rest
  <2>3. /\ Span(q) + 1 \in Nat /\ 1 <= Span(q) + 1 /\ Span(q) + 1 <= Len(s) + 1
        /\ Len(s) <= Len(s)
    BY <1>1, <1>2, <1>3
  <2>4. /\ Rest(s) \in Seq(Byte) /\ Len(Rest(s)) = Len(s) - (Span(q) + 1) + 1
        /\ \A i \in 1..(Len(s) - (Span(q) + 1) + 1) : Rest(s)[i] = s[Span(q) + 1 + i - 1]
    BY <1>0, <1>1, <2>2, <2>3, Part
  <2>5. Len(s) - (Span(q) + 1) + 1 = r BY <1>2, <1>3
  <2>6. \A i \in 1..r : Span(q) + 1 + i - 1 = Span(q) + i BY <1>3
  <2> QED BY <2>4, <2>5, <2>6
<1>8. \A i \in 1..r : Span(q) + i \in 1..Len(s) /\ base + (Span(q) + i) = base + Span(q) + i
  <2>1. PICK k \in Nat : k = Span(q) BY <1>3
  <2>2. Len(s) = k + r BY <1>2, <2>1
  <2> QED BY <1>3, <2>1, <2>2
<1>9. \A i \in 1..r : Rest(s)[i] = Data(base + Span(q) + i) BY <1>7, <1>8 DEF Follows
<1> QED BY <1>2, <1>5, <1>6, <1>7, <1>9

LEMMA Joined ==
    ASSUME NEW S, NEW u \in Seq(S), NEW v \in Seq(S)
    PROVE  /\ (u \o v) \in Seq(S) /\ Len(u \o v) = Len(u) + Len(v)
           /\ \A k \in 1..Len(u) : (u \o v)[k] = u[k]
           /\ \A k \in 1..Len(v) : (u \o v)[Len(u) + k] = v[k]
<1>1. /\ (u \o v) \in Seq(S) /\ Len(u \o v) = Len(u) + Len(v)
      /\ \A k \in 1..(Len(u) + Len(v)) : (u \o v)[k] = IF k <= Len(u) THEN u[k]
                                                      ELSE v[k - Len(u)]
  BY ConcatProperties
<1>2. Len(u) \in Nat /\ Len(v) \in Nat
  OBVIOUS
<1>3. /\ \A k \in 1..Len(u) : k \in 1..(Len(u) + Len(v)) /\ k <= Len(u)
      /\ \A k \in 1..Len(v) : /\ Len(u) + k \in 1..(Len(u) + Len(v))
                              /\ ~(Len(u) + k <= Len(u)) /\ Len(u) + k - Len(u) = k
  BY <1>2
<1> QED BY <1>1, <1>3

\* update keeps what has been read, in whatever pieces it comes.
LEMMA UpdateInv ==
    ASSUME NEW s, Follows(s, total), Len(s) > 0, Filling, Update(s)
    PROVE  Filling'
<1> DEFINE copied == IF filled = 0 THEN 0
                     ELSE IF Len(s) < BlockSize - filled THEN Len(s)
                     ELSE BlockSize - filled
           begun  == Copied(SubSeq(s, 1, copied), filled)
           after  == SubSeq(s, copied + 1, Len(s))
           full   == filled + copied = BlockSize
           first  == blocks \o (IF full THEN <<begun>> ELSE <<>>)
           L      == Len(blocks)
           M      == Len(first)
<1>1. /\ total' = total + Len(s)
      /\ blocks' = first \o WholeBlocks(after)
      /\ IF Rest(after) # <<>>
         THEN /\ buffer' = [i \in 1..BlockSize |->
                               IF i <= Len(Rest(after)) THEN Rest(after)[i] ELSE begun[i]]
              /\ filled' = Len(Rest(after))
         ELSE buffer' = begun /\ filled' = IF full THEN 0 ELSE filled + copied
  BY DEF Update
<1>2. /\ filled \in Nat /\ filled < BlockSize /\ Len(s) \in Nat /\ total \in Nat
      /\ BlockSize \in Nat /\ buffer \in [1..BlockSize -> Byte]
      /\ blocks \in Seq(Block) /\ L \in Nat /\ FileRead /\ s \in Seq(Byte)
  BY SizesType DEF Filling, Follows, Block
<1>3. total = Span(L) + filled /\ Span(L) \in Nat BY <1>2, Spans DEF FileRead
<1>4. /\ copied \in Nat /\ copied <= Len(s) /\ filled + copied <= BlockSize
      /\ filled = 0 => copied = 0
      /\ filled # 0 /\ ~full => copied = Len(s)
  BY <1>2
<1> HIDE DEF copied
<1>5. begun \in Block /\ \A i \in 1..(filled + copied) : begun[i] = Data(Span(L) + i)
  <2> DEFINE piece == SubSeq(s, 1, copied)
  <2>1. /\ piece \in Seq(Byte) /\ Len(piece) = copied
        /\ \A i \in 1..copied : piece[i] = s[i]
    <3>1. /\ 1 \in Nat /\ 1 <= 1 /\ 1 <= copied + 1 /\ copied - 1 + 1 = copied
          /\ \A i \in 1..copied : 1 + i - 1 = i
      BY <1>4
    <3> QED BY <1>2, <1>4, <3>1, Part
  <2>2. \A i \in 1..copied : piece[i] \in Byte BY <2>1
  <2> HIDE DEF piece
  <2>3. Copied(piece, filled) = [i \in 1..BlockSize |->
           IF i \in filled + 1 .. filled + copied THEN piece[i - filled] ELSE buffer[i]]
    BY <2>1 DEF Copied
  <2>4. \A i \in filled + 1 .. filled + copied : i - filled \in 1..copied BY <1>2, <1>4
  <2>5. Copied(piece, filled) \in Block
    <3>1. \A i \in 1..BlockSize :
             (IF i \in filled + 1 .. filled + copied THEN piece[i - filled] ELSE buffer[i]) \in Byte
      BY <1>2, <2>2, <2>4
    <3> QED BY <2>3, <3>1 DEF Block
  <2>6. ASSUME NEW i \in 1..(filled + copied)
        PROVE  Copied(piece, filled)[i] = Data(Span(L) + i)
    <3>1. i \in 1..BlockSize BY <1>2, <1>4
    <3>2. CASE i \in filled + 1 .. filled + copied
      <4>1. Copied(piece, filled)[i] = piece[i - filled] BY <2>3, <3>1, <3>2
      <4>2. i - filled \in 1..copied /\ i - filled \in 1..Len(s) BY <1>2, <1>4, <3>2
      <4>3. piece[i - filled] = Data(total + (i - filled)) BY <2>1, <4>2 DEF Follows
      <4>4. total + (i - filled) = Span(L) + i BY <1>2, <1>3
      <4> QED BY <4>1, <4>3, <4>4
    <3>3. CASE ~(i \in filled + 1 .. filled + copied)
      <4>1. i \in 1..filled BY <1>2, <1>4, <3>3
      <4>2. Copied(piece, filled)[i] = buffer[i] BY <2>3, <3>1, <3>3
      <4> QED BY <1>2, <4>1, <4>2 DEF FileRead
    <3> QED BY <3>2, <3>3
  <2> QED BY <2>5, <2>6 DEF piece
<1>6. /\ after \in Seq(Byte) /\ Len(after) = Len(s) - copied
      /\ Follows(after, total + copied)
  <2>1. /\ copied + 1 \in Nat /\ 1 <= copied + 1 /\ copied + 1 <= Len(s) + 1
        /\ Len(s) <= Len(s) /\ Len(s) - (copied + 1) + 1 = Len(s) - copied
    BY <1>2, <1>4
  <2>2. /\ after \in Seq(Byte) /\ Len(after) = Len(s) - copied
        /\ \A j \in 1..(Len(s) - copied) : after[j] = s[copied + 1 + j - 1]
    BY <1>2, <2>1, Part
  <2> HIDE DEF after
  <2>3. \A j \in 1..(Len(s) - copied) : /\ copied + 1 + j - 1 = copied + j
                                        /\ copied + j \in 1..Len(s)
                                        /\ total + (copied + j) = total + copied + j
    BY <1>2, <1>4
  <2> QED BY <2>2, <2>3 DEF Follows
<1> HIDE DEF begun, after
<1>7. PICK q \in Nat, r \in 0..(BlockSize - 1) :
         /\ Len(after) = Span(q) + r
         /\ WholeBlocks(after) \in Seq(Block) /\ Len(WholeBlocks(after)) = q
         /\ \A n \in 1..q, i \in 1..BlockSize :
               WholeBlocks(after)[n][i] = Data(total + copied + Span(n - 1) + i)
         /\ Rest(after) \in Seq(Byte) /\ Len(Rest(after)) = r
         /\ \A i \in 1..r : Rest(after)[i] = Data(total + copied + Span(q) + i)
  <2>1. total + copied \in Nat BY <1>2, <1>4
  <2> QED BY <1>6, <2>1, WholeAndRest
<1>20. /\ filled \in Nat /\ filled < BlockSize /\ Len(s) \in Nat /\ total \in Nat
       /\ BlockSize \in Nat
  BY <1>2
<1>60. Len(after) = Len(s) - copied BY <1>6
<1>61. Len(after) = Span(q) + r BY <1>7
<1>70. /\ Len(after) = Span(q) + r /\ Len(after) \in Nat /\ Len(after) + copied = Len(s)
       /\ r \in Nat /\ r < BlockSize /\ Span(q) \in Nat
  <2>1. Span(q) \in Nat BY SpanType
  <2>2. r \in Nat /\ r < BlockSize BY <1>20
  <2>3. Len(after) \in Nat BY <1>61, <2>1, <2>2
  <2> QED BY <1>20, <1>4, <1>60, <1>61, <2>1, <2>2, <2>3
<1>8. /\ first \in Seq(Block) /\ Len(first) = M
      /\ full => M = L + 1
      /\ ~full => M = L
      /\ \A n \in 1..M, i \in 1..BlockSize : first[n][i] = Data(Span(n - 1) + i)
  <2>1. CASE full
    <3>1. /\ first = Append(blocks, begun) /\ first \in Seq(Block) /\ Len(first) = L + 1
          /\ first[L + 1] = begun /\ \A n \in 1..L : first[n] = blocks[n]
      BY <1>2, <1>5, <2>1
    <3>2. \A n \in 1..(L + 1) : n \in 1..L \/ n = L + 1 BY <1>2
    <3>3. L + 1 - 1 = L BY <1>2
    <3>4. \A i \in 1..BlockSize : begun[i] = Data(Span(L) + i) BY <1>5, <2>1
    <3>5. \A n \in 1..(L + 1), i \in 1..BlockSize : first[n][i] = Data(Span(n - 1) + i)
      BY <1>2, <3>1, <3>2, <3>3, <3>4 DEF FileRead
    <3> QED BY <2>1, <3>1, <3>5
  <2>2. CASE ~full
    <3>1. first = blocks BY <1>2, <2>2
    <3> QED BY <1>2, <2>2, <3>1 DEF FileRead
  <2> QED BY <2>1, <2>2
<1> HIDE DEF first, M
<1>80. /\ full => M = L + 1
       /\ ~full => M = L
  BY <1>8
<1>9. M \in Nat /\ Span(M) \in Nat
  <2>1. M \in Nat BY <1>2, <1>80
  <2> QED BY <2>1, SpanType
<1>10. /\ total + copied = Span(M) + (IF full THEN 0 ELSE filled + copied)
       /\ Len(after) > 0 => total + copied = Span(M)
  <2>1. full => Span(M) = Span(L) + BlockSize
    <3>1. Span(L + 1) = Span(L) + Span(1) /\ Span(1) = BlockSize
      BY <1>2, SpanSum, Spans
    <3> QED BY <1>80, <3>1
  <2>2. ~full => Span(M) = Span(L) BY <1>80
  <2>3. /\ filled \in Nat /\ filled < BlockSize /\ BlockSize \in Nat /\ total \in Nat
        /\ Len(s) \in Nat
    BY <1>2
  <2>4. ~full /\ Len(after) > 0 => filled = 0 /\ copied = 0
    BY <1>4, <1>70, <2>3
  <2>5. full => total + copied = Span(M) BY <1>3, <1>4, <2>1, <2>3
  <2>6. ~full => total + copied = Span(M) + (filled + copied) BY <1>3, <1>4, <2>2, <2>3
  <2> QED BY <1>3, <1>9, <2>3, <2>4, <2>5, <2>6
<1>11. /\ blocks' \in Seq(Block) /\ Len(blocks') = M + q
       /\ \A n \in 1..M : blocks'[n] = first[n]
       /\ \A n \in 1..q : blocks'[M + n] = WholeBlocks(after)[n]
  <2>1. first \in Seq(Block) /\ Len(first) = M BY <1>8
  <2>2. WholeBlocks(after) \in Seq(Block) /\ Len(WholeBlocks(after)) = q BY <1>7
  <2>3. blocks' = first \o WholeBlocks(after) BY <1>1
  <2>4. M \in Nat /\ q \in Nat BY <1>9
  <2>5. /\ (first \o WholeBlocks(after)) \in Seq(Block)
        /\ Len(first \o WholeBlocks(after)) = M + q
        /\ \A k \in 1..M : (first \o WholeBlocks(after))[k] = first[k]
        /\ \A k \in 1..q : (first \o WholeBlocks(after))[M + k] = WholeBlocks(after)[k]
    <3>1. ASSUME NEW w, w \in Seq(Block), Len(w) = q
          PROVE  /\ (first \o w) \in Seq(Block)
                 /\ Len(first \o w) = M + q
                 /\ \A k \in 1..M : (first \o w)[k] = first[k]
                 /\ \A k \in 1..q : (first \o w)[M + k] = w[k]
      <4>1. first \in Seq(Block) /\ w \in Seq(Block) BY <2>1, <3>1
      <4>2. /\ (first \o w) \in Seq(Block) /\ Len(first \o w) = Len(first) + Len(w)
            /\ \A k \in 1..Len(first) : (first \o w)[k] = first[k]
            /\ \A k \in 1..Len(w) : (first \o w)[Len(first) + k] = w[k]
        BY <4>1, Joined, SMTT(20)
      <4>3. Len(first) = M /\ Len(w) = q BY <2>1, <3>1
      <4> QED BY <4>2, <4>3, Zenon
    <3> QED BY <2>2, <3>1
  <2> QED BY <2>3, <2>5
<1>12. Span(q) \in Nat /\ Span(M + q) = Span(M) + Span(q) /\ r \in Nat /\ M + q \in Nat
  <2>1. r \in Nat BY <1>20
  <2>2. Span(q) \in Nat BY SpanType
  <2>3. Span(M + q) = Span(M) + Span(q) BY <1>9, SpanSum
  <2>4. M + q \in Nat BY <1>9
  <2> QED BY <2>1, <2>2, <2>3, <2>4
<1>16. q > 0 => Span(q) > 0
  <2>1. Span(0) = 0 /\ BlockSize > 0 BY Spans, SizesType
  <2>2. q > 0 => Span(0) + BlockSize <= Span(q)
    <3>1. 0 \in Nat OBVIOUS
    <3> QED BY <3>1, Spans
  <2> QED BY <1>12, <1>20, <2>1, <2>2
<1>17. q > 0 \/ r > 0 => Len(after) > 0
  BY <1>12, <1>16, <1>70
<1>18. Len(s) = copied + Span(q) + r BY <1>4, <1>70
<1>19. total' = total + copied + Span(q) + r
  <2>1. total' = total + Len(s) BY <1>1
  <2> QED BY <1>4, <1>12, <1>18, <1>20, <2>1
<1>13. \A n \in 1..(M + q), i \in 1..BlockSize : blocks'[n][i] = Data(Span(n - 1) + i)
  <2> SUFFICES ASSUME NEW n \in 1..(M + q), NEW i \in 1..BlockSize
               PROVE  blocks'[n][i] = Data(Span(n - 1) + i)
    OBVIOUS
  <2>1. CASE n <= M BY <1>8, <1>9, <1>11, <2>1
  <2>2. CASE n > M
    <3>1. PICK k \in 1..q : n = M + k
      <4>1. n - M \in 1..q /\ n = M + (n - M) BY <1>9, <2>2
      <4> QED BY <4>1
    <3>2. blocks'[n][i] = Data(total + copied + Span(k - 1) + i) BY <1>7, <1>11, <3>1
    <3>3. q > 0 BY <3>1
    <3>6. Len(after) > 0 BY <1>17, <3>3
    <3>4. k - 1 \in Nat /\ n - 1 = M + (k - 1) BY <1>9, <3>1
    <3>5. Span(n - 1) = Span(M) + Span(k - 1) BY <1>9, <3>4, Spans
    <3> QED BY <1>10, <3>2, <3>5, <3>6
  <2> QED BY <1>9, <2>1, <2>2
<1>14. CASE Rest(after) # <<>>
  <2>1. r > 0 BY <1>7, <1>12, <1>14, EmptySeq
  <2>2. filled' = r /\ buffer' = [i \in 1..BlockSize |->
                               IF i <= Len(Rest(after)) THEN Rest(after)[i] ELSE begun[i]]
    BY <1>1, <1>7, <1>14
  <2>3. /\ buffer' \in Block
        /\ \A i \in 1..r : buffer'[i] = Data(Span(M + q) + i)
    <3>1. \A i \in 1..r : i \in 1..BlockSize /\ i <= r BY <1>2, <1>7
    <3>2. Len(after) > 0 BY <1>17, <2>1
    <3>3. total + copied + Span(q) = Span(M + q) BY <1>9, <1>10, <1>12, <3>2
    <3>4. \A i \in 1..r : buffer'[i] = Rest(after)[i] BY <1>7, <2>2, <3>1
    <3>5. \A i \in 1..BlockSize :
             (IF i <= Len(Rest(after)) THEN Rest(after)[i] ELSE begun[i]) \in Byte
      <4>1. \A i \in 1..BlockSize : begun[i] \in Byte BY <1>5 DEF Block
      <4>2. \A i \in 1..r : Rest(after)[i] \in Byte BY <1>7
      <4>3. \A i \in 1..BlockSize : i <= r => i \in 1..r BY <1>2, <1>12
      <4> QED BY <1>7, <4>1, <4>2, <4>3
    <3> QED BY <1>7, <2>2, <3>3, <3>4, <3>5 DEF Block
  <2>4. total' = Span(M + q) + r /\ total' \in Nat
    <3>1. Len(after) > 0 BY <1>17, <2>1
    <3>2. total + copied = Span(M) BY <1>10, <3>1
    <3> QED BY <1>19, <1>9, <1>12, <3>2
  <2>5. FileRead' BY <1>11, <1>13, <2>2, <2>3, <2>4 DEF FileRead
  <2> QED BY <1>1, <1>2, <1>11, <2>2, <2>3, <2>4, <2>5 DEF Filling
<1>15. CASE Rest(after) = <<>>
  <2>1. r = 0 BY <1>7, <1>15
  <2>2. buffer' = begun /\ filled' = IF full THEN 0 ELSE filled + copied BY <1>1, <1>15
  <2>3. full \/ q = 0 \/ filled + copied = 0
    <3>1. q > 0 => Len(after) > 0 BY <1>17, <2>1
    <3> QED BY <1>2, <1>4, <1>70, <3>1
  <2>4. filled' \in Nat /\ filled' < BlockSize /\ total' \in Nat
    BY <1>1, <1>2, <1>4, <2>2
  <2>5. total' = Span(M + q) + filled'
    <3>1. total' = total + copied + Span(q) BY <1>4, <1>12, <1>19, <1>20, <2>1
    <3>2. total + copied = Span(M) + filled' BY <1>10, <2>2
    <3> QED BY <1>9, <1>12, <2>4, <3>1, <3>2
  <2>6. \A i \in 1..filled' : buffer'[i] = Data(Span(M + q) + i)
    <3>1. CASE filled' = 0 BY <3>1
    <3>2. CASE filled' # 0
      <4>1. ~full /\ q = 0 /\ filled' = filled + copied BY <2>2, <2>3, <3>2
      <4>2. M + q = L BY <1>2, <1>8, <4>1
      <4> QED BY <1>5, <2>2, <4>1, <4>2
    <3> QED BY <3>1, <3>2
  <2>7. FileRead' BY <1>11, <1>13, <2>5, <2>6 DEF FileRead
  <2> QED BY <1>1, <1>2, <1>5, <1>11, <2>2, <2>4, <2>7 DEF Filling
<1> QED BY <1>14, <1>15

LEMMA ShaInvInit == ShaInit => ShaInv
<1> SUFFICES ASSUME ShaInit PROVE ShaInv
  OBVIOUS
<1>1. /\ left \in Nat /\ left <= MaxBytes /\ total = 0 /\ filled = 0 /\ outcome = "reading"
      /\ blocks = <<>> /\ buffer = [i \in 1..BlockSize |-> Zero]
  BY SizesType DEF ShaInit
<1>2. buffer \in Block BY <1>1 DEF Block, Byte
<1>3. Len(blocks) = 0 /\ blocks \in Seq(Block) BY <1>1
<1>4. total + left <= MaxBytes /\ total \in Nat /\ filled \in 0..BlockSize - 1
  BY <1>1, SizesType
<1>5. total = Span(Len(blocks)) + filled BY <1>1, <1>3, Spans
<1>6. FileRead BY <1>1, <1>3, <1>5 DEF FileRead
<1> QED BY <1>1, <1>2, <1>3, <1>4, <1>6 DEF ShaInv, Filling, HashesPaddedMessage

LEMMA ReadChunkInv == ShaInv /\ ReadChunk => ShaInv'
<1> SUFFICES ASSUME ShaInv, ReadChunk PROVE ShaInv'
  OBVIOUS
<1> DEFINE count == IF left < ChunkSize THEN left ELSE ChunkSize
           s     == [i \in 1..count |-> Data(total + i)]
<1>1. /\ outcome = "reading" /\ left > 0 /\ Update(s) /\ left' = left - count
      /\ outcome' = outcome
  BY DEF ReadChunk
<1>2. /\ left \in Nat /\ total \in Nat /\ total + left <= MaxBytes /\ Filling
  BY <1>1 DEF ShaInv
<1>3. count \in Nat /\ count > 0 /\ count <= left BY <1>1, <1>2, SizesType
<1> HIDE DEF count
<1>4. s \in [1..count -> Byte]
  <2>1. \A i \in 1..count : total + i \in Nat BY <1>2, <1>3
  <2> QED BY <2>1 DEF Byte
<1>5. s \in Seq(Byte) /\ Len(s) = count BY <1>3, <1>4, FunctionIsSeq
<1>6. Follows(s, total) BY <1>5 DEF Follows
<1>7. total' = total + count BY <1>1, <1>5 DEF Update
<1> HIDE DEF s
<1>8. Filling' BY <1>1, <1>2, <1>3, <1>5, <1>6, UpdateInv
<1>9. left' \in Nat /\ total' \in Nat /\ total' + left' <= MaxBytes
  BY <1>1, <1>2, <1>3, <1>7, SizesType
<1> QED BY <1>1, <1>8, <1>9 DEF ShaInv, Filling, HashesPaddedMessage

\* Where the zeros of the padding end.
ZerosEnd(size) == PaddedBlocks(size) * BlockSize - LengthBytes

LEMMA Padding ==
    ASSUME NEW l \in Nat, NEW n \in 0..(BlockSize - 1)
    PROVE  /\ ~NeedsBlock(n + 1) => /\ PaddedBlocks(Span(l) + n) = l + 1
                                    /\ ZerosEnd(Span(l) + n) = Span(l) + BlockSize - LengthBytes
           /\ NeedsBlock(n + 1) =>
                 /\ PaddedBlocks(Span(l) + n) = l + 1 + 1
                 /\ ZerosEnd(Span(l) + n) = Span(l) + BlockSize + BlockSize - LengthBytes
<1>1. /\ BlockSize \in Nat /\ LengthBytes \in Nat /\ LengthBytes < BlockSize
      /\ n \in Nat /\ n < BlockSize
  BY SizesType
<1>2. Span(l) \in Nat BY SpanType
<1>3. PICK a \in Nat : a = Span(l) BY <1>2
<1>4. Span(l + 1) = a + BlockSize /\ Span(l + 1 + 1) = a + BlockSize + BlockSize
  BY <1>3, Spans
<1>5. CASE n + LengthBytes < BlockSize
  <2>1. ~NeedsBlock(n + 1) BY <1>1, <1>5 DEF NeedsBlock
  <2>2. n + LengthBytes \in Nat /\ a + n + LengthBytes = a + (n + LengthBytes) BY <1>1
  <2>3. (a + (n + LengthBytes)) \div BlockSize = l BY <1>3, <1>5, <2>2, QuotientIs
  <2>4. PaddedBlocks(a + n) = l + 1 BY <2>2, <2>3 DEF PaddedBlocks
  <2>5. PICK b \in Nat : b = a + BlockSize /\ b = Span(l + 1) BY <1>1, <1>4
  <2>7. ZerosEnd(a + n) = b - LengthBytes BY <2>4, <2>5 DEF ZerosEnd, Span
  <2>6. ZerosEnd(a + n) = a + BlockSize - LengthBytes BY <1>1, <2>5, <2>7
  <2> QED BY <1>3, <2>1, <2>4, <2>6, Zenon
<1>6. CASE ~(n + LengthBytes < BlockSize)
  <2> DEFINE m == n + LengthBytes - BlockSize
  <2>1. NeedsBlock(n + 1) BY <1>1, <1>6 DEF NeedsBlock
  <2>2. m \in Nat /\ m < BlockSize /\ a + n + LengthBytes = a + BlockSize + m BY <1>1, <1>6
  <2> HIDE DEF m
  <2>3. (a + BlockSize + m) \div BlockSize = l + 1 BY <1>4, <2>2, QuotientIs
  <2>4. PaddedBlocks(a + n) = l + 1 + 1 BY <2>2, <2>3 DEF PaddedBlocks
  <2>5. PICK b \in Nat : b = a + BlockSize + BlockSize /\ b = Span(l + 1 + 1) BY <1>1, <1>4
  <2>7. ZerosEnd(a + n) = b - LengthBytes BY <2>4, <2>5 DEF ZerosEnd, Span
  <2>6. ZerosEnd(a + n) = a + BlockSize + BlockSize - LengthBytes BY <1>1, <2>5, <2>7
  <2> QED BY <1>3, <2>1, <2>4, <2>6, Zenon
<1> QED BY <1>5, <1>6

LEMMA PaddedBytes ==
    ASSUME NEW size \in Nat, ZerosEnd(size) \in Nat, size < ZerosEnd(size), NEW k \in Nat
    PROVE  /\ k <= size => PaddedByte(size, k) = Data(k)
           /\ k = size + 1 => PaddedByte(size, k) = Mark
           /\ k > size + 1 /\ k <= ZerosEnd(size) => PaddedByte(size, k) = Zero
           /\ k > ZerosEnd(size) => PaddedByte(size, k) = LengthByte(size, k - ZerosEnd(size))
<1>1. PaddedByte(size, k) = IF k <= size THEN Data(k)
                            ELSE IF k = size + 1 THEN Mark
                            ELSE IF k <= ZerosEnd(size) THEN Zero
                            ELSE LengthByte(size, k - ZerosEnd(size))
  BY DEF PaddedByte, ZerosEnd
<1>2. PICK z \in Nat : z = ZerosEnd(size) OBVIOUS
<1>3. /\ k = size + 1 => ~(k <= size)
      /\ k > size + 1 => ~(k <= size) /\ ~(k = size + 1)
      /\ k > z => ~(k <= size) /\ ~(k = size + 1) /\ ~(k <= z)
  BY <1>2
<1> QED BY <1>1, <1>2, <1>3

LEMMA SameBlocks ==
    ASSUME NEW u \in Seq(Block), NEW size, NEW p \in Nat, Len(u) = p,
           \A k \in 1..p, i \in 1..BlockSize : u[k][i] = PaddedByte(size, Span(k - 1) + i)
    PROVE  u = [k \in 1..p |-> [i \in 1..BlockSize |-> PaddedByte(size, (k - 1) * BlockSize + i)]]
<1>1. u \in [1..p -> Block] BY LenProperties
<1>2. ASSUME NEW k \in 1..p
      PROVE  u[k] = [i \in 1..BlockSize |-> PaddedByte(size, (k - 1) * BlockSize + i)]
  <2>1. u[k] \in [1..BlockSize -> Byte] BY <1>1 DEF Block
  <2>2. \A i \in 1..BlockSize : u[k][i] = PaddedByte(size, (k - 1) * BlockSize + i)
    BY DEF Span
  <2> QED BY <2>1, <2>2
<1> QED BY <1>1, <1>2

LEMMA Pushed ==
    ASSUME NEW S, NEW u \in Seq(S), NEW e \in S, NEW n \in Nat, Len(u) = n
    PROVE  /\ (u \o <<e>>) \in Seq(S) /\ Len(u \o <<e>>) = n + 1
           /\ \A k \in 1..n : (u \o <<e>>)[k] = u[k]
           /\ (u \o <<e>>)[n + 1] = e
<1>1. u \o <<e>> = Append(u, e) OBVIOUS
<1>2. /\ Append(u, e) \in Seq(S) /\ Len(Append(u, e)) = n + 1
      /\ \A k \in 1..n : Append(u, e)[k] = u[k]
      /\ Append(u, e)[n + 1] = e
  BY AppendProperties
<1> QED BY <1>1, <1>2

LEMMA FinishInv == ShaInv /\ Finish => ShaInv'
<1> SUFFICES ASSUME ShaInv, Finish PROVE ShaInv'
  OBVIOUS
<1> DEFINE marked == Copied(<<Mark>>, filled)
           more   == NeedsBlock(filled + 1)
           padded == Cleared(marked, IF more THEN 1 ELSE filled + 2, BlockSize - LengthBytes)
           final  == [i \in 1..BlockSize |->
                         IF i > BlockSize - LengthBytes
                         THEN LengthByte(total, i - (BlockSize - LengthBytes)) ELSE padded[i]]
           extra  == Cleared(marked, filled + 2, BlockSize)
<1>1. /\ outcome = "reading" /\ outcome' = "hashed" /\ left = 0 /\ left' = left
      /\ filled' = filled /\ total' = total /\ buffer' = final
      /\ blocks' = blocks \o (IF more THEN <<extra>> ELSE <<>>) \o <<final>>
  BY DEF Finish
<1>2. Filling /\ left \in Nat /\ total \in Nat /\ total + left <= MaxBytes
  BY <1>1 DEF ShaInv
<1>3. PICK n \in Nat : n = filled /\ n < BlockSize BY <1>2, SizesType DEF Filling
<1>4. PICK l \in Nat : l = Len(blocks) BY <1>2 DEF Filling
<1>5. PICK a \in Nat : a = Span(l) BY SpanType
<1>6. /\ BlockSize \in Nat /\ LengthBytes \in Nat /\ LengthBytes < BlockSize /\ 1 <= LengthBytes
  BY SizesType
<1>7. total = a + n BY <1>2, <1>3, <1>4, <1>5 DEF Filling, FileRead
<1>8. /\ buffer \in [1..BlockSize -> Byte] /\ blocks \in Seq(Block)
      /\ \A i \in 1..n : buffer[i] = Data(a + i)
      /\ \A k \in 1..l, i \in 1..BlockSize : blocks[k][i] = Data(Span(k - 1) + i)
  BY <1>2, <1>3, <1>4, <1>5 DEF Filling, FileRead, Block
<1>9. \A i \in 1..BlockSize : marked[i] = IF i = n + 1 THEN Mark ELSE buffer[i]
  <2>1. Len(<<Mark>>) = 1 /\ <<Mark>>[1] = Mark OBVIOUS
  <2>2. marked = [i \in 1..BlockSize |->
           IF i \in n + 1 .. n + 1 THEN <<Mark>>[i - n] ELSE buffer[i]]
    BY <1>3, <2>1 DEF Copied
  <2>3. \A i \in 1..BlockSize : (i \in n + 1 .. n + 1 <=> i = n + 1) /\ (i = n + 1 => i - n = 1)
    BY <1>6
  <2> QED BY <2>1, <2>2, <2>3
<1> HIDE DEF marked
<1>10. \A i \in 1..BlockSize : extra[i] = IF i \in n + 2 .. BlockSize THEN Zero ELSE marked[i]
  BY <1>3 DEF Cleared
<1>11. \A i \in 1..BlockSize :
          padded[i] = IF i \in (IF more THEN 1 ELSE n + 2) .. (BlockSize - LengthBytes)
                      THEN Zero ELSE marked[i]
  BY <1>3 DEF Cleared
<1>12. \A i \in 1..BlockSize :
          final[i] = IF i > BlockSize - LengthBytes
                     THEN LengthByte(total, i - (BlockSize - LengthBytes)) ELSE padded[i]
  OBVIOUS
<1>13. /\ DOMAIN final = 1..BlockSize /\ DOMAIN extra = 1..BlockSize
       /\ final = [i \in 1..BlockSize |-> final[i]] /\ extra = [i \in 1..BlockSize |-> extra[i]]
  BY DEF Cleared
<1> HIDE DEF extra, padded, final
<1>14. extra \in Block /\ final \in Block
  <2>1. /\ Zero \in Byte /\ Mark \in Byte
        /\ \A i \in Nat : LengthByte(total, i) \in Byte
    BY <1>2 DEF Byte
  <2>2. \A i \in 1..BlockSize : marked[i] \in Byte BY <1>8, <1>9, <2>1
  <2>3. \A i \in 1..BlockSize : extra[i] \in Byte BY <1>10, <2>1, <2>2
  <2>4. \A i \in 1..BlockSize : padded[i] \in Byte BY <1>11, <2>1, <2>2
  <2>5. \A i \in 1..BlockSize : i > BlockSize - LengthBytes => i - (BlockSize - LengthBytes) \in Nat
    BY <1>6
  <2>6. \A i \in 1..BlockSize : final[i] \in Byte BY <1>12, <2>1, <2>4, <2>5
  <2> QED BY <1>13, <2>3, <2>6 DEF Block
\* The blocks of whole bytes of the file.
<1>15. total < ZerosEnd(total) /\ ZerosEnd(total) \in Nat
       => \A k \in 1..l, i \in 1..BlockSize : blocks[k][i] = PaddedByte(total, Span(k - 1) + i)
  <2> SUFFICES ASSUME total < ZerosEnd(total), ZerosEnd(total) \in Nat,
                      NEW k \in 1..l, NEW i \in 1..BlockSize
               PROVE  blocks[k][i] = PaddedByte(total, Span(k - 1) + i)
    OBVIOUS
  <2>1. k - 1 \in Nat /\ k - 1 < l BY <1>4
  <2>2. Span(k - 1) \in Nat /\ Span(k - 1) + BlockSize <= a BY <1>4, <1>5, <2>1, Spans
  <2>3. Span(k - 1) + i \in Nat /\ Span(k - 1) + i <= total BY <1>6, <1>7, <2>2
  <2>4. PaddedByte(total, Span(k - 1) + i) = Data(Span(k - 1) + i)
    BY <1>2, <2>3, PaddedBytes
  <2> QED BY <1>8, <2>4
<1>16. PICK z \in Nat : z = BlockSize - LengthBytes /\ z < BlockSize BY <1>6
<1>17. (ZerosEnd(total) = a + z /\ ~more /\ PaddedBlocks(total) = l + 1)
       \/ (ZerosEnd(total) = a + BlockSize + z /\ more /\ PaddedBlocks(total) = l + 1 + 1)
  <2>1. n \in 0..(BlockSize - 1) BY <1>3, <1>6
  <2>2. /\ ~NeedsBlock(n + 1) => /\ PaddedBlocks(a + n) = l + 1
                                 /\ ZerosEnd(a + n) = a + BlockSize - LengthBytes
        /\ NeedsBlock(n + 1) => /\ PaddedBlocks(a + n) = l + 1 + 1
                                /\ ZerosEnd(a + n) = a + BlockSize + BlockSize - LengthBytes
    BY <1>5, <2>1, Padding
  <2>3. a + BlockSize - LengthBytes = a + z /\ a + BlockSize + BlockSize - LengthBytes = a + BlockSize + z
    BY <1>6, <1>16
  <2> QED BY <1>3, <1>7, <2>2, <2>3
<1>18. more <=> n + 1 > z BY <1>3, <1>16 DEF NeedsBlock
<1> HIDE DEF more
<1>19. blocks' \in Seq(Block) /\ Len(blocks') = PaddedBlocks(total)
       /\ \A k \in 1..PaddedBlocks(total), i \in 1..BlockSize :
             blocks'[k][i] = PaddedByte(total, Span(k - 1) + i)
  <2>1. CASE ~more
    <3>1. ZerosEnd(total) = a + z /\ PaddedBlocks(total) = l + 1 /\ n + 1 <= z
      BY <1>17, <1>18, <2>1, <1>16
    <3>2. total < ZerosEnd(total) /\ ZerosEnd(total) \in Nat BY <1>7, <3>1
    <3>3. ASSUME NEW i \in 1..BlockSize
          PROVE  final[i] = PaddedByte(total, a + i)
      <4>0. i \in Nat /\ i >= 1 /\ i <= BlockSize /\ a + i \in Nat BY <1>6
      <4>1. /\ a + i <= total => PaddedByte(total, a + i) = Data(a + i)
            /\ a + i = total + 1 => PaddedByte(total, a + i) = Mark
            /\ a + i > total + 1 /\ a + i <= ZerosEnd(total) => PaddedByte(total, a + i) = Zero
            /\ a + i > ZerosEnd(total)
               => PaddedByte(total, a + i) = LengthByte(total, a + i - ZerosEnd(total))
        BY <1>2, <3>2, <4>0, PaddedBytes
      <4>2. CASE i <= n
        <5>1. ~(i > z) /\ ~(i \in n + 2 .. z) /\ i # n + 1 /\ a + i <= total /\ i \in 1..n
          BY <4>0, <4>2, <1>7, <1>16, <3>1
        <5> QED BY <1>8, <1>9, <1>11, <1>12, <1>16, <2>1, <4>1, <5>1
      <4>3. CASE i = n + 1
        <5>1. ~(i > z) /\ ~(i \in n + 2 .. z) /\ a + i = total + 1
          BY <4>0, <4>3, <1>7, <1>16, <3>1
        <5> QED BY <1>9, <1>11, <1>12, <1>16, <2>1, <4>1, <4>3, <5>1
      <4>4. CASE i > n + 1 /\ i <= z
        <5>1. ~(i > z) /\ i \in n + 2 .. z /\ a + i > total + 1 /\ a + i <= ZerosEnd(total)
          BY <4>0, <4>4, <1>7, <1>16, <3>1
        <5> QED BY <1>11, <1>12, <1>16, <2>1, <4>1, <5>1
      <4>5. CASE i > z
        <5>1. a + i > ZerosEnd(total) /\ a + i - ZerosEnd(total) = i - z
          BY <4>0, <4>5, <1>16, <3>1
        <5> QED BY <1>12, <1>16, <4>1, <4>5, <5>1
      <4> QED BY <4>0, <4>2, <4>3, <4>4, <4>5, <1>16
    <3>4. blocks' = blocks \o <<final>>
      <4>1. blocks \o <<>> = blocks BY <1>8
      <4> QED BY <1>1, <2>1, <4>1
    <3>5. /\ blocks' \in Seq(Block) /\ Len(blocks') = l + 1
          /\ \A k \in 1..l : blocks'[k] = blocks[k]
          /\ blocks'[l + 1] = final
      BY <1>4, <1>8, <1>14, <3>4, Pushed
    <3>6. ASSUME NEW k \in 1..(l + 1), NEW i \in 1..BlockSize
          PROVE  blocks'[k][i] = PaddedByte(total, Span(k - 1) + i)
      <4>1. k \in 1..l \/ (k = l + 1 /\ k - 1 = l) OBVIOUS
      <4> QED BY <1>5, <1>15, <3>2, <3>3, <3>5, <4>1
    <3> QED BY <3>1, <3>5, <3>6
  <2>2. CASE more
    <3>1. ZerosEnd(total) = a + BlockSize + z /\ PaddedBlocks(total) = l + 1 + 1 /\ n + 1 > z
      BY <1>17, <1>18, <2>2
    <3>2. total < ZerosEnd(total) /\ ZerosEnd(total) \in Nat BY <1>3, <1>6, <1>7, <3>1
    <3>3. ASSUME NEW i \in 1..BlockSize
          PROVE  extra[i] = PaddedByte(total, a + i)
      <4>0. i \in Nat /\ i >= 1 /\ i <= BlockSize /\ a + i \in Nat BY <1>6
      <4>1. /\ a + i <= total => PaddedByte(total, a + i) = Data(a + i)
            /\ a + i = total + 1 => PaddedByte(total, a + i) = Mark
            /\ a + i > total + 1 /\ a + i <= ZerosEnd(total) => PaddedByte(total, a + i) = Zero
        BY <1>2, <3>2, <4>0, PaddedBytes
      <4>2. CASE i <= n
        <5>1. ~(i \in n + 2 .. BlockSize) /\ i # n + 1 /\ a + i <= total /\ i \in 1..n
          BY <4>0, <4>2, <1>7
        <5> QED BY <1>8, <1>9, <1>10, <4>1, <5>1
      <4>3. CASE i = n + 1
        <5>1. ~(i \in n + 2 .. BlockSize) /\ a + i = total + 1
          BY <4>0, <4>3, <1>7
        <5> QED BY <1>9, <1>10, <4>1, <4>3, <5>1
      <4>4. CASE i > n + 1
        <5>1. i \in n + 2 .. BlockSize /\ a + i > total + 1 /\ a + i <= ZerosEnd(total)
          BY <4>0, <4>4, <1>6, <1>7, <1>16, <3>1
        <5> QED BY <1>10, <4>1, <5>1
      <4> QED BY <4>0, <4>2, <4>3, <4>4
    <3>9. PICK b \in Nat : b = a + BlockSize BY <1>6
    <3>4. ASSUME NEW i \in 1..BlockSize
          PROVE  final[i] = PaddedByte(total, b + i)
      <4>0. i \in Nat /\ i >= 1 /\ i <= BlockSize /\ b + i \in Nat BY <1>6, <3>9
      <4>1. /\ b + i > total + 1 /\ b + i <= ZerosEnd(total)
               => PaddedByte(total, b + i) = Zero
            /\ b + i > ZerosEnd(total)
               => PaddedByte(total, b + i)
                  = LengthByte(total, b + i - ZerosEnd(total))
        BY <1>2, <3>2, <4>0, PaddedBytes
      <4>2. CASE i <= z
        <5>1. /\ ~(i > z) /\ i \in 1..z /\ b + i > total + 1
              /\ b + i <= ZerosEnd(total)
          BY <4>0, <4>2, <1>3, <1>6, <1>7, <1>16, <3>1, <3>9
        <5> QED BY <1>11, <1>12, <1>16, <2>2, <4>1, <5>1
      <4>3. CASE i > z
        <5>1. b + i > ZerosEnd(total) /\ b + i - ZerosEnd(total) = i - z
          BY <4>0, <4>3, <1>16, <3>1, <3>9
        <5> QED BY <1>12, <1>16, <4>1, <4>3, <5>1
      <4> QED BY <4>0, <4>2, <4>3, <1>16
    <3>5. blocks' = blocks \o <<extra>> \o <<final>> BY <1>1, <2>2
    <3>6. /\ (blocks \o <<extra>>) \in Seq(Block) /\ Len(blocks \o <<extra>>) = l + 1
          /\ \A k \in 1..l : (blocks \o <<extra>>)[k] = blocks[k]
          /\ (blocks \o <<extra>>)[l + 1] = extra
      BY <1>4, <1>8, <1>14, Pushed
    <3>7. /\ blocks' \in Seq(Block) /\ Len(blocks') = l + 1 + 1
          /\ \A k \in 1..(l + 1) : blocks'[k] = (blocks \o <<extra>>)[k]
          /\ blocks'[l + 1 + 1] = final
      <4>1. l + 1 \in Nat OBVIOUS
      <4> QED BY <1>14, <3>5, <3>6, <4>1, Pushed
    <3>8. ASSUME NEW k \in 1..(l + 1 + 1), NEW i \in 1..BlockSize
          PROVE  blocks'[k][i] = PaddedByte(total, Span(k - 1) + i)
      <4>1. \/ k \in 1..l /\ k \in 1..(l + 1)
            \/ k = l + 1 /\ k - 1 = l /\ k \in 1..(l + 1)
            \/ k = l + 1 + 1 /\ k - 1 = l + 1
        OBVIOUS
      <4>2. Span(l + 1) = b BY <1>5, <3>9, Spans
      <4>3. CASE k \in 1..l /\ k \in 1..(l + 1)
        <5>1. blocks'[k] = blocks[k] BY <3>6, <3>7, <4>3
        <5> QED BY <1>15, <3>2, <4>3, <5>1
      <4>4. CASE k = l + 1 /\ k - 1 = l /\ k \in 1..(l + 1)
        BY <1>5, <3>3, <3>6, <3>7, <4>4
      <4>5. CASE k = l + 1 + 1 /\ k - 1 = l + 1 BY <3>4, <3>7, <4>2, <4>5
      <4> QED BY <4>1, <4>3, <4>4, <4>5
    <3> QED BY <3>1, <3>7, <3>8
  <2> QED BY <2>1, <2>2
<1>20. HashesPaddedMessage'
  <2>1. PaddedBlocks(total) \in Nat BY <1>17
  <2>2. blocks' = [k \in 1..PaddedBlocks(total) |->
                      [i \in 1..BlockSize |-> PaddedByte(total, (k - 1) * BlockSize + i)]]
    BY <1>19, <2>1, SameBlocks
  <2> QED BY <1>1, <2>2 DEF HashesPaddedMessage
<1>21. /\ left' \in Nat /\ total' \in Nat /\ total' + left' <= MaxBytes
       /\ filled' \in 0..BlockSize - 1 /\ buffer' \in Block
  BY <1>1, <1>2, <1>14 DEF Filling
<1> QED BY <1>1, <1>20, <1>21 DEF ShaInv

LEMMA ShaStep == ShaInv /\ [ShaNext]_shaVars => ShaInv'
<1> SUFFICES ASSUME ShaInv, [ShaNext]_shaVars PROVE ShaInv'
  OBVIOUS
<1>1. CASE ReadChunk BY <1>1, ReadChunkInv
<1>2. CASE ReadFails
  BY <1>2 DEF ReadFails, ShaInv, Filling, FileRead, HashesPaddedMessage
<1>3. CASE Finish BY <1>3, FinishInv
<1>4. CASE UNCHANGED shaVars
  BY <1>4 DEF shaVars, ShaInv, Filling, FileRead, HashesPaddedMessage
<1> QED BY <1>1, <1>2, <1>3, <1>4 DEF ShaNext

LEMMA ShaInvIsEnough == ShaInv => DigestIsOfFile
<1> SUFFICES ASSUME ShaInv PROVE DigestIsOfFile
  OBVIOUS
<1>1. ShaTypeOK
  <2>1. buffer \in [1..BlockSize -> Byte] /\ BlockSize \in Nat BY SizesType DEF ShaInv, Block
  <2>2. Len(buffer) = BlockSize BY <2>1, FunctionIsSeq
  <2>3. total + left \in 0..MaxBytes BY SizesType DEF ShaInv
  <2> QED BY <2>2, <2>3 DEF ShaInv, ShaTypeOK
<1>2. NothingSkipped
  <2> SUFFICES ASSUME outcome # "hashed"
               PROVE  /\ total = Len(blocks) * BlockSize + filled
                      /\ blocks = [n \in 1..Len(blocks) |->
                                      [i \in 1..BlockSize |-> Data((n - 1) * BlockSize + i)]]
                      /\ \A i \in 1..filled : buffer[i] = Data(Len(blocks) * BlockSize + i)
    BY DEF NothingSkipped
  <2>1. Filling BY DEF ShaInv
  <2>2. blocks \in [1..Len(blocks) -> Block] BY <2>1, LenProperties DEF Filling
  <2>3. ASSUME NEW n \in 1..Len(blocks)
        PROVE  blocks[n] = [i \in 1..BlockSize |-> Data((n - 1) * BlockSize + i)]
    <3>1. blocks[n] \in [1..BlockSize -> Byte] BY <2>2 DEF Block
    <3>2. \A i \in 1..BlockSize : blocks[n][i] = Data((n - 1) * BlockSize + i)
      BY <2>1 DEF Filling, FileRead, Span
    <3> QED BY <3>1, <3>2
  <2>4. blocks = [n \in 1..Len(blocks) |->
                     [i \in 1..BlockSize |-> Data((n - 1) * BlockSize + i)]]
    BY <2>2, <2>3
  <2>5. /\ total = Len(blocks) * BlockSize + filled
        /\ \A i \in 1..filled : buffer[i] = Data(Len(blocks) * BlockSize + i)
    BY <2>1 DEF Filling, FileRead, Span
  <2> QED BY <2>4, <2>5
<1>3. HashesPaddedMessage BY DEF ShaInv
<1> QED BY <1>1, <1>2, <1>3 DEF DigestIsOfFile

(* sha256_file gives transform every byte of the file, in its order, and the  *)
(* padding of the standard, for every size of blocks and chunks.              *)
THEOREM DigestsAreOfFiles == ShaSpec => []DigestIsOfFile
<1>1. ShaInit => ShaInv BY ShaInvInit
<1>2. ShaInv /\ [ShaNext]_shaVars => ShaInv' BY ShaStep
<1>3. ShaInv => DigestIsOfFile BY ShaInvIsEnough
<1> QED BY <1>1, <1>2, <1>3, PTL DEF ShaSpec
=============================================================================
