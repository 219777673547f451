----------------------------- MODULE JsonString -----------------------------
(*****************************************************************************)
(* parse_string with parse_unicode_escape and append_utf8: a string of the   *)
(* metadata reader, scanned from its opening quote.  The bytes are classes;  *)
(* an escape \u stands for its four digits, and text is the output by its    *)
(* code points, the bytes of which are counted.  Bytes above 127 are copied  *)
(* as they come and left out.                                                *)
(*****************************************************************************)
EXTENDS Integers, Sequences

CONSTANTS MaxStringBytes,  \* NamReadLimits::max_string_bytes
          Unit             \* the code units that an escape \uXXXX may name

ASSUME StringAssumption == /\ MaxStringBytes \in Nat
                           /\ Unit \subseteq Nat
                           /\ \A unit \in Unit : unit <= \hFFFF

VARIABLES scan,    \* what is read next, or how the string has ended
          high,    \* the high surrogate that waits for a low one
          text,    \* output, by its code points
          bytes,   \* output.size()
          units    \* the code units the file names for each of them; not of the code

stringVars == <<scan, high, text, bytes, units>>

-----------------------------------------------------------------------------
StringInit == scan = "quote" /\ high = 0 /\ text = <<>> /\ bytes = 0 /\ units = <<>>

IsHigh(unit) == \hD800 <= unit /\ unit <= \hDBFF

IsLow(unit) == \hDC00 <= unit /\ unit <= \hDFFF

\* append_utf8.
Utf8Length(codepoint) ==
    IF codepoint <= 127 THEN 1 ELSE IF codepoint <= 2047 THEN 2
    ELSE IF codepoint <= 65535 THEN 3 ELSE 4

Ends(how) == scan' = how /\ UNCHANGED <<high, text, bytes>>

\* The limit is looked at after every character.
AppendPoint(codepoint) ==
    /\ text' = Append(text, codepoint)
    /\ bytes' = bytes + Utf8Length(codepoint)
    /\ scan' = IF bytes' > MaxStringBytes THEN "toolong" ELSE "text"
    /\ high' = 0

OpenQuote == /\ scan = "quote"
             /\ Ends("text") \/ Ends("malformed")
             /\ UNCHANGED units

\* The closing quote, and what may not be in a string: its end, a control
\* character, an escape of nothing.
CloseQuote == /\ scan = "text"
              /\ Ends("closed") \/ Ends("malformed")
              /\ UNCHANGED units

\* A byte, or an escape of one character.
Plain(byte) == /\ scan = "text"
               /\ AppendPoint(byte)
               /\ units' = Append(units, <<byte>>)

\* Variant: the pair is not counted from 0x10000.
CombineUnits(first, second) == (first - \hD800) * 1024 + (second - \hDC00)

Combine(first, second) == 65536 + (first - \hD800) * 1024 + (second - \hDC00)

Escape(unit) ==
    /\ scan = "text"
    /\ units' = Append(units, <<unit>>)
    /\ IF IsHigh(unit) THEN scan' = "low" /\ high' = unit /\ UNCHANGED <<text, bytes>>
       ELSE IF IsLow(unit) THEN Ends("malformed")
       ELSE AppendPoint(unit)

\* After a high surrogate only \u and a low one may come.
LowSurrogate(unit) ==
    /\ scan = "low"
    /\ units' = [units EXCEPT ![Len(units)] = Append(@, unit)]
    /\ IF IsLow(unit) THEN AppendPoint(Combine(high, unit)) ELSE Ends("malformed")

NoLowSurrogate == /\ scan = "low"
                  /\ Ends("malformed")
                  /\ UNCHANGED units

StringNext == \/ OpenQuote
              \/ CloseQuote
              \/ \E byte \in Unit \cap 0..127 : Plain(byte)
              \/ \E unit \in Unit : Escape(unit) \/ LowSurrogate(unit)
              \/ NoLowSurrogate

StringSpec == StringInit /\ [][StringNext]_stringVars

-----------------------------------------------------------------------------
LastCodePoint == \h10FFFF

CodePoint == 0..LastCodePoint

StringTypeOK == /\ scan \in {"quote", "text", "low", "closed", "malformed", "toolong"}
                /\ text \in Seq(CodePoint)
                /\ bytes \in Nat
                /\ units \in Seq(Seq(Unit))
                /\ high \in Nat
                /\ IF scan = "low" THEN IsHigh(high) ELSE scan = "malformed" \/ high = 0

\* The code units of UTF-16 that stand for a code point.
Utf16(codepoint) ==
    IF codepoint < 65536 THEN <<codepoint>>
    ELSE <<\hD800 + (codepoint - 65536) \div 1024, \hDC00 + ((codepoint - 65536) % 1024)>>

(* What was appended for ASCII bytes and escapes is what the file says: encoded *)
(* in UTF-16 again, each code point gives the units that were read for it, and  *)
(* none is a surrogate, which UTF-8 could not hold.                             *)
OutputIsText ==
    /\ \A i \in 1..Len(text) : ~IsHigh(text[i]) /\ ~IsLow(text[i])
    /\ scan \in {"text", "closed", "toolong"} =>
          units = [i \in 1..Len(text) |-> Utf16(text[i])]

(* A string that is returned keeps the limit, and one that is refused as too *)
(* long does not, by at most one character.                                  *)
LimitIsExact ==
    /\ scan \in {"text", "low", "closed"} => bytes <= MaxStringBytes
    /\ scan = "toolong" => bytes \in MaxStringBytes + 1 .. MaxStringBytes + 4

(* A string that parse_string returns has the characters that the file names by  *)
(* ASCII bytes and escapes, and keeps the limit; only a longer one is refused as *)
(* too long.  Bytes above 127 are outside of it: the code does not check them.   *)
StringIsExact == StringTypeOK /\ OutputIsText /\ LimitIsExact
=============================================================================
