--------------------------- MODULE MetadataReader ---------------------------
(*****************************************************************************)
(* read_metadata with its JsonProbe, a recursive descent over the file's     *)
(* tokens that keeps what it needs and skips the rest.  frames is the call   *)
(* stack: the root object, the metadata object, and the objects and arrays   *)
(* that skip_value is in; depths is the argument each of them was given.     *)
(*                                                                           *)
(* A token is a class of what parse_string, parse_number and the literals    *)
(* scan: strings by the key or value they are, numbers by their sign and by  *)
(* whether a double holds them, and what is cut short or wrong.  The file is *)
(* any sequence of tokens, chosen as it is read; a read error is its end.    *)
(*****************************************************************************)
EXTENDS Integers, Sequences, SequencesExt

CONSTANT MaxDepth  \* NamReadLimits::max_nesting_depth

ASSUME DepthAssumption == MaxDepth \in Nat

VARIABLES frames,  \* the functions that are reading an object or an array
          depths,  \* the parameter depth of each of them
          place,   \* where in the innermost one
          field,   \* the key whose value is read
          seen,    \* the required fields that hold a string that is not empty
          last,    \* the token read last
          error    \* the error of the result, "none" as long as there is none

readerVars == <<frames, depths, place, field, seen, last, error>>

-----------------------------------------------------------------------------
Required == {"version", "architecture"}

Text == Required \cup {"sample_rate", "metadata", "name", "input_level_dbu", "other", ""}

Number == {"positive", "not positive"}

\* Well-formed numbers that parse_decimal_token turns down: a double holds
\* neither 1e9999 nor 1e-9999, and digits and exponents have limits.
OutOfRange == {"out of range"}

\* A string over the limit; a string, number or literal that is cut short or
\* wrong; and the first characters of null without the rest.
Broken == {"long string", "broken", "nul"}

Token == Text \cup Number \cup OutOfRange \cup {"true", "null"} \cup Broken
         \cup {"{", "}", "[", "]", ":", ",", "end"}

ReaderInit == /\ frames = <<>>
              /\ depths = <<>>
              /\ place = "file"
              /\ field = "other"
              /\ seen = {}
              /\ last = "none"
              /\ error = "none"

Go(where) == place' = where /\ UNCHANGED error

Fail(code) == error' = code /\ UNCHANGED place

\* The file is looked at and opened.
Inspect == /\ place = "file"
           /\ error = "none"
           /\ \/ Go("start")
              \/ \E code \in {"file_not_found", "not_a_regular_file", "file_too_large",
                              "open_failed"} : Fail(code)
           /\ UNCHANGED <<frames, depths, field, seen, last>>

\* check_depth.
TooDeep(depth) == depth > MaxDepth

Innermost == Last(frames)

\* Variant: an array hands its own depth on to its elements.
DepthOfLists == IF Innermost = "array" THEN Last(depths) ELSE Last(depths) + 1

\* What the five calls for a value pass on: each function adds one to its own.
ChildDepth == Last(depths) + 1

Call(function, depth) == /\ frames' = Append(frames, function)
                         /\ depths' = Append(depths, depth)

\* What is said of a token that does not belong where it is: parse_string is the
\* only one that knows another word.
Complaint(t, strings) ==
    IF strings /\ t = "long string" THEN "string_too_long" ELSE "malformed_json"

\* consume('{') and check_depth of parse_root_object.
Start(t) ==
    /\ place = "start"
    /\ IF t # "{" THEN Fail("malformed_json") /\ UNCHANGED <<frames, depths>>
       ELSE IF TooDeep(1) THEN Fail("nesting_too_deep") /\ UNCHANGED <<frames, depths>>
       ELSE Go("first member") /\ frames' = <<"root">> /\ depths' = <<1>>
    /\ UNCHANGED <<field, seen>>

\* A bracket is closed: the function that reads it returns.
Leave == /\ frames' = Front(frames)
         /\ depths' = Front(depths)
         /\ Go(IF Len(frames) = 1 THEN "end" ELSE "more")

\* Only the two objects that are known have keys that matter.
ReadKey(t) ==
    /\ place \in {"first member", "member"}
    /\ \/ /\ t \in Text
          /\ field' = IF Innermost \in {"root", "metadata"} THEN t ELSE "other"
          /\ Go("colon")
          /\ UNCHANGED <<frames, depths>>
       \/ /\ t = "}" /\ place = "first member"
          /\ Leave
          /\ UNCHANGED field
       \/ /\ t \notin Text
          /\ ~(t = "}" /\ place = "first member")
          /\ Fail(Complaint(t, TRUE))
          /\ UNCHANGED <<frames, depths, field>>
    /\ UNCHANGED seen

ReadColon(t) ==
    /\ place = "colon"
    /\ IF t = ":" THEN Go("value") ELSE Fail("malformed_json")
    /\ UNCHANGED <<frames, depths, field, seen>>

\* Which function reads the value.
Reads(function) ==
    /\ place \in {"value", "rest of value", "first element"}
    /\ function =
        CASE Innermost = "root" /\ field \in Required             -> "required string"
          [] Innermost = "root" /\ field = "sample_rate"          -> "sample rate"
          [] Innermost = "root" /\ field = "metadata"             -> "metadata"
          [] Innermost = "metadata" /\ field = "name"             -> "optional string"
          [] Innermost = "metadata" /\ field = "input_level_dbu"  -> "optional number"
          [] OTHER                                                -> "any"

\* A later value of the field replaces an earlier one, whether it is empty or not.
RequiredString(t) ==
    /\ Reads("required string")
    /\ IF t \in Text
       THEN /\ seen' = IF t = "" THEN seen \ {field} ELSE seen \cup {field}
            /\ Go("more")
       ELSE Fail(Complaint(t, TRUE)) /\ UNCHANGED seen
    /\ UNCHANGED <<frames, depths, field>>

SampleRate(t) ==
    /\ Reads("sample rate")
    /\ IF t = "positive" THEN Go("more") ELSE Fail("malformed_json")
    /\ UNCHANGED <<frames, depths, field, seen>>

\* try_consume_literal does not give back the characters of null that fit, and
\* the value is read from what follows them.
Optional(t, values, strings) ==
    /\ IF t \in values \/ (t = "null" /\ place = "value") THEN Go("more")
       ELSE IF t = "nul" /\ place = "value" THEN Go("rest of value")
       ELSE Fail(Complaint(t, strings))
    /\ UNCHANGED <<frames, depths, field, seen>>

OptionalString(t) == Reads("optional string") /\ Optional(t, Text, TRUE)

OptionalNumber(t) == Reads("optional number") /\ Optional(t, Number, FALSE)

\* check_depth comes before the bracket.
OpenMetadata(t) ==
    /\ Reads("metadata")
    /\ IF TooDeep(ChildDepth) THEN Fail("nesting_too_deep") /\ UNCHANGED <<frames, depths>>
       ELSE IF t = "{" THEN Go("first member") /\ Call("metadata", ChildDepth)
       ELSE Fail("malformed_json") /\ UNCHANGED <<frames, depths>>
    /\ UNCHANGED <<field, seen>>

\* Variant: an array has at least one element.
NeverEmpty(t) == FALSE

EmptyArray(t) == place = "first element" /\ t = "]"

\* skip_value; scalars count as a level of their own.  Without an error it takes
\* every number but those that a double does not hold.
SkipValue(t) ==
    /\ Reads("any")
    /\ \/ /\ EmptyArray(t)
          /\ Leave
       \/ /\ ~EmptyArray(t)
          /\ IF TooDeep(ChildDepth) THEN Fail("nesting_too_deep") /\ UNCHANGED <<frames, depths>>
             ELSE IF t = "{" THEN Go("first member") /\ Call("object", ChildDepth)
             ELSE IF t = "[" THEN Go("first element") /\ Call("array", ChildDepth)
             ELSE /\ IF t \in Text \cup Number \cup {"true", "null"} THEN Go("more")
                     ELSE Fail(Complaint(t, TRUE))
                  /\ UNCHANGED <<frames, depths>>
    /\ UNCHANGED <<field, seen>>

\* Variant: a comma may be the last thing before the bracket.
AfterCommaOrClose == IF Innermost = "array" THEN "first element" ELSE "first member"

AfterComma == IF Innermost = "array" THEN "value" ELSE "member"

ReadSeparator(t) ==
    /\ place = "more"
    /\ \/ /\ t = ","
          /\ Go(AfterComma)
          /\ UNCHANGED <<frames, depths>>
       \/ /\ t = IF Innermost = "array" THEN "]" ELSE "}"
          /\ Leave
       \/ /\ t \notin {",", IF Innermost = "array" THEN "]" ELSE "}"}
          /\ Fail("malformed_json")
          /\ UNCHANGED <<frames, depths>>
    /\ UNCHANGED <<field, seen>>

\* The rest of parse(): nothing else may come, and both fields must hold a string.
EndOfFile(t) ==
    /\ place = "end"
    /\ IF t # "end" THEN Fail("malformed_json")
       ELSE IF seen # Required THEN Fail("missing_required_field")
       ELSE Go("done")
    /\ UNCHANGED <<frames, depths, field, seen>>

ReadToken(t) == /\ error = "none"
                /\ last' = t
                /\ \/ Start(t)
                   \/ ReadKey(t)
                   \/ ReadColon(t)
                   \/ RequiredString(t)
                   \/ SampleRate(t)
                   \/ OptionalString(t)
                   \/ OptionalNumber(t)
                   \/ OpenMetadata(t)
                   \/ SkipValue(t)
                   \/ ReadSeparator(t)
                   \/ EndOfFile(t)

ReaderNext == Inspect \/ \E t \in Token : ReadToken(t)

ReaderSpec == ReaderInit /\ [][ReaderNext]_readerVars

-----------------------------------------------------------------------------
ReaderTypeOK ==
    /\ frames \in Seq({"root", "metadata", "object", "array"})
    /\ place \in {"file", "start", "first member", "member", "colon", "value",
                  "rest of value", "first element", "more", "end", "done"}
    /\ field \in Text
    /\ seen \subseteq Required
    /\ frames = <<>> <=> place \in {"file", "start", "end", "done"}
    /\ \A i \in 1..Len(frames) : frames[i] = "root" <=> i = 1

\* The text as far as it has been read, for the grammar.
Brackets == [i \in 1..Len(frames) |-> IF frames[i] = "array" THEN "[" ELSE "{"]

Expected == IF place \in {"file", "start"} THEN "object"
            ELSE IF place = "rest of value" THEN "value"
            ELSE IF place = "done" THEN "end"
            ELSE place

Verdict == IF error # "none" THEN "refused"
           ELSE IF place = "done" THEN "accepted" ELSE "reading"

\* The token read last, or the one before it where nul was read and dropped: only
\* the value of a member is looked at for null, and it comes after a colon.
TokenSeen == IF place = "rest of value" THEN ":" ELSE last

Grammar == INSTANCE JsonGrammar WITH
    String  <- Text,
    Scalar  <- Number \cup OutOfRange \cup {"true", "null"},
    Noise   <- Broken,
    open    <- Brackets,
    expects <- Expected,
    token   <- TokenSeen,
    verdict <- Verdict

(* What the hand-written descent accepts, without every nul of its own that   *)
(* an optional field drops, is one JSON object and nothing else, however      *)
(* objects and arrays nest in what it reads and in what it skips: no trailing *)
(* comma, no bracket closed by the wrong one, nothing after the end.  That    *)
(* the text itself is JSON does not hold (AcceptedIsJson).                    *)
JsonOnceNulIsDropped == Grammar!Spec

(* The depth that each function was given by hand is its place on the stack.  *)
DepthsCount == depths = [i \in 1..Len(frames) |-> i]

(* The recursion never holds more objects and arrays than the limit, in which *)
(* function it may be and by whichever way it came there.                     *)
NestingBounded == Len(frames) <= MaxDepth

(* The stack of the descent matches the place in the text, and is bounded by  *)
(* what its functions compare with the limit.                                 *)
RecursionSound == ReaderTypeOK /\ DepthsCount /\ NestingBounded

\* The values that the fields with a meaning of their own may have.
Permitted == IF frames = <<>> THEN Token
             ELSE CASE Innermost = "root" /\ field \in Required -> Text
                    [] Innermost = "root" /\ field = "sample_rate" -> {"positive"}
                    [] Innermost = "root" /\ field = "metadata" -> {"{"}
                    [] Innermost = "metadata" /\ field = "name" -> Text \cup {"null"}
                    [] Innermost = "metadata" /\ field = "input_level_dbu" -> Number \cup {"null"}
                    [] OTHER -> Token

AtValue == place \in {"value", "rest of value", "first element"}

\* The three things that malformed_json says: the text is no JSON, a field has a
\* value of another type, or a number is read that a double does not hold.
NoJson(t) == place = "rest of value" \/ t \notin Grammar!Legal

OtherType(t) == AtValue /\ t \notin Permitted

NoDouble(t) == AtValue /\ t \in OutOfRange

(* A file is refused with an error that has its cause in the file: what is    *)
(* called malformed is no JSON, a known field with a value of another type,   *)
(* or, in a known field or in what is skipped, a number outside the range of  *)
(* a double, which is JSON; too deep is only what would exceed the limit; and *)
(* only a JSON object, read to its end, is told that a required field is      *)
(* missing.                                                                   *)
RefusalsAreTrue ==
    [][error' # error =>
        CASE error' = "malformed_json" ->
                NoJson(last') \/ OtherType(last') \/ NoDouble(last')
          [] error' = "nesting_too_deep" -> Len(frames) >= MaxDepth /\ ~EmptyArray(last')
          [] error' = "string_too_long" -> last' = "long string" /\ "" \in Grammar!Legal
          [] error' = "missing_required_field" ->
                frames = <<>> /\ last' \in Grammar!Legal /\ seen # Required
          [] OTHER -> place = "file"]_readerVars
=============================================================================
