----------------------------- MODULE JsonGrammar -----------------------------
(****************************************************************************)
(* What a text has to be, token by token, to be one JSON object.  This is   *)
(* the abstract specification of the metadata reader: a reader may refuse a *)
(* text at any token, for reasons of its own, and accepts no other texts.   *)
(****************************************************************************)
EXTENDS Sequences, SequencesExt

CONSTANTS String,     \* the tokens that are strings
          Scalar,     \* the other tokens that are values by themselves
          Noise       \* what is no token of JSON

VARIABLES open,     \* the brackets that have been opened and not closed
          expects,  \* what has to come next
          token,    \* the token read last
          verdict   \* whether the text is accepted or refused

grammarVars == <<open, expects, token, verdict>>

-----------------------------------------------------------------------------
Punctuation == {"{", "}", "[", "]", ":", ","}

Token == String \cup Scalar \cup Noise \cup Punctuation \cup {"end"}

Closing(bracket) == IF bracket = "{" THEN "}" ELSE "]"

\* The tokens with which a text goes on.
Legal ==
    CASE expects = "object"        -> {"{"}
      [] expects = "first member"  -> String \cup {"}"}
      [] expects = "member"        -> String
      [] expects = "colon"         -> {":"}
      [] expects = "value"         -> String \cup Scalar \cup {"{", "["}
      [] expects = "first element" -> String \cup Scalar \cup {"{", "[", "]"}
      [] expects = "more"          -> {",", Closing(Last(open))}
      [] expects = "end"           -> {"end"}

Init == /\ open = <<>>
        /\ expects = "object"
        /\ token = "none"
        /\ verdict = "reading"

\* A token is taken: brackets are opened and closed, and something is next.
Take ==
    /\ verdict = "reading"
    /\ token' \in Legal
    /\ open' = CASE token' \in {"{", "["} -> Append(open, token')
                 [] token' \in {"}", "]"} -> Front(open)
                 [] OTHER                 -> open
    /\ expects' = CASE token' = "{" -> "first member"
                    [] token' = "[" -> "first element"
                    [] token' = ":" -> "value"
                    [] token' = "," -> IF Last(open) = "{" THEN "member" ELSE "value"
                    [] expects \in {"first member", "member"} /\ token' \in String -> "colon"
                    [] OTHER -> IF open' = <<>> THEN "end" ELSE "more"
    /\ verdict' = IF token' = "end" THEN "accepted" ELSE "reading"

Refuse == /\ verdict = "reading"
          /\ token' \in Token \cup {token}
          /\ verdict' = "refused"
          /\ UNCHANGED <<open, expects>>

Next == Take \/ Refuse

Spec == Init /\ [][Next]_grammarVars
=============================================================================
