-------------------------- MODULE MCMetadataReader --------------------------
(***************************************************************************)
(* MetadataReader with a history variable, which notes for the whole text   *)
(* what the descent forgets: whether it could be JSON so far.               *)
(***************************************************************************)
EXTENDS MetadataReader

VARIABLE json  \* each token read so far is one with which a JSON object may go on

historyVars == <<readerVars, json>>

HistoryInit == ReaderInit /\ json = TRUE

InspectH == Inspect /\ UNCHANGED json

ReadTokenH(t) == ReadToken(t) /\ json' = (json /\ t \in Grammar!Legal)

HistoryNext == InspectH \/ \E t \in Token : ReadTokenH(t)

HistorySpec == HistoryInit /\ [][HistoryNext]_historyVars

(* "Reject malformed or unsupported files" (docs/ROADMAP.md): a file that     *)
(* read_metadata accepts is one JSON object.                                  *)
AcceptedIsJson == Verdict = "accepted" => json
=============================================================================
