-------------------------- MODULE MCLibraryCatalog --------------------------
(***************************************************************************)
(* Two processes, two assets that share a tag, names that differ only in   *)
(* case, and files of every version.                                       *)
(***************************************************************************)
EXTENDS LibraryCatalog, TLC

MCName == {"live", "LIVE", "lead"}

MCFolded == [n \in MCName |-> IF n = "LIVE" THEN "live" ELSE n]

MCTagList == {<<>>, <<"LIVE">>, <<"lead", "live", "LIVE">>}

\* Two assets that have the tag live; no saved search is older than version 3.
MCOldRows == [assets   |-> {1, 2},
              tags     |-> {[id |-> 1, name |-> "live"]},
              links    |-> {[asset |-> a, tag |-> 1] : a \in {1, 2}},
              searches |-> {},
              text     |-> [a \in {1, 2} |-> {"live"}],
              words    |-> [a \in {1, 2} |-> {"live"}]]
=============================================================================
