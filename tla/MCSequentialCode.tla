-------------------------- MODULE MCSequentialCode --------------------------
(***************************************************************************)
(* The parts that one thread runs on its own, one of them in each           *)
(* behaviour, as nothing of one depends on another: the rate adapter and    *)
(* the four pieces that read a file of the library.                         *)
(***************************************************************************)
EXTENDS MCModelRateAdapter, MetadataReader, JsonString, DecimalToken, Sha256Stream

VARIABLE subject

MCUnit == {97, 127, 128, \h7FF, \h800, \hD7FF, \hD800, \hDBFF, \hDC00, \hDFFF, \hE000, \hFFFF}

MCExponents == {-6} \cup -2..2

MCVars == <<vars, readerVars, stringVars, decimalVars, shaVars, subject>>

\* One model rate and an empty file stand for those that are not looked at.
MCInit == /\ Init
          /\ ReaderInit
          /\ StringInit
          /\ DecimalInit
          /\ ShaInit
          /\ subject \in {"adapter", "reader", "string", "decimal", "sha"}
          /\ subject # "adapter" => modelRate = -1
          /\ subject # "sha" => left = 0

MCNext == /\ \/ /\ subject = "adapter"
                /\ Next
                /\ UNCHANGED <<readerVars, stringVars, decimalVars, shaVars>>
             \/ /\ subject = "reader"
                /\ ReaderNext
                /\ UNCHANGED <<vars, stringVars, decimalVars, shaVars>>
             \/ /\ subject = "string"
                /\ StringNext
                /\ UNCHANGED <<vars, readerVars, decimalVars, shaVars>>
             \/ /\ subject = "decimal"
                /\ DecimalNext
                /\ UNCHANGED <<vars, readerVars, stringVars, shaVars>>
             \/ /\ subject = "sha"
                /\ ShaNext
                /\ UNCHANGED <<vars, readerVars, stringVars, decimalVars>>
          /\ UNCHANGED subject

MCSpec == /\ MCInit
          /\ [][MCNext]_MCVars
          /\ WF_vars(subject = "adapter" /\ (RunModel \/ Deliver))
=============================================================================
