--------------------------- MODULE MCEvidenceStore ---------------------------
(* Two captures of the same bytes, and an observation whose manifest has   *)
(* the name of the first, as a name holds only a prefix of a record's hash.*)
EXTENDS EvidenceStore

MCCaptures == {"first", "again", "observed"}
MCBytes == [c \in MCCaptures |-> IF c = "observed" THEN Nothing ELSE "page"]
MCName == [c \in MCCaptures |-> IF c = "again" THEN "name2" ELSE "name1"]
=============================================================================
