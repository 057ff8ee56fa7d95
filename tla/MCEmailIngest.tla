--------------------------- MODULE MCEmailIngest ---------------------------
(* EmailIngest on a small mailbox: an inquiry, an answer to it, an answer to *)
(* both, a notice of an OTA without Message-ID and one from before the cut.  *)
EXTENDS EmailIngest, TLC

CONSTANTS i1, i2, i3

Mail_(id, refs, kind) == [id |-> id, refs |-> refs, kind |-> kind]
MCIds == {i1, i2, i3}
MCEmails ==
  {Mail_(i1, <<>>, "inquiry"), Mail_(i2, <<i1>>, "viator"), Mail_(i3, <<i2, i1>>, "other"),
   Mail_(NoId, <<>>, "ota"), Mail_(i2, <<>>, "old")}
============================================================================
