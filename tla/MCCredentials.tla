--------------------------- MODULE MCCredentials ---------------------------
(* Instances of Credentials for TLC. *)
EXTENDS Credentials

CONSTANTS p1, p2, i1, i2

Document(first, second, ssh, github) ==
  [profiles |-> [i \in Ids |-> IF i = i1 THEN first ELSE second],
   defaults |-> [k \in Kinds |-> IF k = "ssh" THEN ssh ELSE github]]

(* i2 is in both documents, and the default of a different kind in each. *)
CanonicalDocument == Document(None, "key", i2, None)
LegacyDocument == Document("password", "pat", i1, i2)
=============================================================================
