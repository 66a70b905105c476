----------------------------- MODULE MCBackground -----------------------------
\* Instances of Background: which key and owner stand behind each id.
EXTENDS Background, TLC
CONSTANTS r1, r2, m, o, k1, k2
MCKeyOf == r1 :> k1 @@ r2 :> k2 @@ m :> k1 @@ o :> k2
MCOwnerOf == k1 :> "ann" @@ k2 :> "bob"
=============================================================================
