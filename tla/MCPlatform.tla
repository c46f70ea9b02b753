----------------------------- MODULE MCPlatform -----------------------------
(* A small instance of Platform for TLC.                                   *)
EXTENDS Platform, TLC

CONSTANTS p1, p2, s1, s2, a, b, i1, i2

OneOfEach == s1 :> "user" @@ s2 :> "admin"

(* Texts people write: a payload of a type that sends mails, and of one    *)
(* that sends none; over another form, each is one no executor takes.      *)
SomeEdits == { {"to", "subject", "body"}, {"text"} }

FiveWords == { "java", "javascript", "python", "react", "and" }
FourKeywords == { "java", "javascript", "python", "react" }
SomeInside == { << k, k >> : k \in FourKeywords } \cup { << "java", "javascript" >> }

=============================================================================
