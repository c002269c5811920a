---------------------------- MODULE MCWebServer ----------------------------
(* Instances of WebServer for TLC.                                         *)
EXTENDS WebServer, TLC

CONSTANTS s1, s2, c1, c2

OwnDomains == s1 :> "a.example" @@ s2 :> "b.example"
NoneOrACME == {"none", "acme"}
=============================================================================
