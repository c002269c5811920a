---- MODULE MCPanelUpdate ----
(* One request at a time and the helper it leaves behind; two requests may *)
(* follow one another.  The registry holds two signed, sound images and    *)
(* one that is neither.                                                    *)
EXTENDS PanelUpdate
CONSTANT i1
OneVless == {[i \in {i1} |-> "vless"]}
====
