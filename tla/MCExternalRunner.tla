---- MODULE MCExternalRunner ----
(* Two inbounds of any protocol, two engine modes, two failures, one edit.  *)
EXTENDS ExternalRunner
====
