----------------------------- MODULE PersoDocs -------------------------------
(***************************************************************************)
(* Two statements that the documentation and the comments make about the   *)
(* personalization, each as an invariant that TLC holds against the code.  *)
(***************************************************************************)
EXTENDS MCPerso

\* README.md:7 has the personalization "triggered during the first Time Boot Process":
\* a device already marked as personalized does not enter the workflow.
FirstBootOnly ==
  pc \in {"register", "format", "derive", "genKey", "writeKey", "closeKey", "wifi",
          "connecting", "webserver"} => nvsSet # "INIT"

\* espPerso.c:208 says of the body of genCSR "null termination will be absent, and content
\* length would give length of string": bytes behind that length are no part of the body,
\* and the subject of the request a client is sent has no names but those it sent.
SubjectIsOwn ==
  \A c \in Conns : conns[c].cli = "answer" /\ conns[c].says = "CSR" /\ conns[c].csr # NoArg =>
    conns[c].csr.subject \subseteq Named(conns[c].arg)
=============================================================================
