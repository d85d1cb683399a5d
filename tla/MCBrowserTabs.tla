--------------------------- MODULE MCBrowserTabs ---------------------------
(***************************************************************************)
(* Browser tabs on two of the texts of MCPutCas.  A merge of the one into  *)
(* the other meets a key that was deleted or emptied.                      *)
(***************************************************************************)
EXTENDS BrowserTabs, MCPutCas

MCTabsDraft == {<<"o", "p">>, <<"o", "b">>}
============================================================================
