---------------------------- MODULE MCLlmAdapter ----------------------------
(***************************************************************************)
(* Instances of LlmAdapter: one tool is registered, and a model may ask    *)
(* for another too.                                                        *)
(***************************************************************************)
EXTENDS LlmAdapter

Asked == {<<>>, <<"ghost", "search">>}

=============================================================================
