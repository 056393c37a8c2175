--------------------------- MODULE MCProviderCall ---------------------------
(* Small instances of ProviderCall for TLC. *)
EXTENDS ProviderCall

\* The registry of a live production run, and one with a provider to fall back on.
OneOrTwo == {<<"xiyou">>, <<"xiyou", "sorftime">>}

TwoAttempts == [p \in Provider |-> 2]
=============================================================================
