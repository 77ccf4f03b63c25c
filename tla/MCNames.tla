------------------------------ MODULE MCNames ------------------------------
(* An instance of Names for TLC. *)
EXTENDS Names, SequencesExt

MCCharacters     == {"a", "b", "v1", "/", " ", "+", "%", "?", "#", "|"}
MCPublicPrefixes == {<<>>, <<"/", "a">>}

(* All short texts of letters and slashes; and names with special          *)
(* characters, or with an API prefix.                                      *)
Special3 ==
    {<<"a", "/", "a", "/", c>> : c \in {"b", " ", "+", "%", "?", "#", "|"}}
    \cup {<<"a", "/", "a", "|", "a", "/", "a">>, <<"a", "/", "a", "/", "a", "|", "a">>,
          <<"a", "/", "v1", "/", "a">>, <<"a", "/", "a", "/", "v1", "/", "a">>,
          <<"b", "/", "a", "/", "a">>, <<"a", "/", "b", "/", "a">>}
MCTexts == BoundedSeq({"a", "/"}, 6) \cup Special3

MCObjects ==
    {<<"a">>, <<"b">>, <<"a", "/">>, <<"/", "a">>, <<"a", "/", "/", "a">>,
     <<"a", "+">>, <<"a", "#">>, <<"a", "|", "a">>}
=============================================================================
