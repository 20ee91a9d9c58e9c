------------------------------- MODULE MCHosting -------------------------------
EXTENDS Hosting

(* Shapes of an agent at its start. *)
SomeKits == {<<"plain", "llm", "http">>, <<"memory", "llm", "rating">>,
             <<"training", "saia", "plain">>, <<"rating", "training">>}

(* Configurations: with and without memory, and with a trait that fails; tools
   of memory alone, with one that is unknown or twice named, and shared ones. *)
SomeTraitLists == {<<"memory">>, <<"llm">>, <<"llm", "memory">>, <<"http">>}
SomeToolLists ==
  {<<>>, <<"remember">>, <<"remember", "recall">>, <<"recall", "unknown">>,
   <<"read_file", "file_read">>, <<"web_fetch_configured">>, <<"shell", "web_fetch">>}
===============================================================================
