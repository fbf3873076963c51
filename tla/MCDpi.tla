------------------------------- MODULE MCDpi -------------------------------
EXTENDS Dpi

(* One host of the user's and one of a source, whose list has a comment too. *)
MCNames == {{}, {"discord.com"}}
MCPreset == {"discord.com"}
Line(form, host) == [form |-> form, host |-> host]
MCBody == [s \in {"flowseal"} |-> {Line("adblock", "youtube.com"), Line("comment", "")}]
MCSources == {"flowseal"}
(* Two strategies of the user's, with --new between them.                  *)
MCOwn == {<<"tls", "http">>}
(* A router without nfqws2, and one whose user has set everything up.      *)
MCStarts == {[st |-> Default, installed |-> FALSE],
             [st |-> [on |-> TRUE, own |-> BuiltIn, targets |-> MCPreset, urls |-> MCSources,
                      auto |-> TRUE, last |-> 0], installed |-> TRUE]}
=============================================================================
