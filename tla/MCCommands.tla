----------------------------- MODULE MCCommands -----------------------------
(* Instances of Commands for TLC. *)
EXTENDS Commands

CONSTANTS wirebot, guest, taken, here, plain, cat, path, saved, gone

(* The names, those that are prefixes of others, and abbreviations.  The    *)
(* empty word is a prefix of every name.                                    *)
Prefixes ==
  {<<n, n>> : n \in Names} \cup {<<"", n>> : n \in Names}
    \cup {<<"ignore", "ignores">>, <<"server", "serverinfo">>, <<"who", "whois">>}
    \cup {<<"s", n>> : n \in {"save", "say", "server", "serverinfo", "status", "subscribe"}}
    \cup {<<"st", "status">>}

SomeNicks    == {wirebot, taken}
SomeStatuses == {here}
SomeIcons    == {plain, cat}
SomeValues   == {wirebot, taken, guest, here, plain, cat, NoValue, path, saved, gone}

Said == [slash |-> FALSE, word |-> "unknown", args |-> 1, value |-> NoValue]

(* Commands of every kind, with the arguments that make a difference. *)
Singles ==
  {Slash("whois", 1, guest), Slash("msg", 2, gone),
   Slash("mv", 1, NoValue), Slash("s", 1, NoValue),
   Slash("icon", 1, gone), Slash("load", 1, saved),
   Slash("load", 1, gone), Slash("quit", 0, NoValue)}

(* Answers of two lines, with a delay between them. *)
Leaving  == Slash("disconnect", 0, NoValue)
Removing == Slash("rm", 1, NoValue)
Pairs    == {<<Said>>, <<Leaving, Said>>, <<Leaving, Removing>>}

SomeAnswers ==
  {[kind |-> "other", texts |-> <<t>>] : t \in Singles}
    \cup {[kind |-> "say", texts |-> t] : t \in Pairs}
    \cup {[kind |-> "message", texts |-> <<Said>>]}

(* A file as /save writes it, without the status and the line that opens a session. *)
SomeBookmarks ==
  [b \in {saved} |-> <<Slash("nick", 1, wirebot), Slash("icon", 1, path)>>]

ASSUME LinesCounted == LoadsAlone
=============================================================================
