------------------------------ MODULE MCEngine ------------------------------
(* Instances of Engine for TLC: dictionaries after wirebot.xml, with one    *)
(* administrator and one guest.                                            *)
EXTENDS Engine, FiniteSets

CONSTANTS admin, guest

AllTexts == {"", "smile", "SMILE", "hello", "hello all",
             "!stop", "!start", "!reload", "!help", "!nick", "help", "failed"}

CallsOf == [t \in AllTexts |-> CASE t = "!stop"   -> "stop"
                                 [] t = "!start"  -> "start"
                                 [] t = "!reload" -> "reload"
                                 [] t = "!help"   -> "help"
                                 [] t = "!nick"   -> "nick"
                                 [] OTHER         -> "none"]

Parts == {<<t, t>> : t \in AllTexts} \cup {<<"", t>> : t \in AllTexts}
           \cup {<<"hello", "hello all">>}

WithinRelation ==
  [sensitive \in BOOLEAN |->
     IF sensitive THEN Parts ELSE Parts \cup {<<"smile", "SMILE">>, <<"SMILE", "smile">>}]

Everybody == {admin, guest, Self}

PermittedUsers == [p \in {"any", "admin"} |-> IF p = "any" THEN Everybody ELSE {admin}]

(* Elements of a dictionary. *)
None == [n \in {} |-> ""]
Leaf(tag, attributes, text) == Element(tag, attributes, <<>>, text)

In(kind, comparison, text) ==
  Leaf("input", [message |-> kind, comparison |-> comparison, sensitive |-> "false"], text)
Out(kind, text, repeat) == Leaf("output", [message |-> kind, repeat |-> repeat], text)

RuleFor(nodes)               == Element("rule", [permissions |-> "any"], nodes, "")
CommandFor(name, who, nodes) ==
  Element("command", [name |-> name, permissions |-> who, activated |-> "true"], nodes, "")

Section(tag, nodes) == Element(tag, None, nodes, "")
Wirebot(sections)   == Element("wirebot", None, sections, "")

Controls == <<CommandFor("reload", "admin", <<Out("say", "hello all", 0)>>),
              CommandFor("stop", "admin", <<Out("say", "hello", 0)>>),
              CommandFor("start", "admin", <<Out("say", "smile", 0)>>)>>

Smiles == RuleFor(<<In("say", "equals", "smile"), In("me", "equals", "smile"),
                    Out("say", "smile", 0), Out("me", "hello", 2)>>)
Greets == RuleFor(<<In("say", "contains", "hello"), In("join", "equals", "hello"),
                    Out("say", "hello", 1)>>)
Shouts == RuleFor(<<In("broadcast", "equals", "smile"), Out("broadcast", "smile", 0)>>)
Mute   == RuleFor(<<In("say", "equals", "smile")>>)
Asleep == Element("rule", [activated |-> "no"],
                  <<In("say", "contains", "hello"), Out("say", "failed", 0)>>, "")

(* Terse has a rule and two commands without outputs, in sections that come *)
(* twice; Broken has commands among its rules.                              *)
Dictionaries ==
  [friendly |-> Wirebot(<<Section("rules", <<Asleep, Smiles, Greets>>),
                          Section("commands", Controls)>>),
   terse    |-> Wirebot(<<Section("commands", Controls), Section("rules", <<Mute>>),
                          Section("notes", <<Leaf("note", None, "hello")>>),
                          Section("commands", <<CommandFor("help", "any", <<>>),
                                                CommandFor("nick", "admin", <<>>)>>),
                          Section("rules", <<Greets>>)>>),
   broken   |-> Wirebot(<<Section("rules", <<Greets>> \o Controls \o <<Smiles>>),
                          Section("commands", Controls)>>)]

Loud == [loud |-> Wirebot(<<Section("rules", <<Greets, Shouts>>),
                            Section("commands", Controls)>>)]

Talk == {<<"say", "SMILE">>, <<"join", "">>,
         <<"say", "!stop">>, <<"message", "!start">>, <<"message", "!reload">>,
         <<"say", "!help">>, <<"message", "!nick">>}
Broadcasts == {<<"broadcast", "hello all">>}

(* These dictionaries meet the conditions of the theorems. *)
ASSUME Reloadable == ReloadStays
ASSUME PlainOrLoud == "loud" \notin Files => PlainInputs
=============================================================================
